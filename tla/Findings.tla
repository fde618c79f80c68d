---- MODULE Findings ----
(***************************************************************************)
(* The findings of one pull request: the row of pr_reviews that remembers  *)
(* them, the branch they are about, and the four that write either: a      *)
(* review, a fix job, the ignore command, a push.  A job reads the row     *)
(* when it starts and writes the whole row back when it ends; what happens *)
(* in between is decided on the copy.                                      *)
(*                                                                         *)
(* A site is one place a finding is about, with a file of its own that     *)
(* stays in the diff of the pull request; it has one fingerprint.  Its     *)
(* text is one of Text: the flagged code, the recorded or generated fix,   *)
(* some other edit, or no file.  A commit is its number on the branch.     *)
(***************************************************************************)
EXTENDS Naturals, Sequences

CONSTANTS
  Site,        \* the places findings are about
  High,        \* those of severity P1 or P2
  Ready,       \* those recorded with originalCode and fixedCode
  Audited,     \* those of an audit rule, which reads the file again
  Slot,        \* job slots of the workers
  NoSlot,      \* no slot
  Orphan,      \* the fix lock of a job whose process has died
  MaxCommits,  \* bound: commits of the branch
  MaxJobs,     \* bound: jobs started
  MaxStalls    \* bound: jobs that outlive their queue lease

ASSUME FindingsAssumption ==
  /\ High \subseteq Site
  /\ Ready \subseteq Site
  /\ Audited \subseteq Site
  /\ NoSlot \notin Slot
  /\ Orphan \notin Slot \cup {NoSlot}
  /\ MaxCommits \in Nat \ {0}
  /\ MaxJobs \in Nat
  /\ MaxStalls \in Nat

Text == {"flagged", "fixed", "other", "gone"}
Tree == [Site -> Text]
Sha == 1..MaxCommits
Status == {"none", "open", "fixed", "ignored"}
Scope == {"one", "ready", "all"}

(* pr_reviews: the commit last reviewed (0: no row), the status of every   *)
(* finding and, for a fixed one, the commit whose code shows it.  The code *)
(* leaves fixedAtSha empty when it meets a fix already made; here it is    *)
(* the commit the file was read at.                                        *)
Row == [lastSha : 0..MaxCommits, status : [Site -> Status], at : [Site -> 0..MaxCommits]]
NoRow == [lastSha |-> 0, status |-> [s \in Site |-> "none"], at |-> [s \in Site |-> 0]]

(* What a job holds: the commit it works on, the row it read, the row it   *)
(* will write, the files or findings it works on, those it chose among     *)
(* them, and the fingerprints suppressed when it started.                  *)
Job == [pc : {"idle", "head", "reading", "publishing", "posting", "posted",
              "gates", "locked", "ready", "committing", "saving"},
        sha : 0..MaxCommits, read : Row, out : Row,
        scope : SUBSET Site, chosen : SUBSET Site, quiet : SUBSET Site]
Idle == [pc |-> "idle", sha |-> 0, read |-> NoRow, out |-> NoRow,
         scope |-> {}, chosen |-> {}, quiet |-> {}]

VARIABLES
  code,        \* the commits of the branch, oldest first
  row,         \* the row of the pull request
  suppressed,  \* finding_suppressions
  covered,     \* <<site, text>>: files some saved review has read, as it read them
  lease,       \* the slot that holds the pull request in the queue
  fixLock,     \* the row of fix_locks
  job,         \* per slot
  started,     \* jobs started
  stalls       \* leases outlived

vars == <<code, row, suppressed, covered, lease, fixLock, job, started, stalls>>

Tip == Len(code)
(* A mutant: whatever is not fixed is open. *)
OpenUnlessFixed(r) == {s \in Site : r.status[s] \notin {"none", "fixed"}}

Open(r) == {s \in Site : r.status[s] = "open"}

Init ==
  /\ code = << [s \in Site |-> "flagged"] >>
  /\ row = NoRow
  /\ suppressed = {}
  /\ covered = {}
  /\ lease = NoSlot
  /\ fixLock = NoSlot
  /\ job = [w \in Slot |-> Idle]
  /\ started = 0
  /\ stalls = 0

-----------------------------------------------------------------------------
(* What a review makes of the row it read. *)

(* The recorded fix has landed: the file holds it and no longer the        *)
(* flagged code.                                                           *)
fixLanded(s, text) == s \in Ready /\ text = "fixed"

(* The audit finds no issue in the file any more.  Whatever text it passes *)
(* is the fixed one.                                                       *)
auditClean(s, text) == s \in Audited /\ text = "fixed"

(* What proves a finding fixed: the file is gone, the audit of its rule is *)
(* clean or, for any other rule, the recorded fix has landed.              *)
ClosedOnHead(s, text) ==
  text = "gone" \/ (IF s \in Audited THEN auditClean(s, text) ELSE fixLanded(s, text))

(* The open findings the head proves fixed; a file that could not be read  *)
(* proves nothing.                                                         *)
reconcileFixedOnHead(r, tree, unread) == {s \in Open(r) \ unread : ClosedOnHead(s, tree[s])}

(* A mutant: a miss closes a finding of any severity. *)
MissCloses(j, detected, unread, proved) ==
  {s \in Open(j.read) \ (unread \cup detected \cup proved) :
     s \in j.scope /\ j.read.lastSha # j.sha}

(* A mutant: a miss closes a low finding at any commit. *)
MissClosesAnywhere(j, detected, unread, proved) ==
  {s \in Open(j.read) \ (unread \cup detected \cup proved) : s \in j.scope \ High}

(* The open findings the models did not report again that may close for    *)
(* it: read by this review, at another commit than the last one, low.      *)
NewlyFixed(j, detected, unread, proved) ==
  {s \in Open(j.read) \ (unread \cup detected \cup proved) :
     /\ s \in j.scope
     /\ j.read.lastSha # j.sha
     /\ s \notin High}

(* Reported, not open already, not suppressed. *)
Postable(j, detected, proved) == (detected \ (Open(j.read) \ proved)) \ suppressed

(* The row a review writes.  A finding proved fixed stays fixed even when  *)
(* it is posted again; one that was fixed before opens again.              *)
serializeReviewState(j, fixed, toPost) ==
  [lastSha |-> j.sha,
   status |-> [s \in Site |->
     IF s \in fixed THEN "fixed"
     ELSE IF s \in toPost /\ j.read.status[s] \in {"none", "fixed"} THEN "open"
     ELSE j.read.status[s]],
   at |-> [s \in Site |-> IF s \in fixed THEN j.sha ELSE j.read.at[s]]]

-----------------------------------------------------------------------------
(* The queue: one job of the pull request at a time, unless one outlives   *)
(* its lease.                                                              *)

Begin(w, j) ==
  /\ lease = NoSlot
  /\ job[w].pc = "idle"
  /\ started < MaxJobs
  /\ lease' = w
  /\ started' = started + 1
  /\ job' = [job EXCEPT ![w] = j]

Goes(w, j) == job' = [job EXCEPT ![w] = j]

End(w) ==
  /\ job' = [job EXCEPT ![w] = Idle]
  /\ lease' = IF lease = w THEN NoSlot ELSE lease

ReleaseFixLock(w) == fixLock' = IF fixLock = w THEN NoSlot ELSE fixLock

(* A gate refuses the job, a call throws or the lease check fails: nothing *)
(* is saved.                                                               *)
Abandon(w) ==
  /\ job[w].pc # "idle"
  /\ End(w)
  /\ ReleaseFixLock(w)
  /\ UNCHANGED <<code, row, suppressed, covered, started, stalls>>

(* The process dies: the fix lock stays. *)
Crash(w) ==
  /\ job[w].pc # "idle"
  /\ fixLock = w
  /\ End(w)
  /\ fixLock' = Orphan
  /\ UNCHANGED <<code, row, suppressed, covered, started, stalls>>

(* The lease is checked before a write, not with it: it may run out between. *)
leaseValid(w) ==
  /\ job[w].pc \in {"publishing", "ready"}
  /\ lease = w
  /\ Goes(w, [job[w] EXCEPT !.pc = IF @ = "ready" THEN "committing" ELSE "posting"])
  /\ UNCHANGED <<code, row, suppressed, covered, lease, fixLock, started, stalls>>

(* The lease runs out under a job that goes on. *)
Stall(w) ==
  /\ lease = w
  /\ stalls < MaxStalls
  /\ lease' = NoSlot
  /\ stalls' = stalls + 1
  /\ UNCHANGED <<code, row, suppressed, covered, fixLock, job, started>>

-----------------------------------------------------------------------------
(* A review. *)

StartReview(w) ==
  /\ Begin(w, [Idle EXCEPT !.pc = "head", !.sha = Tip])
  /\ UNCHANGED <<code, row, suppressed, covered, fixLock, stalls>>

(* A push is reviewed from the commit last reviewed, anything else in full. *)
ReadState(w, synchronize) ==
  LET j == job[w]
      since == row.lastSha
      incremental == synchronize /\ since # 0 /\ since # j.sha
      files == IF incremental
               THEN {s \in Site : code[since][s] # code[j.sha][s]}
               ELSE Site
  IN  /\ j.pc = "head"
      /\ Goes(w, [j EXCEPT !.pc = "reading", !.read = row, !.scope = files, !.quiet = suppressed])
      /\ UNCHANGED <<code, row, suppressed, covered, lease, fixLock, started, stalls>>

(* The models report some findings, some files cannot be read, and the     *)
(* verifier keeps some of what would be posted.                            *)
mergeAndFilter(w, detected, unread, kept) ==
  LET j == job[w]
      proved == reconcileFixedOnHead(j.read, code[j.sha], unread)
      fixed == proved \cup NewlyFixed(j, detected, unread, proved)
  IN  /\ j.pc = "reading"
      /\ unread \subseteq Open(j.read)
      /\ \A s \in detected : code[j.sha][s] # "gone"
      /\ kept \subseteq Postable(j, detected, proved)
      /\ Goes(w, [j EXCEPT !.pc = "publishing", !.chosen = kept,
                           !.out = serializeReviewState(j, fixed, kept)])
      /\ UNCHANGED <<code, row, suppressed, covered, lease, fixLock, started, stalls>>

(* The write lands at GitHub; the row is written when its answer is back.   *)
PostReview(w) ==
  /\ job[w].pc = "posting"
  /\ Goes(w, [job[w] EXCEPT !.pc = "posted"])
  /\ UNCHANGED <<code, row, suppressed, covered, lease, fixLock, started, stalls>>

SaveReview(w) ==
  LET j == job[w] IN
  /\ j.pc = "posted"
  /\ row' = j.out
  /\ covered' = covered \cup {<<s, code[j.sha][s]>> : s \in j.scope}
  /\ End(w)
  /\ UNCHANGED <<code, suppressed, fixLock, started, stalls>>

-----------------------------------------------------------------------------
(* A fix job. *)

selectTargets(open, scope) ==
  CASE scope = "one"   -> {{s} : s \in open}
    [] scope = "ready" -> {open \cap Ready}
    [] scope = "all"   -> {open}

(* The row is read before the gates and before the fix lock. *)
StartFix(w, scope) ==
  \E targets \in selectTargets(Open(row), scope) :
    /\ targets # {}
    /\ Begin(w, [Idle EXCEPT !.pc = "gates", !.read = row, !.scope = targets])
    /\ UNCHANGED <<code, row, suppressed, covered, fixLock, stalls>>

acquireFixLock(w) ==
  /\ job[w].pc = "gates"
  /\ fixLock = NoSlot
  /\ fixLock' = w
  /\ Goes(w, [job[w] EXCEPT !.pc = "locked", !.sha = Tip])
  /\ UNCHANGED <<code, row, suppressed, covered, lease, started, stalls>>

(* After five minutes a fix lock counts for nothing, held or not. *)
FixLockExpires ==
  /\ fixLock # NoSlot
  /\ fixLock' = NoSlot
  /\ UNCHANGED <<code, row, suppressed, covered, lease, job, started, stalls>>

(* A mutant: a fix job also records its commit as the one last reviewed. *)
ResolvedAndReviewed(r, sites, sha) ==
  [lastSha |-> sha,
   status |-> [s \in Site |-> IF s \in sites THEN "fixed" ELSE r.status[s]],
   at |-> [s \in Site |-> IF s \in sites THEN sha ELSE r.at[s]]]

Resolved(r, sites, sha) ==
  [r EXCEPT !.status = [s \in Site |-> IF s \in sites THEN "fixed" ELSE @[s]],
            !.at = [s \in Site |-> IF s \in sites THEN sha ELSE @[s]]]

(* The fixes that verify and apply at the tip that was read; a target that *)
(* is found fixed already is marked so in the copy.                        *)
PrepareFix(w, chosen, already) ==
  LET j == job[w] IN
  /\ j.pc = "locked"
  /\ chosen \subseteq {s \in j.scope : code[j.sha][s] \in {"flagged", "other"}}
  /\ already \subseteq {s \in j.scope : code[j.sha][s] = "fixed"}
  /\ Goes(w, [j EXCEPT !.pc = IF chosen = {} THEN "saving" ELSE "ready",
                       !.chosen = chosen, !.out = Resolved(j.read, already, j.sha)])
  /\ UNCHANGED <<code, row, suppressed, covered, lease, fixLock, started, stalls>>

FixedTree(j) == [s \in Site |-> IF s \in j.chosen THEN "fixed" ELSE code[j.sha][s]]

(* A mutant: the ref is moved by force. *)
commitForced(w) ==
  /\ job[w].pc = "committing"
  /\ Tip < MaxCommits
  /\ code' = Append(code, FixedTree(job[w]))

(* One commit on the tip that was read; the ref moves only from that tip.   *)
commitFilesAtomic(w) ==
  /\ job[w].pc = "committing"
  /\ Tip = job[w].sha
  /\ Tip < MaxCommits
  /\ code' = Append(code, FixedTree(job[w]))

CommitFix(w) ==
  /\ commitFilesAtomic(w)
  /\ Goes(w, [job[w] EXCEPT !.pc = "saving", !.out = Resolved(@, job[w].chosen, Tip + 1)])
  /\ UNCHANGED <<row, suppressed, covered, lease, fixLock, started, stalls>>

(* The commit lands and the answer is lost: the job fails. *)
CommitUnheard(w) ==
  /\ commitFilesAtomic(w)
  /\ End(w)
  /\ ReleaseFixLock(w)
  /\ UNCHANGED <<row, suppressed, covered, started, stalls>>

(* branch_moved or contents_write_denied: the job goes on without a commit. *)
CommitRefused(w) ==
  /\ job[w].pc = "committing"
  /\ Goes(w, [job[w] EXCEPT !.pc = "saving"])
  /\ UNCHANGED <<code, row, suppressed, covered, lease, fixLock, started, stalls>>

SaveFix(w) ==
  /\ job[w].pc = "saving"
  /\ row' = job[w].out
  /\ End(w)
  /\ ReleaseFixLock(w)
  /\ UNCHANGED <<code, suppressed, covered, started, stalls>>

-----------------------------------------------------------------------------
(* What comes in from outside, at any moment. *)

(* The ignore command runs in the webhook, with no lease: it reads and      *)
(* writes the row at once.                                                 *)
Ignore(s) ==
  /\ row.status[s] # "none"
  /\ suppressed' = suppressed \cup {s}
  /\ row' = [row EXCEPT !.status[s] = "ignored"]
  /\ UNCHANGED <<code, covered, lease, fixLock, job, started, stalls>>

Push ==
  /\ Tip < MaxCommits
  /\ \E tree \in Tree \ {code[Tip]} : code' = Append(code, tree)
  /\ UNCHANGED <<row, suppressed, covered, lease, fixLock, job, started, stalls>>

(* A resolve job: GitHub merges the base into the tip of the branch. *)
mergeBranchInto ==
  /\ lease = NoSlot
  /\ Tip < MaxCommits
  /\ \E touched \in SUBSET {s \in Site : code[Tip][s] # "gone"} :
       code' = Append(code, [s \in Site |-> IF s \in touched THEN "other" ELSE code[Tip][s]])
  /\ UNCHANGED <<row, suppressed, covered, lease, fixLock, job, started, stalls>>

-----------------------------------------------------------------------------
Review(w) ==
  \/ StartReview(w)
  \/ \E synchronize \in BOOLEAN : ReadState(w, synchronize)
  \/ \E detected, unread, kept \in SUBSET Site : mergeAndFilter(w, detected, unread, kept)
  \/ PostReview(w)
  \/ SaveReview(w)

Fix(w) ==
  \/ \E scope \in Scope : StartFix(w, scope)
  \/ acquireFixLock(w)
  \/ \E chosen, already \in SUBSET Site : PrepareFix(w, chosen, already)
  \/ CommitFix(w)
  \/ CommitUnheard(w)
  \/ CommitRefused(w)
  \/ SaveFix(w)

Next ==
  \/ \E w \in Slot : Review(w) \/ Fix(w) \/ leaseValid(w) \/ Abandon(w) \/ Crash(w) \/ Stall(w)
  \/ \E s \in Site : Ignore(s)
  \/ FixLockExpires
  \/ Push
  \/ mergeBranchInto

Spec == Init /\ [][Next]_vars

-----------------------------------------------------------------------------
(* Every variable has the shape the actions give it. *)
TypeOK ==
  /\ code \in Seq(Tree) /\ Len(code) \in Sha
  /\ row \in Row
  /\ suppressed \subseteq Site
  /\ covered \subseteq Site \X Text
  /\ lease \in Slot \cup {NoSlot}
  /\ fixLock \in Slot \cup {NoSlot, Orphan}
  /\ job \in [Slot -> Job]
  /\ started \in 0..MaxJobs
  /\ stalls \in 0..MaxStalls

(* A fix commit changes the files it fixes and leaves every other file as  *)
(* the tip it replaces has it, though it was computed from an earlier read *)
(* and others push meanwhile (commitFilesAtomic).                          *)
OnlyFixesCommitted ==
  [][\A w \in Slot :
       job[w].pc = "committing" /\ job'[w] # job[w] /\ code' # code =>
         /\ Len(code') = Tip + 1
         /\ \A s \in Site : code'[Tip + 1][s] # code[Tip][s] =>
              /\ s \in job[w].chosen /\ job[w].read.status[s] = "open"
              /\ code[Tip][s] # "gone" /\ code'[Tip + 1][s] = "fixed"]_vars

(* A finding of severity P1 or P2 is marked fixed only on the evidence of  *)
(* code: the commit it names holds the fix, or no longer the file.  No     *)
(* review closes it for not seeing it again (mergeFindings,                *)
(* reconcileFixedOnHead, processFixJob), jobs overlapping or not.          *)
HighFixedOnEvidence ==
  \A s \in High : row.status[s] = "fixed" =>
    /\ row.at[s] \in 1..Tip
    /\ code[row.at[s]][s] \in {"fixed", "gone"}

(* No flip-flop: a review of the very commit last reviewed does not close  *)
(* a finding for not seeing it this time, unless a job outlived its lease  *)
(* (the priorReviewSha guard of mergeFindings).                            *)
NoFlipFlop ==
  [][\A s \in Site :
       /\ row.status[s] = "open" /\ row'.status[s] = "fixed" /\ stalls = 0
       /\ code[row'.at[s]][s] \notin {"fixed", "gone"}
       => row'.at[s] # row.lastSha]_<<row>>

(* An ignored finding stays ignored, except that a job which had read the  *)
(* row before the ignore writes its copy back (getState, saveState).       *)
IgnoredKept ==
  [][\A s \in Site :
       row.status[s] = "ignored" /\ row'.status[s] # "ignored" =>
         \E w \in Slot : /\ job[w].pc \in {"posted", "saving"} /\ job'[w] # job[w]
                         /\ job[w].read.status[s] # "ignored"]_<<row>>

(* Nothing slips between incremental reviews: every file, as the commit    *)
(* last reviewed has it, was read by a review whose findings were saved,   *)
(* whatever failed, was fixed or was pushed in between (sinceSha).         *)
CoveredUpTo ==
  row.lastSha # 0 => \A s \in Site : <<s, code[row.lastSha][s]>> \in covered

(* What the reply to the ignore command promises, "Orvex won't report this *)
(* finding again": no review that starts later lists it, as new or as      *)
(* still open.                                                             *)
IgnoredNotReported ==
  \A w \in Slot : job[w].pc = "posted" =>
    (job[w].chosen \cup Open(job[w].out)) \cap job[w].quiet = {}

====
