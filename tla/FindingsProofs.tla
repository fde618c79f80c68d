---------------------------- MODULE FindingsProofs ----------------------------
(***************************************************************************)
(* Proofs about Findings, for any number of places, slots, jobs and        *)
(* commits.  Jobs work on copies, so the invariant is about the copies:    *)
(* what a job read or will write is backed by commits of the branch and by *)
(* files that were read (JobSound), and nothing a job relies on is ever    *)
(* taken back, since the branch and what was read only grow (Grown).       *)
(* Alone, needed for NoFlipFlop only, says that while no job has outlived  *)
(* its lease a copy differs from the row by ignores at most.               *)
(***************************************************************************)
EXTENDS Findings, TLAPS

USE FindingsAssumption

Reviewed == {"publishing", "posting", "posted"}
Reviewing == {"reading"} \cup Reviewed
Prepared == {"ready", "committing", "saving"}
Fixing == {"gates", "locked"} \cup Prepared

\* A commit shows that a finding is fixed.
Shown(c, s, n) == n \in 1..Len(c) /\ c[n][s] \in {"fixed", "gone"}
Evidence(c, r) == \A s \in High : r.status[s] = "fixed" => Shown(c, s, r.at[s])
Backed(c, cov, r) ==
  /\ r.lastSha \in 0..Len(c)
  /\ r.lastSha # 0 => \A s \in Site : <<s, c[r.lastSha][s]>> \in cov
RowSound(c, cov, r) == Evidence(c, r) /\ Backed(c, cov, r)

\* What a job will write, against what it read.
OutSound(c, j) ==
  /\ Evidence(c, j.out)
  /\ \A s \in Site : j.read.status[s] = "ignored" => j.out.status[s] = "ignored"
  /\ \A s \in Site : j.out.status[s] = "fixed" =>
       \/ j.read.status[s] = "fixed"
       \/ Shown(c, s, j.out.at[s])
       \/ j.out.at[s] # j.read.lastSha

JobSound(c, cov, j) ==
  /\ RowSound(c, cov, j.read)
  /\ j.sha \in 0..Len(c)
  /\ j.pc \in {"head"} \cup Reviewing \cup (Fixing \ {"gates"}) => j.sha \in 1..Len(c)
  /\ j.pc \in Reviewing => \A s \in Site \ j.scope :
       j.read.lastSha # 0 /\ c[j.read.lastSha][s] = c[j.sha][s]
  /\ j.pc \in Reviewed => j.out.lastSha = j.sha /\ OutSound(c, j)
  /\ j.pc \in Fixing => j.scope \subseteq Open(j.read)
  /\ j.pc \in {"ready", "committing"} =>
       \A s \in j.chosen : s \in j.scope /\ c[j.sha][s] \in {"flagged", "other"}
  /\ j.pc \in Prepared => j.out.lastSha = j.read.lastSha /\ OutSound(c, j)

\* Until a lease is outlived, only its holder works, on a copy of the row.
AloneWith(w, l, r, j) ==
  /\ j.pc # "idle" => l = w
  /\ j.pc \in Reviewing \cup Fixing =>
       /\ j.read.lastSha = r.lastSha
       /\ \A s \in Site : r.status[s] \in {j.read.status[s], "ignored"}
Alone == stalls = 0 => \A w \in Slot : AloneWith(w, lease, row, job[w])

Sound ==
  /\ RowSound(code, covered, row)
  /\ \A w \in Slot : JobSound(code, covered, job[w])

Inv == TypeOK /\ Sound /\ Alone

Branch == {c \in Seq(Tree) : Len(c) \in Sha}
Grown(c, d, cov, new) ==
  /\ Len(c) <= Len(d)
  /\ \A n \in 1..Len(c) : d[n] = c[n]
  /\ cov \subseteq new

-----------------------------------------------------------------------------
(* What grows: nothing that was shown, read or chosen is taken back. *)

LEMMA SameGrown == ASSUME NEW c, NEW cov PROVE Grown(c, c, cov, cov)
BY DEF Grown

LEMMA AppendGrown ==
  ASSUME NEW c \in Branch, NEW t \in Tree, Len(c) < MaxCommits, NEW cov
  PROVE  /\ Append(c, t) \in Branch
         /\ Len(Append(c, t)) = Len(c) + 1
         /\ Append(c, t)[Len(c) + 1] = t
         /\ \A n \in 1..Len(c) : Append(c, t)[n] = c[n]
         /\ Grown(c, Append(c, t), cov, cov)
BY DEF Branch, Grown, Sha

LEMMA ShownKept ==
  ASSUME NEW c \in Branch, NEW d \in Branch, NEW cov, NEW new, Grown(c, d, cov, new),
         NEW s, NEW n, Shown(c, s, n)
  PROVE  Shown(d, s, n)
BY DEF Shown, Grown, Branch, Sha

LEMMA RowKept ==
  ASSUME NEW c \in Branch, NEW d \in Branch, NEW cov, NEW new, Grown(c, d, cov, new),
         NEW r \in Row, RowSound(c, cov, r)
  PROVE  RowSound(d, new, r)
<1>1. Evidence(d, r)
  BY ShownKept DEF RowSound, Evidence
<1>2. Backed(d, new, r)
  BY DEF RowSound, Backed, Grown, Branch, Sha, Row
<1> QED BY <1>1, <1>2 DEF RowSound

LEMMA OutKept ==
  ASSUME NEW c \in Branch, NEW d \in Branch, NEW cov, NEW new, Grown(c, d, cov, new),
         NEW j \in Job, OutSound(c, j)
  PROVE  OutSound(d, j)
BY ShownKept DEF OutSound, Evidence

LEMMA JobKept ==
  ASSUME NEW c \in Branch, NEW d \in Branch, NEW cov, NEW new, Grown(c, d, cov, new),
         NEW j \in Job, JobSound(c, cov, j)
  PROVE  JobSound(d, new, j)
<1>1. RowSound(d, new, j.read)
  BY RowKept DEF JobSound, Job
<1>2. \A n \in 1..Len(c) : n \in 1..Len(d) /\ d[n] = c[n]
  BY DEF Grown, Branch, Sha
<1>3. j.sha \in 0..Len(d)
  BY DEF JobSound, Grown, Branch, Sha
<1>4. j.read.lastSha # 0 => j.read.lastSha \in 1..Len(c)
  BY DEF JobSound, RowSound, Backed, Branch, Sha
<1>5. OutSound(c, j) => OutSound(d, j)
  BY OutKept
<1>6. j.pc \in Reviewing => \A s \in Site \ j.scope :
        j.read.lastSha # 0 /\ d[j.read.lastSha][s] = d[j.sha][s]
  BY <1>2, <1>4 DEF JobSound
<1>7. j.pc \in {"ready", "committing"} =>
        \A s \in j.chosen : s \in j.scope /\ d[j.sha][s] \in {"flagged", "other"}
  BY <1>2 DEF JobSound, Prepared, Fixing
<1>8. j.pc \in {"head"} \cup Reviewing \cup (Fixing \ {"gates"}) => j.sha \in 1..Len(d)
  BY <1>2 DEF JobSound
<1> QED BY <1>1, <1>3, <1>5, <1>6, <1>7, <1>8 DEF JobSound

-----------------------------------------------------------------------------
(* The types of what a job holds. *)

LEMMA Rows == ASSUME NEW r, r \in Row
              PROVE /\ r.lastSha \in 0..MaxCommits /\ r.status \in [Site -> Status]
                    /\ r.at \in [Site -> 0..MaxCommits] /\ Open(r) \subseteq Site
BY DEF Row, Open

LEMMA IdleSound ==
  ASSUME NEW c \in Branch, NEW cov
  PROVE  /\ Idle \in Job /\ NoRow \in Row /\ JobSound(c, cov, Idle)
         /\ RowSound(c, cov, NoRow) /\ Open(NoRow) = {}
<1>1. NoRow \in Row
  BY DEF NoRow, Row, Status
<1>2. Idle \in Job
  BY <1>1 DEF Idle, Job
<1>3. RowSound(c, cov, NoRow)
  BY DEF NoRow, RowSound, Evidence, Backed, Branch, Sha
<1>4. JobSound(c, cov, Idle)
  BY <1>3 DEF JobSound, Idle, Branch, Sha, Reviewing, Reviewed, Fixing, Prepared
<1>5. Open(NoRow) = {}
  BY DEF Open, NoRow
<1> QED BY <1>1, <1>2, <1>3, <1>4, <1>5

LEMMA ReviewRow ==
  ASSUME NEW j \in Job, NEW fixed \in SUBSET Site, NEW posted \in SUBSET Site
  PROVE  serializeReviewState(j, fixed, posted) \in Row
BY DEF serializeReviewState, Row, Job, Status

LEMMA ResolvedRow ==
  ASSUME NEW r \in Row, NEW sites \in SUBSET Site, NEW n \in 0..MaxCommits
  PROVE  Resolved(r, sites, n) \in Row
BY DEF Resolved, Row, Status

-----------------------------------------------------------------------------
(* The row a review writes and the row a fix job writes are backed. *)

LEMMA ReviewOut ==
  ASSUME NEW c, NEW j, NEW k, NEW fixed, NEW kept,
         Evidence(c, j.read), k.read = j.read, k.out = serializeReviewState(j, fixed, kept),
         \A s \in fixed : j.read.status[s] = "open",
         \A s \in fixed : Shown(c, s, j.sha) \/ (s \notin High /\ j.read.lastSha # j.sha)
  PROVE  k.out.lastSha = j.sha /\ OutSound(c, k)
<1>1. /\ k.out.lastSha = j.sha
      /\ \A s \in Site : k.out.status[s] =
           IF s \in fixed THEN "fixed"
           ELSE IF s \in kept /\ j.read.status[s] \in {"none", "fixed"} THEN "open"
           ELSE j.read.status[s]
      /\ \A s \in Site : k.out.at[s] = IF s \in fixed THEN j.sha ELSE j.read.at[s]
  BY DEF serializeReviewState
<1>2. Evidence(c, k.out)
  BY <1>1 DEF Evidence
<1>3. \A s \in Site : j.read.status[s] = "ignored" => k.out.status[s] = "ignored"
  BY <1>1
<1>4. \A s \in Site : k.out.status[s] = "fixed" =>
        j.read.status[s] = "fixed" \/ Shown(c, s, k.out.at[s]) \/ k.out.at[s] # j.read.lastSha
  BY <1>1
<1> QED BY <1>1, <1>2, <1>3, <1>4 DEF OutSound

\* On top of what it would have written before.
LEMMA FixOut ==
  ASSUME NEW c, NEW i, NEW k, NEW sites, NEW n,
         i.out \in Row, OutSound(c, i), k.read = i.read, k.out = Resolved(i.out, sites, n),
         \A s \in sites : i.read.status[s] = "open" /\ Shown(c, s, n)
  PROVE  k.out.lastSha = i.out.lastSha /\ OutSound(c, k)
<1>1. /\ k.out.lastSha = i.out.lastSha
      /\ \A s \in Site : k.out.status[s] = IF s \in sites THEN "fixed" ELSE i.out.status[s]
      /\ \A s \in Site : k.out.at[s] = IF s \in sites THEN n ELSE i.out.at[s]
  BY Rows DEF Resolved, Row
<1>2. Evidence(c, k.out)
  BY <1>1 DEF OutSound, Evidence
<1>3. \A s \in Site : k.read.status[s] = "ignored" => k.out.status[s] = "ignored"
  BY <1>1 DEF OutSound
<1>4. \A s \in Site : k.out.status[s] = "fixed" =>
        k.read.status[s] = "fixed" \/ Shown(c, s, k.out.at[s]) \/ k.out.at[s] # k.read.lastSha
  BY <1>1 DEF OutSound
<1> QED BY <1>1, <1>2, <1>3, <1>4 DEF OutSound

-----------------------------------------------------------------------------
(* The steps of a job, one slot at a time. *)

\* One slot changes, the branch and what was read may grow.
LEMMA JobsKept ==
  ASSUME Inv, NEW d \in Branch, NEW new, Grown(code, d, covered, new),
         NEW w \in Slot, NEW k \in Job, JobSound(d, new, k)
  PROVE  /\ [job EXCEPT ![w] = k] \in [Slot -> Job]
         /\ \A v \in Slot : JobSound(d, new, [job EXCEPT ![w] = k][v])
<1>1. job \in [Slot -> Job] /\ code \in Branch
  BY DEF Inv, TypeOK, Branch
<1>2. \A v \in Slot : JobSound(code, covered, job[v])
  BY DEF Inv, Sound
<1>3. \A v \in Slot : JobSound(d, new, job[v])
  BY <1>1, <1>2, JobKept
<1> QED BY <1>1, <1>3

LEMMA SoundParts ==
  ASSUME Inv
  PROVE  /\ code \in Branch /\ row \in Row /\ job \in [Slot -> Job] /\ Tip \in 1..MaxCommits
         /\ RowSound(code, covered, row)
         /\ \A w \in Slot : JobSound(code, covered, job[w]) /\ job[w] \in Job
         /\ \A n \in 1..Tip : code[n] \in Tree
BY DEF Inv, TypeOK, Branch, Sound, Tip, Sha

\* A job moves on: the row, the branch and what was read stay.
LEMMA MovesSound ==
  ASSUME Inv, NEW w \in Slot, NEW k \in Job, JobSound(code, covered, k),
         job' = [job EXCEPT ![w] = k], UNCHANGED <<code, row, suppressed, covered>>,
         lease' \in Slot \cup {NoSlot}, fixLock' \in Slot \cup {NoSlot, Orphan},
         started' \in 0..MaxJobs, stalls' \in 0..MaxStalls
  PROVE  TypeOK' /\ Sound'
<1>1. job' \in [Slot -> Job] /\ \A v \in Slot : JobSound(code, covered, job'[v])
  BY SoundParts, SameGrown, JobsKept
<1> QED BY <1>1 DEF Inv, TypeOK, Sound

\* The last step of a job: the row may be written, the branch may grow.
LEMMA EndsSound ==
  ASSUME Inv, NEW w \in Slot, End(w), code' \in Branch, covered' \subseteq Site \X Text,
         Grown(code, code', covered, covered'), row' \in Row, RowSound(code', covered', row'),
         fixLock' \in Slot \cup {NoSlot, Orphan}, UNCHANGED <<suppressed, started, stalls>>
  PROVE  TypeOK' /\ Sound'
<1>1. Idle \in Job /\ JobSound(code', covered', Idle)
  BY IdleSound
<1>2. job' = [job EXCEPT ![w] = Idle] /\ lease' \in Slot \cup {NoSlot}
  BY DEF End, Inv, TypeOK
<1>3. job' \in [Slot -> Job] /\ \A v \in Slot : JobSound(code', covered', job'[v])
  BY <1>1, <1>2, JobsKept
<1> QED BY <1>2, <1>3 DEF Inv, TypeOK, Sound, Branch

LEMMA StaysSound == ASSUME Inv PROVE RowSound(code, covered, row) /\ Grown(code, code, covered, covered)
BY SoundParts, SameGrown

LEMMA InitInv == Init => Inv
<1> SUFFICES ASSUME Init PROVE Inv
  OBVIOUS
<1>1. code \in Branch
  BY DEF Init, Branch, Tree, Text, Sha
<1>2. TypeOK
  <2>1. job \in [Slot -> Job] /\ row \in Row
    BY <1>1, IdleSound DEF Init
  <2>2. code \in Seq(Tree) /\ Len(code) \in Sha
    BY <1>1 DEF Branch
  <2>3. 0 \in 0..MaxJobs /\ 0 \in 0..MaxStalls
    OBVIOUS
  <2> QED BY <2>1, <2>2, <2>3 DEF Init, TypeOK
<1>3. Sound
  BY <1>1, IdleSound DEF Init, Sound
<1>4. Alone
  BY DEF Init, Alone, AloneWith, Idle, Reviewing, Reviewed, Fixing, Prepared
<1> QED BY <1>2, <1>3, <1>4 DEF Inv

-----------------------------------------------------------------------------
(* Types and soundness, step by step: reviews. *)

LEMMA StartReviewSound == ASSUME Inv, NEW w \in Slot, StartReview(w) PROVE TypeOK' /\ Sound'
<1> DEFINE k == [Idle EXCEPT !.pc = "head", !.sha = Tip]
<1>1. k \in Job /\ k.pc = "head" /\ k.sha = Tip /\ k.read = NoRow
  <2>1. NoRow \in Row /\ Tip \in 0..MaxCommits
    BY SoundParts, IdleSound
  <2> QED BY <2>1 DEF Idle, Job
<1>2. JobSound(code, covered, k)
  BY <1>1, SoundParts, IdleSound DEF JobSound, Reviewing, Reviewed, Fixing, Prepared, Tip
<1>3. /\ job' = [job EXCEPT ![w] = k] /\ lease' = w /\ started' = started + 1 /\ started < MaxJobs
      /\ UNCHANGED <<code, row, suppressed, covered, fixLock, stalls>>
  BY DEF StartReview, Begin
<1> HIDE DEF k
<1>4. /\ lease' \in Slot \cup {NoSlot} /\ fixLock' \in Slot \cup {NoSlot, Orphan}
      /\ started' \in 0..MaxJobs /\ stalls' \in 0..MaxStalls
  BY <1>3 DEF Inv, TypeOK
<1> QED BY <1>1, <1>2, <1>3, <1>4, MovesSound

LEMMA ReadStateSound ==
  ASSUME Inv, NEW w \in Slot, NEW synchronize \in BOOLEAN, ReadState(w, synchronize)
  PROVE  TypeOK' /\ Sound'
<1> DEFINE since == row.lastSha
           incremental == synchronize /\ since # 0 /\ since # job[w].sha
           files == IF incremental THEN {s \in Site : code[since][s] # code[job[w].sha][s]} ELSE Site
           k == [job[w] EXCEPT !.pc = "reading", !.read = row, !.scope = files, !.quiet = suppressed]
<1>1. job[w].pc = "head" /\ job' = [job EXCEPT ![w] = k]
      /\ UNCHANGED <<code, row, suppressed, covered, lease, fixLock, started, stalls>>
  BY DEF ReadState, Goes
<1>2. files \in SUBSET Site /\ \A s \in Site \ files :
        since # 0 /\ code[since][s] = code[job[w].sha][s]
  OBVIOUS
<1> HIDE DEF files
<1>3. k \in Job /\ k.pc = "reading" /\ k.read = row /\ k.sha = job[w].sha /\ k.scope = files
  <2>1. job[w] \in Job /\ row \in Row /\ suppressed \in SUBSET Site
    BY SoundParts DEF Inv, TypeOK
  <2> QED BY <1>2, <2>1 DEF Job
<1> HIDE DEF k
<1>4. JobSound(code, covered, k)
  BY <1>1, <1>2, <1>3, SoundParts DEF JobSound, Reviewing, Reviewed, Fixing, Prepared
<1> QED BY <1>1, <1>3, <1>4, MovesSound DEF Inv, TypeOK

LEMMA MergeSound ==
  ASSUME Inv, NEW w \in Slot, NEW detected \in SUBSET Site, NEW unread \in SUBSET Site,
         NEW kept \in SUBSET Site, mergeAndFilter(w, detected, unread, kept)
  PROVE  TypeOK' /\ Sound'
<1> DEFINE j == job[w]
           proved == reconcileFixedOnHead(j.read, code[j.sha], unread)
           fixed == proved \cup NewlyFixed(j, detected, unread, proved)
           k == [j EXCEPT !.pc = "publishing", !.chosen = kept, !.out = serializeReviewState(j, fixed, kept)]
<1>1. j.pc = "reading" /\ job' = [job EXCEPT ![w] = k]
      /\ UNCHANGED <<code, row, suppressed, covered, lease, fixLock, started, stalls>>
  BY DEF mergeAndFilter, Goes
<1>2. j \in Job /\ JobSound(code, covered, j)
  BY SoundParts
<1>3. fixed \in SUBSET Site
  BY DEF reconcileFixedOnHead, NewlyFixed, Open
<1>4. serializeReviewState(j, fixed, kept) \in Row
  BY <1>2, <1>3, ReviewRow
<1>5. /\ k \in Job /\ k.pc = "publishing" /\ k.read = j.read /\ k.sha = j.sha /\ k.scope = j.scope
      /\ k.out = serializeReviewState(j, fixed, kept)
  BY <1>2, <1>4 DEF Job
<1> HIDE DEF k
<1>6. RowSound(code, covered, j.read) /\ j.sha \in 1..Len(code)
  BY <1>1, <1>2 DEF JobSound, Reviewing
<1>7. k.out.lastSha = j.sha /\ OutSound(code, k)
  <2>1. \A s \in fixed : j.read.status[s] = "open"
    BY DEF reconcileFixedOnHead, NewlyFixed, Open
  <2>2. \A s \in proved : Shown(code, s, j.sha)
    BY <1>6 DEF reconcileFixedOnHead, ClosedOnHead, auditClean, fixLanded, Shown
  <2>3. \A s \in fixed : Shown(code, s, j.sha) \/ (s \notin High /\ j.read.lastSha # j.sha)
    BY <2>2 DEF NewlyFixed
  <2> HIDE DEF fixed, j
  <2> QED BY <1>5, <1>6, <2>1, <2>3, ReviewOut DEF RowSound
<1>8. JobSound(code, covered, k)
  BY <1>1, <1>2, <1>5, <1>7 DEF JobSound, Reviewing, Reviewed, Fixing, Prepared
<1> QED BY <1>1, <1>5, <1>8, MovesSound DEF Inv, TypeOK

\* The steps that only move a job on.
LEMMA GoesSound ==
  ASSUME Inv, NEW w \in Slot, leaseValid(w) \/ PostReview(w) \/ CommitRefused(w)
  PROVE  TypeOK' /\ Sound'
<1>1. PICK pc \in {"committing", "posting", "posted", "saving"} :
        /\ job' = [job EXCEPT ![w] = [job[w] EXCEPT !.pc = pc]]
        /\ \/ job[w].pc \in Reviewed /\ pc \in Reviewed
           \/ job[w].pc \in Prepared /\ pc = "saving"
           \/ job[w].pc = "ready" /\ pc = "committing"
  BY DEF leaseValid, PostReview, CommitRefused, Goes, Reviewed, Prepared
<1> DEFINE k == [job[w] EXCEPT !.pc = pc]
<1>2. /\ k \in Job /\ k.pc = pc /\ k.read = job[w].read /\ k.sha = job[w].sha /\ k.scope = job[w].scope
      /\ k.chosen = job[w].chosen /\ k.out = job[w].out
  BY SoundParts DEF Job
<1>3. job' = [job EXCEPT ![w] = k] /\ UNCHANGED <<code, row, suppressed, covered, lease, fixLock, started, stalls>>
  BY <1>1 DEF leaseValid, PostReview, CommitRefused
<1> HIDE DEF k
<1>4. OutSound(code, job[w]) => OutSound(code, k)
  BY <1>2 DEF OutSound
<1>5. JobSound(code, covered, k)
  BY <1>1, <1>2, <1>4, SoundParts DEF JobSound, Reviewing, Reviewed, Fixing, Prepared
<1> QED BY <1>2, <1>3, <1>5, MovesSound DEF Inv, TypeOK

LEMMA SaveReviewSound == ASSUME Inv, NEW w \in Slot, SaveReview(w) PROVE TypeOK' /\ Sound'
<1> DEFINE j == job[w]
           new == covered \cup {<<s, code[j.sha][s]>> : s \in j.scope}
<1>1. /\ j.pc = "posted" /\ row' = j.out /\ covered' = new /\ End(w)
      /\ UNCHANGED <<code, suppressed, fixLock, started, stalls>>
  BY DEF SaveReview
<1>2. j \in Job /\ JobSound(code, covered, j)
  BY SoundParts
<1>3. j.sha \in 1..Len(code) /\ j.out \in Row /\ j.out.lastSha = j.sha /\ Evidence(code, j.out)
  BY <1>1, <1>2 DEF JobSound, Reviewing, Reviewed, OutSound, Job
<1>4. \A s \in Site : <<s, code[j.sha][s]>> \in new
  <2> SUFFICES ASSUME NEW s \in Site PROVE <<s, code[j.sha][s]>> \in new
    OBVIOUS
  <2>1. CASE s \in j.scope
    BY <2>1
  <2>2. CASE s \notin j.scope
    BY <1>1, <1>2, <2>2 DEF JobSound, Reviewing, Reviewed, RowSound, Backed
  <2> QED BY <2>1, <2>2
<1>5. RowSound(code, new, j.out)
  BY <1>3, <1>4, SoundParts DEF RowSound, Backed, Branch, Sha
<1>6. Grown(code, code, covered, new)
  BY DEF Grown
<1>7. new \subseteq Site \X Text
  <2>1. \A s \in j.scope : s \in Site /\ code[j.sha][s] \in Text
    BY <1>2, <1>3, SoundParts DEF Job, Tree, Tip
  <2> QED BY <2>1 DEF Inv, TypeOK
<1> HIDE DEF new
<1> QED BY <1>1, <1>3, <1>5, <1>6, <1>7, SoundParts, EndsSound DEF Inv, TypeOK

-----------------------------------------------------------------------------
(* Types and soundness, step by step: fix jobs. *)

LEMMA StartFixSound ==
  ASSUME Inv, NEW w \in Slot, NEW scope \in Scope, StartFix(w, scope)
  PROVE  TypeOK' /\ Sound'
<1>1. PICK targets \in selectTargets(Open(row), scope) :
        /\ Begin(w, [Idle EXCEPT !.pc = "gates", !.read = row, !.scope = targets])
        /\ UNCHANGED <<code, row, suppressed, covered, fixLock, stalls>>
  BY DEF StartFix
<1>2. targets \subseteq Open(row) /\ Open(row) \subseteq Site
  BY DEF selectTargets, Scope, Open
<1> DEFINE k == [Idle EXCEPT !.pc = "gates", !.read = row, !.scope = targets]
<1>3. /\ k \in Job /\ k.pc = "gates" /\ k.read = row /\ k.sha = 0 /\ k.scope = targets
  <2>1. Idle \in Job /\ row \in Row /\ targets \in SUBSET Site
    BY <1>2, SoundParts, IdleSound
  <2>2. Idle.sha = 0
    BY DEF Idle
  <2> QED BY <2>1, <2>2 DEF Job
<1>4. JobSound(code, covered, k)
  BY <1>2, <1>3, SoundParts DEF JobSound, Reviewing, Reviewed, Fixing, Prepared, Branch, Sha
<1>5. /\ job' = [job EXCEPT ![w] = k] /\ lease' = w /\ started' = started + 1 /\ started < MaxJobs
      /\ UNCHANGED <<code, row, suppressed, covered, fixLock, stalls>>
  BY <1>1 DEF Begin
<1> HIDE DEF k
<1>6. /\ lease' \in Slot \cup {NoSlot} /\ fixLock' \in Slot \cup {NoSlot, Orphan}
      /\ started' \in 0..MaxJobs /\ stalls' \in 0..MaxStalls
  BY <1>5 DEF Inv, TypeOK
<1> QED BY <1>3, <1>4, <1>5, <1>6, MovesSound

LEMMA AcquireSound == ASSUME Inv, NEW w \in Slot, acquireFixLock(w) PROVE TypeOK' /\ Sound'
<1> DEFINE k == [job[w] EXCEPT !.pc = "locked", !.sha = Tip]
<1>1. /\ job[w].pc = "gates" /\ job' = [job EXCEPT ![w] = k] /\ fixLock' = w
      /\ UNCHANGED <<code, row, suppressed, covered, lease, started, stalls>>
  BY DEF acquireFixLock, Goes
<1>2. /\ k \in Job /\ k.pc = "locked" /\ k.read = job[w].read /\ k.sha = Tip /\ k.scope = job[w].scope
  <2>1. job[w] \in Job /\ Tip \in 0..MaxCommits
    BY SoundParts
  <2> QED BY <2>1 DEF Job
<1>3. JobSound(code, covered, k)
  BY <1>1, <1>2, SoundParts DEF JobSound, Reviewing, Reviewed, Fixing, Prepared, Tip
<1> HIDE DEF k
<1> QED BY <1>1, <1>2, <1>3, MovesSound DEF Inv, TypeOK

LEMMA PrepareSound ==
  ASSUME Inv, NEW w \in Slot, NEW chosen \in SUBSET Site, NEW already \in SUBSET Site,
         PrepareFix(w, chosen, already)
  PROVE  TypeOK' /\ Sound'
<1> DEFINE j == job[w]
           k == [j EXCEPT !.pc = IF chosen = {} THEN "saving" ELSE "ready",
                          !.chosen = chosen, !.out = Resolved(j.read, already, j.sha)]
<1>1. /\ j.pc = "locked" /\ job' = [job EXCEPT ![w] = k]
      /\ chosen \subseteq {s \in j.scope : code[j.sha][s] \in {"flagged", "other"}}
      /\ already \subseteq {s \in j.scope : code[j.sha][s] = "fixed"}
      /\ UNCHANGED <<code, row, suppressed, covered, lease, fixLock, started, stalls>>
  BY DEF PrepareFix, Goes
<1>2. j \in Job /\ JobSound(code, covered, j) /\ code \in Branch
  BY SoundParts
<1>3. RowSound(code, covered, j.read) /\ j.sha \in 1..Len(code) /\ j.scope \subseteq Open(j.read)
  BY <1>1, <1>2 DEF JobSound, Fixing
<1>4. Resolved(j.read, already, j.sha) \in Row
  BY <1>2, ResolvedRow DEF Job
<1>5. /\ k \in Job /\ k.pc \in {"ready", "saving"} /\ k.read = j.read /\ k.sha = j.sha
      /\ k.scope = j.scope /\ k.chosen = chosen /\ k.out = Resolved(j.read, already, j.sha)
  BY <1>2, <1>4 DEF Job
<1> HIDE DEF k
<1>6. k.out.lastSha = k.read.lastSha /\ OutSound(code, k)
  <2> DEFINE i == [j EXCEPT !.out = j.read]
  <2>1. i.out = j.read /\ i.read = j.read /\ j.read \in Row
    BY <1>2 DEF Job
  <2>2. \A s \in already : j.read.status[s] = "open" /\ Shown(code, s, j.sha)
    BY <1>1, <1>3 DEF Open, Shown
  <2> HIDE DEF i, j
  <2>3. OutSound(code, i)
    BY <1>3, <2>1 DEF OutSound, RowSound
  <2> QED BY <1>5, <2>1, <2>2, <2>3, FixOut
<1>7. JobSound(code, covered, k)
  BY <1>1, <1>2, <1>3, <1>5, <1>6 DEF JobSound, Reviewing, Reviewed, Fixing, Prepared
<1> QED BY <1>1, <1>5, <1>7, MovesSound DEF Inv, TypeOK

\* The commit, whether its answer is heard or not.
LEMMA CommitGrows ==
  ASSUME Inv, NEW w \in Slot, commitFilesAtomic(w)
  PROVE  /\ code' \in Branch /\ Len(code') = Tip + 1 /\ Grown(code, code', covered, covered)
         /\ code'[Tip + 1] = FixedTree(job[w])
         /\ job[w].sha = Tip /\ job[w].pc = "committing"
         /\ job[w].chosen \subseteq Open(job[w].read)
         /\ \A s \in job[w].chosen : s \in Site /\ code[Tip][s] \in {"flagged", "other"}
<1>1. /\ job[w].pc = "committing" /\ Len(code) = job[w].sha /\ Len(code) < MaxCommits
      /\ code' = Append(code, FixedTree(job[w]))
  BY DEF commitFilesAtomic, Tip
<1>2. code[Tip] \in Tree /\ job[w] \in Job /\ JobSound(code, covered, job[w])
  BY SoundParts
<1>3. FixedTree(job[w]) \in Tree
  BY <1>1, <1>2 DEF FixedTree, Tree, Text, Tip
<1>4. /\ job[w].chosen \subseteq Open(job[w].read)
      /\ \A s \in job[w].chosen : s \in Site /\ code[Tip][s] \in {"flagged", "other"}
  BY <1>1, <1>2 DEF JobSound, Fixing, Prepared, Tip, Job
<1> QED BY <1>1, <1>3, <1>4, SoundParts, AppendGrown DEF Tip

LEMMA CommitSound == ASSUME Inv, NEW w \in Slot, CommitFix(w) PROVE TypeOK' /\ Sound'
<1> DEFINE j == job[w]
           k == [j EXCEPT !.pc = "saving", !.out = Resolved(j.out, j.chosen, Tip + 1)]
<1>1. /\ commitFilesAtomic(w) /\ job' = [job EXCEPT ![w] = k]
      /\ UNCHANGED <<row, suppressed, covered, lease, fixLock, started, stalls>>
  <2>1. [j EXCEPT !.pc = "saving", !.out = Resolved(@, j.chosen, Tip + 1)] = k
    OBVIOUS
  <2> QED BY <2>1 DEF CommitFix, Goes
<1>2. j \in Job /\ JobSound(code, covered, j) /\ code \in Branch /\ row \in Row
  BY SoundParts
<1>3. /\ code' \in Branch /\ Len(code') = Tip + 1 /\ Grown(code, code', covered, covered)
      /\ code'[Tip + 1] = FixedTree(j) /\ j.pc = "committing" /\ j.chosen \in SUBSET Open(j.read)
      /\ \A s \in j.chosen : s \in Site /\ code'[Tip + 1][s] = "fixed"
  BY <1>1, CommitGrows DEF FixedTree
<1>4. Tip + 1 \in 0..MaxCommits /\ Tip + 1 \in 1..Len(code')
  BY <1>3, SoundParts DEF Branch, Sha
<1>5. Resolved(j.out, j.chosen, Tip + 1) \in Row
  BY <1>2, <1>4, ResolvedRow DEF Job
<1>6. /\ k \in Job /\ k.pc = "saving" /\ k.read = j.read /\ k.sha = j.sha
      /\ k.scope = j.scope /\ k.out = Resolved(j.out, j.chosen, Tip + 1)
  BY <1>2, <1>5 DEF Job
<1> HIDE DEF k
<1>7. /\ RowSound(code, covered, j.read) /\ OutSound(code, j) /\ j.out.lastSha = j.read.lastSha
      /\ j.scope \subseteq Open(j.read) /\ j.sha \in 1..Len(code)
  BY <1>2, <1>3 DEF JobSound, Fixing, Prepared
<1>8. k.out.lastSha = k.read.lastSha /\ OutSound(code', k)
  <2>1. OutSound(code', j) /\ j.out \in Row
    BY <1>2, <1>3, <1>7, OutKept DEF Job
  <2>2. \A s \in j.chosen : j.read.status[s] = "open" /\ Shown(code', s, Tip + 1)
    BY <1>3, <1>4 DEF Open, Shown
  <2> DEFINE n == Tip + 1
  <2>3. k.out = Resolved(j.out, j.chosen, n) /\ \A s \in j.chosen : j.read.status[s] = "open" /\ Shown(code', s, n)
    BY <1>6, <2>2
  <2> HIDE DEF j, n
  <2>4. k.out.lastSha = k.read.lastSha
    BY <1>6, <1>7, <2>3 DEF Resolved
  <2>5. OutSound(code', k)
    BY <1>6, <2>1, <2>3, FixOut
  <2> QED BY <2>4, <2>5
<1>9. RowSound(code', covered, k.read) /\ RowSound(code', covered, row)
  <2>1. k.read \in Row /\ RowSound(code, covered, k.read) /\ RowSound(code, covered, row)
    BY <1>6, <1>7, SoundParts DEF Job
  <2> QED BY <1>2, <1>3, <2>1, RowKept
<1>10. JobSound(code', covered, k)
  <2>1. k.sha \in 1..Len(code')
    BY <1>3, <1>6, <1>7 DEF Grown, Branch, Sha
  <2> QED BY <1>6, <1>7, <1>8, <1>9, <2>1 DEF JobSound, Reviewing, Reviewed, Fixing, Prepared
<1>11. job' \in [Slot -> Job] /\ \A v \in Slot : JobSound(code', covered, job'[v])
  BY <1>1, <1>3, <1>6, <1>10, JobsKept
<1> QED BY <1>1, <1>3, <1>9, <1>11 DEF Inv, TypeOK, Sound, Branch

LEMMA EndingSound ==
  ASSUME Inv, NEW w \in Slot, CommitUnheard(w) \/ SaveFix(w) \/ Abandon(w) \/ Crash(w)
  PROVE  TypeOK' /\ Sound'
<1>1. End(w) /\ fixLock' \in Slot \cup {NoSlot, Orphan} /\ UNCHANGED <<suppressed, covered, started, stalls>>
  BY DEF CommitUnheard, SaveFix, Abandon, Crash, ReleaseFixLock, Inv, TypeOK
<1>2. covered \subseteq Site \X Text
  BY DEF Inv, TypeOK
<1>3. CASE CommitUnheard(w)
  <2>1. code' \in Branch /\ Grown(code, code', covered, covered) /\ row' = row
    BY <1>3, CommitGrows DEF CommitUnheard
  <2>2. RowSound(code', covered, row)
    BY <2>1, SoundParts, RowKept
  <2> QED BY <1>1, <1>2, <2>1, <2>2, SoundParts, EndsSound
<1>4. CASE SaveFix(w)
  <2>1. job[w].pc = "saving" /\ row' = job[w].out /\ code' = code
    BY <1>4 DEF SaveFix
  <2>2. job[w] \in Job /\ JobSound(code, covered, job[w])
    BY SoundParts
  <2>3. job[w].out \in Row /\ RowSound(code, covered, job[w].out)
    BY <2>1, <2>2 DEF Job, JobSound, Prepared, OutSound, RowSound, Backed
  <2> QED BY <1>1, <1>2, <2>1, <2>3, SoundParts, SameGrown, EndsSound
<1>5. CASE Abandon(w) \/ Crash(w)
  <2>1. row' = row /\ code' = code
    BY <1>5 DEF Abandon, Crash
  <2> QED BY <1>1, <1>2, <2>1, SoundParts, SameGrown, EndsSound
<1> QED BY <1>3, <1>4, <1>5

-----------------------------------------------------------------------------
(* Types and soundness, step by step: what comes from outside. *)

LEMMA BranchGrowsSound ==
  ASSUME Inv, Push \/ mergeBranchInto
  PROVE  TypeOK' /\ Sound'
<1>1. PICK tree \in Tree : code' = Append(code, tree)
  <2>1. CASE Push
    BY <2>1 DEF Push
  <2>2. CASE mergeBranchInto
    <3>1. PICK touched \in SUBSET {s \in Site : code[Tip][s] # "gone"} :
            code' = Append(code, [s \in Site |-> IF s \in touched THEN "other" ELSE code[Tip][s]])
      BY <2>2 DEF mergeBranchInto
    <3>2. [s \in Site |-> IF s \in touched THEN "other" ELSE code[Tip][s]] \in Tree
      BY SoundParts DEF Tree, Text
    <3> QED BY <3>1, <3>2
  <2> QED BY <2>1, <2>2
<1>2. Tip < MaxCommits /\ UNCHANGED <<row, suppressed, covered, lease, fixLock, job, started, stalls>>
  BY DEF Push, mergeBranchInto
<1>3. code' \in Branch /\ Grown(code, code', covered, covered)
  BY <1>1, <1>2, SoundParts, AppendGrown DEF Tip
<1>4. RowSound(code', covered, row) /\ \A w \in Slot : JobSound(code', covered, job[w])
  BY <1>3, SoundParts, RowKept, JobKept
<1> QED BY <1>2, <1>3, <1>4 DEF Inv, TypeOK, Sound, Branch

LEMMA IgnoreSound == ASSUME Inv, NEW s \in Site, Ignore(s) PROVE TypeOK' /\ Sound'
<1>1. /\ row' = [row EXCEPT !.status[s] = "ignored"] /\ suppressed' = suppressed \cup {s}
      /\ UNCHANGED <<code, covered, lease, fixLock, job, started, stalls>>
  BY DEF Ignore
<1>2. row \in Row /\ RowSound(code, covered, row)
  BY SoundParts
<1>3. /\ row' \in Row /\ row'.lastSha = row.lastSha /\ row'.at = row.at
      /\ \A t \in Site : row'.status[t] = IF t = s THEN "ignored" ELSE row.status[t]
  BY <1>1, <1>2 DEF Row, Status
<1>4. RowSound(code, covered, row')
  BY <1>2, <1>3 DEF RowSound, Evidence, Backed
<1> QED BY <1>1, <1>3, <1>4 DEF Inv, TypeOK, Sound

LEMMA LocksSound ==
  ASSUME Inv, FixLockExpires \/ (\E w \in Slot : Stall(w))
  PROVE  TypeOK' /\ Sound'
<1>1. /\ UNCHANGED <<code, row, suppressed, covered, job, started>>
      /\ lease' \in {lease, NoSlot} /\ fixLock' \in {fixLock, NoSlot}
      /\ stalls' = stalls \/ (stalls < MaxStalls /\ stalls' = stalls + 1)
  BY DEF FixLockExpires, Stall
<1> QED BY <1>1 DEF Inv, TypeOK, Sound

-----------------------------------------------------------------------------
(* Until a lease is outlived a job works alone. *)

Working == Reviewing \cup Fixing

LEMMA AloneGoes ==
  ASSUME Inv, NEW w \in Slot, NEW k, job[w].pc # "idle", job' = [job EXCEPT ![w] = k],
         UNCHANGED <<row, lease, stalls>>,
         k.pc \in Working => k.read = row \/ (k.read = job[w].read /\ job[w].pc \in Working)
  PROVE  Alone'
BY SoundParts DEF Inv, Alone, AloneWith, Working

LEMMA AloneBegins ==
  ASSUME Inv, NEW w \in Slot, NEW k, Begin(w, k), UNCHANGED <<row, stalls>>,
         k.pc \in Working => k.read = row
  PROVE  Alone'
<1>1. lease = NoSlot /\ lease' = w /\ job' = [job EXCEPT ![w] = k]
  BY DEF Begin
<1>2. stalls = 0 => \A v \in Slot : job[v].pc = "idle"
  BY <1>1 DEF Inv, Alone, AloneWith
<1>3. "idle" \notin Working
  BY DEF Working, Reviewing, Reviewed, Fixing, Prepared
<1> QED BY <1>1, <1>2, <1>3, SoundParts DEF Alone, AloneWith, Working

LEMMA AloneEnds ==
  ASSUME Inv, NEW w \in Slot, End(w), job[w].pc # "idle", UNCHANGED stalls
  PROVE  Alone'
<1>1. job' = [job EXCEPT ![w] = Idle] /\ Idle.pc = "idle"
  BY DEF End, Idle
<1>2. stalls = 0 => \A v \in Slot : v # w => job[v].pc = "idle"
  BY DEF Inv, Alone, AloneWith
<1>3. stalls' = 0 => \A v \in Slot : job'[v].pc = "idle"
  BY <1>1, <1>2, SoundParts
<1> QED BY <1>3 DEF Alone, AloneWith, Reviewing, Reviewed, Fixing, Prepared

LEMMA NextAlone == ASSUME Inv, [Next]_vars PROVE Alone'
<1> USE DEF Working, Reviewing, Reviewed, Fixing, Prepared
<1>1. ASSUME NEW w \in Slot, StartReview(w) PROVE Alone'
  <2>1. [Idle EXCEPT !.pc = "head", !.sha = Tip].pc = "head"
    BY DEF Idle
  <2> QED BY <1>1, <2>1, AloneBegins DEF StartReview
<1>2. ASSUME NEW w \in Slot, NEW scope \in Scope, StartFix(w, scope) PROVE Alone'
  <2>1. PICK targets : /\ Begin(w, [Idle EXCEPT !.pc = "gates", !.read = row, !.scope = targets])
                       /\ UNCHANGED <<row, stalls>>
    BY <1>2 DEF StartFix
  <2>2. [Idle EXCEPT !.pc = "gates", !.read = row, !.scope = targets].read = row
    BY DEF Idle
  <2> QED BY <2>1, <2>2, AloneBegins
<1>3. ASSUME NEW w \in Slot, NEW synchronize \in BOOLEAN, ReadState(w, synchronize) PROVE Alone'
  <2>1. PICK files : /\ job[w].pc = "head"
                     /\ job' = [job EXCEPT ![w] = [job[w] EXCEPT !.pc = "reading", !.read = row,
                                                      !.scope = files, !.quiet = suppressed]]
                     /\ UNCHANGED <<row, lease, stalls>>
    BY <1>3 DEF ReadState, Goes
  <2> DEFINE k == [job[w] EXCEPT !.pc = "reading", !.read = row, !.scope = files, !.quiet = suppressed]
  <2>2. k.read = row
    BY SoundParts DEF Job
  <2> HIDE DEF k
  <2> QED BY <2>1, <2>2, AloneGoes DEF k
<1>4. ASSUME NEW w \in Slot,
             \/ \E detected, unread, kept \in SUBSET Site : mergeAndFilter(w, detected, unread, kept)
             \/ leaseValid(w) \/ PostReview(w) \/ acquireFixLock(w)
             \/ \E chosen, already \in SUBSET Site : PrepareFix(w, chosen, already)
             \/ CommitFix(w) \/ CommitRefused(w)
      PROVE  Alone'
  <2>1. PICK k : /\ job' = [job EXCEPT ![w] = k] /\ k.read = job[w].read
                 /\ job[w].pc \in Working /\ UNCHANGED <<row, lease, stalls>>
    BY <1>4, SoundParts DEF mergeAndFilter, leaseValid, PostReview, acquireFixLock, PrepareFix,
       CommitFix, commitFilesAtomic, CommitRefused, Goes, Job
  <2> QED BY <2>1, AloneGoes
<1>5. ASSUME NEW w \in Slot,
             SaveReview(w) \/ SaveFix(w) \/ CommitUnheard(w) \/ Abandon(w) \/ Crash(w)
      PROVE  Alone'
  <2>1. End(w) /\ job[w].pc # "idle" /\ UNCHANGED stalls
    BY <1>5 DEF SaveReview, SaveFix, CommitUnheard, commitFilesAtomic, Abandon, Crash
  <2> QED BY <2>1, AloneEnds
<1>6. ASSUME NEW w \in Slot, Stall(w) PROVE Alone'
  <2>1. stalls' = stalls + 1 /\ stalls \in Nat
    BY <1>6 DEF Stall, Inv, TypeOK
  <2> QED BY <2>1 DEF Alone
<1>7. ASSUME NEW s \in Site, Ignore(s) PROVE Alone'
  <2>1. row' = [row EXCEPT !.status[s] = "ignored"] /\ UNCHANGED <<lease, job, stalls>>
    BY <1>7 DEF Ignore
  <2>2. /\ row'.lastSha = row.lastSha
        /\ \A t \in Site : row'.status[t] = row.status[t] \/ row'.status[t] = "ignored"
    BY <2>1, SoundParts DEF Row
  <2> QED BY <2>1, <2>2 DEF Inv, Alone, AloneWith
<1>8. ASSUME FixLockExpires \/ Push \/ mergeBranchInto \/ UNCHANGED vars PROVE Alone'
  BY <1>8 DEF FixLockExpires, Push, mergeBranchInto, vars, Inv, Alone, AloneWith
<1> QED BY <1>1, <1>2, <1>3, <1>4, <1>5, <1>6, <1>7, <1>8 DEF Next, Review, Fix

-----------------------------------------------------------------------------
LEMMA NextInv == ASSUME Inv, [Next]_vars PROVE Inv'
<1>1. ASSUME NEW w \in Slot, Review(w) PROVE TypeOK' /\ Sound'
  BY <1>1, StartReviewSound, ReadStateSound, MergeSound, GoesSound, SaveReviewSound DEF Review
<1>2. ASSUME NEW w \in Slot, Fix(w) PROVE TypeOK' /\ Sound'
  BY <1>2, StartFixSound, AcquireSound, PrepareSound, CommitSound, GoesSound, EndingSound DEF Fix
<1>3. ASSUME NEW w \in Slot, leaseValid(w) \/ Abandon(w) \/ Crash(w) \/ Stall(w) PROVE TypeOK' /\ Sound'
  BY <1>3, GoesSound, EndingSound, LocksSound
<1>4. ASSUME NEW s \in Site, Ignore(s) PROVE TypeOK' /\ Sound'
  BY <1>4, IgnoreSound
<1>5. ASSUME FixLockExpires \/ Push \/ mergeBranchInto PROVE TypeOK' /\ Sound'
  BY <1>5, LocksSound, BranchGrowsSound
<1>6. ASSUME UNCHANGED vars PROVE TypeOK' /\ Sound'
  BY <1>6 DEF vars, Inv, TypeOK, Sound
<1>7. TypeOK' /\ Sound'
  BY <1>1, <1>2, <1>3, <1>4, <1>5, <1>6 DEF Next
<1> QED BY <1>7, NextAlone DEF Inv

LEMMA InvHolds == Spec => []Inv
BY InitInv, NextInv, PTL DEF Spec

-----------------------------------------------------------------------------
(* Every variable keeps its shape, whatever the places, slots and bounds. *)
THEOREM FindingsTyped == Spec => []TypeOK
BY InvHolds, PTL DEF Inv

(* A P1 or P2 finding that the row calls fixed is fixed or gone in the      *)
(* commit the row names, whatever the models missed and the jobs overlap.   *)
THEOREM HighCloseOnEvidence == Spec => []HighFixedOnEvidence
<1>1. Inv => HighFixedOnEvidence
  BY DEF Inv, Sound, RowSound, Evidence, Shown, HighFixedOnEvidence, Tip
<1> QED BY <1>1, InvHolds, PTL

(* Every file of the commit last reviewed was read as it is there by a      *)
(* review that was saved, however many incremental reviews came between.    *)
THEOREM NothingSlips == Spec => []CoveredUpTo
<1>1. Inv => CoveredUpTo
  BY DEF Inv, Sound, RowSound, Backed, CoveredUpTo
<1> QED BY <1>1, InvHolds, PTL

\* The branch is written by a fix job that commits, or from outside.
LEMMA BranchWrites ==
  ASSUME Next, code' # code
  PROVE  (\E w \in Slot : CommitFix(w) \/ CommitUnheard(w)) \/ Push \/ mergeBranchInto
<1>1. ASSUME NEW w \in Slot, Review(w) \/ leaseValid(w) \/ Abandon(w) \/ Crash(w) \/ Stall(w)
      PROVE  code' = code
  BY <1>1 DEF Review, StartReview, ReadState, mergeAndFilter, PostReview, SaveReview, leaseValid,
         Abandon, Crash, Stall
<1>2. ASSUME NEW w \in Slot, Fix(w) PROVE code' = code \/ CommitFix(w) \/ CommitUnheard(w)
  BY <1>2 DEF Fix, StartFix, acquireFixLock, PrepareFix, CommitRefused, SaveFix
<1>3. ASSUME FixLockExpires \/ \E s \in Site : Ignore(s) PROVE code' = code
  BY <1>3 DEF FixLockExpires, Ignore
<1> QED BY <1>1, <1>2, <1>3 DEF Next

(* A fix commit changes nothing but the chosen files, each of which the job *)
(* had found open, and stands on the tip it replaces.                       *)
THEOREM FixesOnly == Spec => OnlyFixesCommitted
<1> DEFINE Only(w) == job[w].pc = "committing" /\ job'[w] # job[w] /\ code' # code =>
             /\ Len(code') = Tip + 1
             /\ \A s \in Site : code'[Tip + 1][s] # code[Tip][s] =>
                  /\ s \in job[w].chosen /\ job[w].read.status[s] = "open"
                  /\ code[Tip][s] # "gone" /\ code'[Tip + 1][s] = "fixed"
<1>1. ASSUME Inv, NEW w \in Slot, commitFilesAtomic(w) PROVE Only(w)
  <2>1. /\ Len(code') = Tip + 1 /\ code'[Tip + 1] = FixedTree(job[w]) /\ job[w].sha = Tip
        /\ \A s \in job[w].chosen : s \in Site /\ code[Tip][s] # "gone" /\ job[w].read.status[s] = "open"
    BY <1>1, CommitGrows DEF Open
  <2>2. \A s \in Site : code'[Tip + 1][s] = IF s \in job[w].chosen THEN "fixed" ELSE code[Tip][s]
    BY <2>1 DEF FixedTree
  <2> QED BY <2>1, <2>2
<1>2. ASSUME Inv, Next, code' # code, NEW w \in Slot, job'[w] # job[w] PROVE commitFilesAtomic(w)
  <2>1. PICK v \in Slot : CommitFix(v) \/ CommitUnheard(v)
    BY <1>2, BranchWrites DEF Push, mergeBranchInto
  <2>2. commitFilesAtomic(v) /\ \E k : job' = [job EXCEPT ![v] = k]
    BY <2>1 DEF CommitFix, CommitUnheard, Goes, End
  <2> QED BY <1>2, <2>2, SoundParts
<1>3. Inv /\ [Next]_vars => [\A w \in Slot : Only(w)]_vars
  BY <1>1, <1>2 DEF vars
<1> QED BY <1>3, InvHolds, PTL DEF Spec, OnlyFixesCommitted

\* The row is written by a job that ends, or by an ignore.
LEMMA RowWrites ==
  ASSUME Inv, [Next]_vars, row' # row
  PROVE  \/ \E w \in Slot : /\ job[w].pc \in {"posted", "saving"} /\ row' = job[w].out
                           /\ job'[w] # job[w] /\ UNCHANGED code
         \/ \E s \in Site : row' = [row EXCEPT !.status[s] = "ignored"]
<1>1. ASSUME NEW w \in Slot, SaveReview(w) \/ SaveFix(w)
      PROVE  /\ job[w].pc \in {"posted", "saving"} /\ row' = job[w].out
             /\ job'[w] # job[w] /\ UNCHANGED code
  BY <1>1, SoundParts DEF SaveReview, SaveFix, End, Idle
<1>2. ASSUME NEW w \in Slot, Review(w) PROVE row' = row \/ SaveReview(w)
  BY <1>2 DEF Review, StartReview, ReadState, mergeAndFilter, PostReview
<1>3. ASSUME NEW w \in Slot, Fix(w) PROVE row' = row \/ SaveFix(w)
  BY <1>3 DEF Fix, StartFix, acquireFixLock, PrepareFix, CommitFix, CommitUnheard, CommitRefused
<1>4. ASSUME NEW w \in Slot, leaseValid(w) \/ Abandon(w) \/ Crash(w) \/ Stall(w) PROVE row' = row
  BY <1>4 DEF leaseValid, Abandon, Crash, Stall
<1>5. ASSUME FixLockExpires \/ Push \/ mergeBranchInto \/ UNCHANGED vars PROVE row' = row
  BY <1>5 DEF FixLockExpires, Push, mergeBranchInto, vars
<1>6. (\E w \in Slot : SaveReview(w) \/ SaveFix(w)) \/ (\E s \in Site : Ignore(s))
  BY <1>2, <1>3, <1>4, <1>5 DEF Next
<1> QED BY <1>1, <1>6 DEF Ignore

(* An ignored finding comes back only through a job that read the row       *)
(* before the ignore.                                                       *)
THEOREM IgnoredUnlessStale == Spec => IgnoredKept
<1> DEFINE Kept == \A s \in Site : row.status[s] = "ignored" /\ row'.status[s] # "ignored" =>
             \E w \in Slot : /\ job[w].pc \in {"posted", "saving"} /\ job'[w] # job[w]
                             /\ job[w].read.status[s] # "ignored"
<1>1. ASSUME Inv, [Next]_vars, row' # row PROVE Kept
  <2>1. CASE \E w \in Slot : /\ job[w].pc \in {"posted", "saving"} /\ row' = job[w].out
                             /\ job'[w] # job[w] /\ UNCHANGED code
    <3>1. PICK w \in Slot : /\ job[w].pc \in {"posted", "saving"} /\ row' = job[w].out /\ job'[w] # job[w]
      BY <2>1
    <3>2. OutSound(code, job[w])
      BY <3>1, <1>1, SoundParts DEF JobSound, Reviewed, Prepared
    <3> QED BY <3>1, <3>2 DEF OutSound
  <2>2. CASE \E s \in Site : row' = [row EXCEPT !.status[s] = "ignored"]
    BY <2>2, <1>1, SoundParts DEF Row
  <2> QED BY <1>1, <2>1, <2>2, RowWrites
<1>2. Inv /\ [Next]_vars => [Kept]_<<row>>
  BY <1>1
<1> QED BY <1>2, InvHolds, PTL DEF Spec, IgnoredKept

(* While no job outlived its lease, no review of the commit last reviewed   *)
(* closes a finding for missing it.                                         *)
THEOREM NoFlipFlops == Spec => NoFlipFlop
<1> DEFINE Steady == \A s \in Site :
             /\ row.status[s] = "open" /\ row'.status[s] = "fixed" /\ stalls = 0
             /\ code[row'.at[s]][s] \notin {"fixed", "gone"}
             => row'.at[s] # row.lastSha
<1>1. ASSUME Inv, [Next]_vars, row' # row PROVE Steady
  <2>1. ASSUME NEW w \in Slot, job[w].pc \in {"posted", "saving"}, row' = job[w].out PROVE Steady
    <3>1. OutSound(code, job[w])
      BY <2>1, <1>1, SoundParts DEF JobSound, Reviewed, Prepared
    <3>2. stalls = 0 => /\ job[w].read.lastSha = row.lastSha
                        /\ \A s \in Site : row.status[s] \in {job[w].read.status[s], "ignored"}
      BY <2>1, <1>1 DEF Inv, Alone, AloneWith, Reviewing, Reviewed, Fixing, Prepared
    <3> QED BY <2>1, <3>1, <3>2 DEF OutSound, Shown
  <2>2. ASSUME NEW s \in Site, row' = [row EXCEPT !.status[s] = "ignored"] PROVE Steady
    BY <2>2, <1>1, SoundParts DEF Row
  <2> QED BY <1>1, <2>1, <2>2, RowWrites
<1>2. Inv /\ [Next]_vars => [Steady]_<<row>>
  BY <1>1
<1> QED BY <1>2, InvHolds, PTL DEF Spec, NoFlipFlop

=============================================================================
