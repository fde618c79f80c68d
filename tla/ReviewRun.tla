------------------------------ MODULE ReviewRun ------------------------------
(***************************************************************************)
(* The billed review run of one queued job and the GitHub review it posts: *)
(* the rows of review_runs, tenant_credit_ledger and review_publications   *)
(* (packages/store), driven by the attempts at the job                     *)
(* (apps/server/src/application/review).  RedisQueue is the queue under    *)
(* it; of the queue this module keeps the lease of the pull request, the   *)
(* durable payload and where it lies.                                      *)
(*                                                                         *)
(* One action is one SQLite statement or transaction, one Redis call or    *)
(* one GitHub call.  A worker process never comes back: a restart draws a  *)
(* new worker id.                                                          *)
(***************************************************************************)
EXTENDS Naturals, FiniteSets

CONSTANTS
  Slot,          \* attempts of the fleet, each inside one worker process
  WorkerOf,      \* per slot: its process
  NoSlot, NoWorker,
  Slow,          \* slots whose attempts may stop for minutes and then go on
  Run,           \* ids of review_runs rows
  NoRun,
  Units,         \* what a run debits: 1, or 2 for a deep review
  MaxConcurrent, \* plan.maxConcurrentReviews
  MaxResume,     \* maxResumeAfterRestart of the queue
  MaxReturns,    \* bound: retries and returns to the queue
  MaxReplays,    \* bound: dead letters an operator replays
  MaxResolutions,\* bound: decisions of the operator on abandoned claims
  MaxLostReplies \* bound: GitHub writes that succeed and are reported failed

Worker == {WorkerOf[s] : s \in Slot}

ASSUME SlotAssumption ==
  /\ IsFiniteSet(Slot) /\ NoSlot \notin Slot
  /\ WorkerOf \in [Slot -> Worker] /\ Slow \subseteq Slot
ASSUME WorkerAssumption == NoWorker \notin Worker
ASSUME RunAssumption == NoRun \notin Run
ASSUME PlanAssumption == Units \in {1, 2} /\ MaxConcurrent \in Nat
ASSUME LimitAssumption ==
  /\ MaxResume \in Nat /\ MaxReturns \in Nat /\ MaxReplays \in Nat
  /\ MaxResolutions \in Nat /\ MaxLostReplies \in Nat

VARIABLES
  job,         \* where the payload lies and the run id its durable copy names
  holder,      \* the slot whose token holds the lease of the pull request
  run,         \* per run: status and worker_id
  net,         \* per run: units still debited (overageDebitNetCents)
  claim,       \* per run: the row of its review in review_publications
  posted,      \* per run: reviews that reached GitHub
  slot,        \* per slot: program counter and the run it works for
  stopping,    \* workers that shut down: they take no further job
  disowned,    \* runs refunded by an attempt that no longer owned them (history)
  resolutions, \* per run: claims the operator gave back (history)
  lostReplies, \* per run: writes that succeeded and were reported failed (history)
  resumes, returns, replays

queueVars == <<job, holder, resumes, returns, replays>>
storeVars == <<run, net, claim>>
historyVars == <<posted, disowned, resolutions, lostReplies>>
vars == <<queueVars, storeVars, slot, historyVars, stopping>>

PC == {"idle", "admit", "capped", "prepare", "review", "lease", "claim", "write", "record",
       "close", "fail", "refund", "ok", "failed", "gone"}
Ended == {"completed", "failed", "skipped"}
Status == Ended \cup {"none", "running", "interrupted"}
Unclaimed == [st |-> "none", by |-> NoSlot]

TypeOK ==
  /\ job \in [at : {"ready", "leased", "done", "dead"}, run : Run \cup {NoRun}]
  /\ holder \in Slot \cup {NoSlot}
  /\ run \in [Run -> [st : Status, worker : Worker \cup {NoWorker}]]
  /\ net \in [Run -> 0..Units]
  /\ claim \in [Run -> [st : {"none", "publishing", "published"}, by : Slot \cup {NoSlot}]]
  /\ slot \in [Slot -> [pc : PC, run : Run \cup {NoRun}]]
  /\ stopping \in SUBSET Worker
  /\ posted \in [Run -> Nat] /\ resolutions \in [Run -> Nat] /\ lostReplies \in [Run -> Nat]
  /\ disowned \in SUBSET Run
  /\ resumes \in Nat /\ returns \in Nat /\ replays \in Nat

Init ==
  /\ job = [at |-> "ready", run |-> NoRun]
  /\ holder = NoSlot
  /\ run = [r \in Run |-> [st |-> "none", worker |-> NoWorker]]
  /\ net = [r \in Run |-> 0]
  /\ claim = [r \in Run |-> Unclaimed]
  /\ posted = [r \in Run |-> 0]
  /\ slot = [s \in Slot |-> [pc |-> "idle", run |-> NoRun]]
  /\ stopping = {}
  /\ disowned = {}
  /\ resolutions = [r \in Run |-> 0]
  /\ lostReplies = [r \in Run |-> 0]
  /\ resumes = 0 /\ returns = 0 /\ replays = 0

-----------------------------------------------------------------------------
(* Vocabulary.                                                             *)

At(s, pc) == slot[s].pc = pc
Goto(s, pc) == slot' = [slot EXCEPT ![s].pc = pc]
Free(s) == slot' = [slot EXCEPT ![s] = [pc |-> "idle", run |-> NoRun]]

\* Faulty variant: the fence lacks worker_id.
AnyWorker(s, r) == run[r].st = "running"

\* The fence of every write to a run: WHERE status = 'running' AND worker_id = ?
Owns(s, r) == run[r].st = "running" /\ run[r].worker = WorkerOf[s]

OpenRun(s, r) == run' = [run EXCEPT ![r] = [st |-> "running", worker |-> WorkerOf[s]]]

\* completeReviewRun and interruptReviewRun: no effect for another worker.
EndRun(s, r, st) ==
  run' = IF r # NoRun /\ Owns(s, r)
         THEN [run EXCEPT ![r] = [st |-> st, worker |-> NoWorker]] ELSE run

\* Faulty variant: any skipped run may be resumed.
Skipped(r) == r # NoRun /\ run[r].st \in {"interrupted", "skipped"}

\* resumeReviewRun: what the run that the payload names allows.
Resumable(r) == r # NoRun /\ run[r].st = "interrupted"
Finished(r) == r # NoRun /\ run[r].st = "completed"

Running == {r \in Run : run[r].st = "running"}

\* Faulty variant: the debit of an interrupted run is refunded.
RefundInterrupted(r) == net' = [q \in Run |-> IF q = r THEN 0 ELSE net[q]]

\* The debit of an interrupted run stays, for its resumption.
KeepDebit(r) == net' = net

\* The heartbeat of a run is old when no attempt of its owner works on it, or
\* when that attempt stops for minutes.
HeartbeatOld(r) ==
  \A s \in Slot \ Slow :
    ~ (slot[s].run = r /\ Owns(s, r) /\ slot[s].pc \notin {"admit", "ok", "failed"})

\* The holder of the lease gives the job back, with the run it worked for.
Return(s, at) ==
  IF holder = s
  THEN /\ job' = [at |-> at, run |-> slot[s].run]
       /\ holder' = NoSlot
       /\ returns' = IF at = "ready" THEN returns + 1 ELSE returns
  ELSE UNCHANGED <<job, holder, returns>>

-----------------------------------------------------------------------------
(* Admission (AdmissionService.admit) and preparation.                     *)

\* DEQUEUE, CLAIM and mark-running, in one step; RedisQueue has them apart.
Dequeue(s) ==
  /\ At(s, "idle") /\ WorkerOf[s] \notin stopping
  /\ job.at = "ready"
  /\ job' = [job EXCEPT !.at = "leased"]
  /\ holder' = s
  /\ slot' = [slot EXCEPT ![s] = [pc |-> "admit", run |-> job.run]]
  /\ UNCHANGED <<resumes, returns, replays, storeVars, historyVars, stopping>>

\* The review of this payload is already done.
AlreadyCompleted(s) ==
  /\ At(s, "admit")
  /\ Finished(slot[s].run)
  /\ Goto(s, "ok")
  /\ UNCHANGED <<queueVars, storeVars, historyVars, stopping>>

\* An interrupted run goes on under this worker, with the debit it has, unless
\* the tenant's monthly cost cap was reached meanwhile.
Resume(s) ==
  /\ At(s, "admit")
  /\ Resumable(slot[s].run)
  /\ OpenRun(s, slot[s].run)
  /\ Goto(s, "prepare") \/ Goto(s, "capped")
  /\ UNCHANGED <<queueVars, net, claim, historyVars, stopping>>

\* Then it is skipped and refunded.
SkipCapped(s) ==
  /\ At(s, "capped")
  /\ EndRun(s, slot[s].run, "skipped")
  /\ Goto(s, "refund")
  /\ UNCHANGED <<queueVars, net, claim, historyVars, stopping>>

\* tryReserveReviewRun: one transaction checks the limits, inserts the run and
\* debits it.
Reserve(s) ==
  /\ At(s, "admit")
  /\ ~ Resumable(slot[s].run) /\ ~ Finished(slot[s].run)
  /\ Cardinality(Running) < MaxConcurrent
  /\ \E r \in Run :
       /\ run[r].st = "none"
       /\ OpenRun(s, r)
       /\ net' = [net EXCEPT ![r] = Units]
       /\ slot' = [slot EXCEPT ![s] = [pc |-> "prepare", run |-> r]]
  /\ UNCHANGED <<queueVars, claim, historyVars, stopping>>

\* Too many runs are recorded as running, or the hourly rate is reached: the
\* job goes back to the queue, if it is still ours.
Defer(s) ==
  /\ At(s, "admit")
  /\ ~ Resumable(slot[s].run) /\ ~ Finished(slot[s].run)
  /\ holder = s => returns < MaxReturns
  /\ Return(s, "ready")
  /\ Free(s)
  /\ UNCHANGED <<resumes, replays, storeVars, historyVars, stopping>>

\* Any other limit, a cooldown or a missing provider: a skipped row, no run.
Refuse(s) ==
  /\ At(s, "admit")
  /\ ~ Finished(slot[s].run)
  /\ Goto(s, "ok")
  /\ UNCHANGED <<queueVars, storeVars, historyVars, stopping>>

\* persistJob: the durable payload names the run, unless the lease is gone.
Prepare(s) ==
  /\ At(s, "prepare")
  /\ IF holder = s
     THEN job' = [job EXCEPT !.run = slot[s].run] /\ Goto(s, "review")
     ELSE UNCHANGED job /\ Goto(s, "fail")
  /\ UNCHANGED <<holder, resumes, returns, replays, storeVars, historyVars, stopping>>

-----------------------------------------------------------------------------
(* Review and publication (publishReview, PublicationClaimLifecycle).      *)

\* A model call fails, the PR is closed, or a heartbeat finds the run lost.
ReviewFails(s) ==
  /\ At(s, "review")
  /\ Goto(s, "fail")
  /\ UNCHANGED <<queueVars, storeVars, historyVars, stopping>>

\* heartbeatReviewRun before publication.
CheckRun(s) ==
  /\ At(s, "review")
  /\ Goto(s, IF Owns(s, slot[s].run) THEN "lease" ELSE "fail")
  /\ UNCHANGED <<queueVars, storeVars, historyVars, stopping>>

\* leaseValid, then the question whether the PR is still open.
CheckLease(s) ==
  /\ At(s, "lease")
  /\ \/ holder = s /\ Goto(s, "claim")
     \/ Goto(s, "fail")
  /\ UNCHANGED <<queueVars, storeVars, historyVars, stopping>>

\* Faulty variant: a claim that exists is taken over.
MayReclaim(s, r) == Owns(s, r)

\* claimReviewPublication: INSERT ... ON CONFLICT DO NOTHING under the fence.
MayClaim(s, r) == Owns(s, r) /\ claim[r].st = "none"

\* Faulty variant: a claim counts as published.
ClaimedBefore(r) == claim[r].st # "none"

\* Only a published claim lets another attempt go on, with the stored result.
PublishedBefore(r) == claim[r].st = "published"

Claim(s) ==
  LET r == slot[s].run IN
  /\ At(s, "claim")
  /\ \/ /\ MayClaim(s, r)
        /\ claim' = [claim EXCEPT ![r] = [st |-> "publishing", by |-> s]]
        /\ Goto(s, "write")
     \/ /\ ~ MayClaim(s, r)
        /\ Goto(s, IF PublishedBefore(r) THEN "close" ELSE "fail")
        /\ UNCHANGED claim
  /\ UNCHANGED <<queueVars, run, net, historyVars, stopping>>

\* The review reaches GitHub and its id comes back.
Write(s) ==
  /\ At(s, "write")
  /\ posted' = [posted EXCEPT ![slot[s].run] = @ + 1]
  /\ Goto(s, "record")
  /\ UNCHANGED <<queueVars, storeVars, disowned, resolutions, lostReplies, stopping>>

\* Faulty variant: the claim token is not compared.
HoldsAnyClaim(s, r) == claim[r].st = "publishing" /\ Owns(s, r)

\* releaseReviewPublication and completeReviewPublication need the claim's
\* token and the run.
HoldsClaim(s, r) == claim[r] = [st |-> "publishing", by |-> s] /\ Owns(s, r)
ReleaseClaim(s, r) ==
  claim' = IF HoldsClaim(s, r) THEN [claim EXCEPT ![r] = Unclaimed] ELSE claim

\* The write throws: it had no effect, or it had one that nobody heard of.
WriteThrows(s) ==
  LET r == slot[s].run IN
  /\ At(s, "write")
  /\ ReleaseClaim(s, r)
  /\ \/ UNCHANGED <<posted, lostReplies>>
     \/ /\ lostReplies[r] < MaxLostReplies
        /\ posted' = [posted EXCEPT ![r] = @ + 1]
        /\ lostReplies' = [lostReplies EXCEPT ![r] = @ + 1]
  /\ Goto(s, "fail")
  /\ UNCHANGED <<queueVars, run, net, disowned, resolutions, stopping>>

\* completeReviewPublication; without the claim the result stays ambiguous.
Record(s) ==
  LET r == slot[s].run IN
  /\ At(s, "record")
  /\ \/ /\ HoldsClaim(s, r)
        /\ claim' = [claim EXCEPT ![r].st = "published"]
        /\ Goto(s, "close")
     \/ /\ ~ HoldsClaim(s, r)
        /\ Goto(s, "fail")
        /\ UNCHANGED claim
  /\ UNCHANGED <<queueVars, run, net, historyVars, stopping>>

-----------------------------------------------------------------------------
(* Settlement (FinalizationService) and the end of the queue job.          *)

\* Faulty variant: one unit is given back whatever was charged.
OneUnitOff(n) == n - 1

\* complete: the run ends if it is still ours.  A deep review whose lenses did
\* not run is then charged one unit (reconcileOverageDebit), whoever owns it.
AtMostOne(n) == IF n > 1 THEN 1 ELSE n

Close(s) ==
  LET r == slot[s].run IN
  /\ At(s, "close")
  /\ EndRun(s, r, "completed")
  /\ \/ UNCHANGED net
     \/ Units > 1 /\ net' = [net EXCEPT ![r] = AtMostOne(@)]
  /\ Goto(s, "ok")
  /\ UNCHANGED <<queueVars, claim, historyVars, stopping>>

\* fail: completeReviewRun, whose verdict nobody reads ...
Fail(s) ==
  /\ At(s, "fail")
  /\ EndRun(s, slot[s].run, "failed")
  /\ Goto(s, "refund")
  /\ UNCHANGED <<queueVars, net, claim, historyVars, stopping>>

\* ... and then refundOverageCredits, which has no fence.  The job fails, or
\* ends with a reason to skip it.
Refund(s) ==
  LET r == slot[s].run IN
  /\ At(s, "refund")
  /\ net' = [net EXCEPT ![r] = 0]
  /\ disowned' = IF run[r].st \in {"failed", "skipped"} THEN disowned ELSE disowned \cup {r}
  /\ Goto(s, "failed") \/ Goto(s, "ok")
  /\ UNCHANGED <<queueVars, run, claim, posted, resolutions, lostReplies, stopping>>

\* finalizeQueueJob: the job is over, unless the lease is gone.
Finalize(s) ==
  /\ At(s, "ok")
  /\ Return(s, "done")
  /\ Free(s)
  /\ UNCHANGED <<resumes, replays, storeVars, historyVars, stopping>>

\* markFailed: a dead letter, or back to the queue for a transient error.
MarkFailed(s) ==
  /\ At(s, "failed")
  /\ \/ Return(s, "dead")
     \/ returns < MaxReturns /\ Return(s, "ready")
  /\ Free(s)
  /\ UNCHANGED <<resumes, replays, storeVars, historyVars, stopping>>

-----------------------------------------------------------------------------
(* Faults, recovery and the operator.                                      *)

\* failInterruptedJobs: a worker that stops gives up an attempt that did not
\* settle in time.  It only marks it: the exit of the process ends it.  (Before
\* admission mark-running fails for a job given up, and nothing has begun.)
Interrupt(s) ==
  LET r == slot[s].run IN
  /\ slot[s].pc \notin {"idle", "admit", "gone"}
  /\ EndRun(s, r, "interrupted")
  /\ KeepDebit(r)
  /\ Return(s, "dead")
  /\ stopping' = stopping \cup {WorkerOf[s]}
  /\ UNCHANGED <<resumes, replays, claim, slot, historyVars>>

\* A worker process exits or is killed, with all its attempts.
Crash(w) ==
  /\ \E s \in Slot : WorkerOf[s] = w /\ ~ At(s, "gone")
  /\ slot' = [s \in Slot |-> IF WorkerOf[s] = w THEN [pc |-> "gone", run |-> NoRun] ELSE slot[s]]
  /\ UNCHANGED <<queueVars, storeVars, historyVars, stopping>>

\* The lease runs out and orphan recovery takes the backup: back to the queue,
\* or to the dead letters when it was resumed often enough.
RecoverOrphan ==
  /\ holder # NoSlot
  /\ At(holder, "gone") \/ holder \in Slow
  /\ holder' = NoSlot
  /\ job' = [job EXCEPT !.at = IF resumes < MaxResume THEN "ready" ELSE "dead"]
  /\ resumes' = IF resumes < MaxResume THEN resumes + 1 ELSE resumes
  /\ UNCHANGED <<returns, replays, storeVars, slot, stopping, historyVars>>

\* An operator replays the dead letter.
Replay ==
  /\ job.at = "dead"
  /\ replays < MaxReplays
  /\ job' = [job EXCEPT !.at = "ready"]
  /\ replays' = replays + 1
  /\ UNCHANGED <<holder, resumes, returns, storeVars, slot, historyVars, stopping>>

\* failStaleRunningRuns, when a scheduler process starts.
FailStale(r) ==
  /\ run[r].st = "running"
  /\ HeartbeatOld(r)
  /\ run' = [run EXCEPT ![r] = [st |-> "interrupted", worker |-> NoWorker]]
  /\ KeepDebit(r)
  /\ UNCHANGED <<queueVars, claim, slot, stopping, historyVars>>

\* resolveAbandonedReviewPublication: an operator who has looked at GitHub
\* gives the claim back or records the review as published.
Abandoned(r) ==
  run[r].st = "running" /\ run[r].worker = WorkerOf[claim[r].by] => HeartbeatOld(r)

Resolve(r) ==
  /\ claim[r].st = "publishing"
  /\ Abandoned(r)
  /\ \/ /\ resolutions[r] < MaxResolutions
        /\ resolutions' = [resolutions EXCEPT ![r] = @ + 1]
        /\ claim' = [claim EXCEPT ![r] = Unclaimed]
     \/ /\ claim' = [claim EXCEPT ![r].st = "published"]
        /\ UNCHANGED resolutions
  /\ UNCHANGED <<queueVars, run, net, slot, stopping, posted, disowned, lostReplies>>

-----------------------------------------------------------------------------

Attempt(s) ==
  \/ Dequeue(s) \/ AlreadyCompleted(s) \/ Resume(s) \/ SkipCapped(s)
  \/ Reserve(s) \/ Defer(s) \/ Refuse(s) \/ Prepare(s)
  \/ ReviewFails(s) \/ CheckRun(s) \/ CheckLease(s) \/ Claim(s)
  \/ Write(s) \/ WriteThrows(s) \/ Record(s)
  \/ Close(s) \/ Fail(s) \/ Refund(s) \/ Finalize(s) \/ MarkFailed(s)

Next ==
  \/ \E s \in Slot : Attempt(s) \/ Interrupt(s)
  \/ \E w \in Worker : Crash(w)
  \/ \E r \in Run : FailStale(r) \/ Resolve(r)
  \/ RecoverOrphan \/ Replay

Spec == Init /\ [][Next]_vars

-----------------------------------------------------------------------------
(* Safety.                                                                 *)

\* The publication claim makes the GitHub review of a run exactly-once as far
\* as it can be: beyond one, each review that a run posts is one that GitHub
\* reported as failed, or follows a claim that the operator gave back.
OneWritePerRun == \A r \in Run : posted[r] <= 1 + resolutions[r] + lostReplies[r]

\* A completed run has its review on record, published by one of its attempts
\* or declared so by the operator; a claim left by a dead worker is not enough.
CompletedWasPublished ==
  \A r \in Run : run[r].st = "completed" => claim[r].st = "published"

\* A run ends only by an attempt that works on it in the process that the run
\* records as its owner: an attempt left behind by a resumption elsewhere ends
\* nothing.
EndedByOwner ==
  [][\A r \in Run :
       run[r].st = "running" /\ run'[r].st \in Ended =>
         \E s \in Slot : /\ slot[s].run = r /\ slot'[s] # slot[s]
                         /\ WorkerOf[s] = run[r].worker]_vars

\* A run that completed, failed or was skipped for good never runs again.
EndedStays == [][\A r \in Run : run[r].st \in Ended => run'[r].st = run[r].st]_vars

\* The claim of an attempt changes only by that attempt, or by the operator
\* when its worker no longer works on the run; a published claim is final.
ClaimFenced ==
  [][\A r \in Run : claim'[r] # claim[r] /\ claim[r].st # "none" =>
       /\ claim[r].st = "publishing"
       /\ slot'[claim[r].by] # slot[claim[r].by] \/ UNCHANGED slot]_vars

\* A delivered review is paid for, whatever was interrupted, resumed, deferred
\* or recovered on the way, unless an attempt that had lost the run refunded it.
PaidUnlessDisowned ==
  \A r \in Run : run[r].st = "completed" /\ net[r] = 0 => r \in disowned

-----------------------------------------------------------------------------
(* What the repository says and the code does not do; each is the subject  *)
(* of one run that shows the counterexample.                               *)

\* The debit of an interrupted run stays until its resumption completes.
DeliveredIsPaid == \A r \in Run : run[r].st = "completed" => net[r] > 0

\* Once the durable payload names a run that holds a debit, the job is not
\* debited under a second run.
OneBilledRun ==
  [][job.run # NoRun /\ net[job.run] > 0 => \A q \in Run : net'[q] <= net[q]]_vars

=============================================================================
