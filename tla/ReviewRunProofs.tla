-------------------------- MODULE ReviewRunProofs --------------------------
(***************************************************************************)
(* Proofs about ReviewRun, for any number of slots, workers and runs and   *)
(* for all bounds.  What a step may do to the rows of a run and of its     *)
(* claim is stated once (RunStep, ClaimStep, BalanceStep); the properties  *)
(* follow from that and from short inductive invariants.                   *)
(***************************************************************************)
EXTENDS ReviewRun, FiniteSetTheorems, TLAPS

USE SlotAssumption, WorkerAssumption, RunAssumption, PlanAssumption, LimitAssumption

-----------------------------------------------------------------------------
(* Types.                                                                  *)

\* An attempt past admission works for a run; without this the types are not
\* inductive.
Working(s) == slot[s].pc \notin {"idle", "admit", "ok", "failed", "gone"}
WorksForRun == \A s \in Slot : Working(s) => slot[s].run \in Run
Typed == TypeOK /\ WorksForRun

LEMMA InitTyped == Init => Typed
BY DEF Init, Typed, TypeOK, WorksForRun, Working, Ended, Status, PC, Unclaimed

\* The queue part of a step keeps its types whoever gives the job back.
LEMMA ReturnTyped ==
  ASSUME TypeOK, NEW s \in Slot, NEW at \in {"ready", "done", "dead"}, Return(s, at)
  PROVE  /\ job' \in [at : {"ready", "leased", "done", "dead"}, run : Run \cup {NoRun}]
         /\ holder' \in Slot \cup {NoSlot} /\ returns' \in Nat
BY DEF Return, TypeOK

LEMMA EndRunTyped ==
  ASSUME TypeOK, NEW s \in Slot, NEW r, NEW st \in Ended \cup {"interrupted"}, EndRun(s, r, st)
  PROVE  run' \in [Run -> [st : Status, worker : Worker \cup {NoWorker}]]
BY DEF EndRun, TypeOK, Ended, Status

LEMMA GotoTyped ==
  ASSUME TypeOK, NEW s \in Slot, NEW pc \in PC, Goto(s, pc)
  PROVE  slot' \in [Slot -> [pc : PC, run : Run \cup {NoRun}]]
BY DEF Goto, TypeOK

LEMMA FreeTyped ==
  ASSUME TypeOK, NEW s \in Slot, Free(s)
  PROVE  slot' \in [Slot -> [pc : PC, run : Run \cup {NoRun}]]
BY DEF Free, TypeOK, PC

\* Updates of the place of the payload, of a claim, of a debit, of a counter.
LEMMA JobUpdateTyped ==
  ASSUME NEW j \in [at : {"ready", "leased", "done", "dead"}, run : Run \cup {NoRun}],
         NEW at \in {"ready", "leased", "done", "dead"}
  PROVE  [j EXCEPT !.at = at] \in [at : {"ready", "leased", "done", "dead"}, run : Run \cup {NoRun}]
OBVIOUS

ClaimRow == [st : {"none", "publishing", "published"}, by : Slot \cup {NoSlot}]

LEMMA ClaimUpdateTyped ==
  ASSUME NEW f \in [Run -> ClaimRow], NEW r \in Run, NEW c \in ClaimRow
  PROVE  [f EXCEPT ![r] = c] \in [Run -> ClaimRow]
OBVIOUS

LEMMA ClaimRowUpdate ==
  ASSUME NEW c \in ClaimRow, NEW st \in {"none", "publishing", "published"}
  PROVE  [c EXCEPT !.st = st] \in ClaimRow
BY DEF ClaimRow

LEMMA ClaimStatusTyped ==
  ASSUME NEW f \in [Run -> ClaimRow], NEW r \in Run, NEW st \in {"none", "publishing", "published"}
  PROVE  [f EXCEPT ![r].st = st] \in [Run -> ClaimRow]
<1>1. [f[r] EXCEPT !.st = st] \in ClaimRow
  BY ClaimRowUpdate
<1>2. [f EXCEPT ![r] = [f[r] EXCEPT !.st = st]] \in [Run -> ClaimRow]
  BY <1>1, ClaimUpdateTyped
<1> QED
  BY <1>2

LEMMA CountTyped ==
  ASSUME NEW f \in [Run -> Nat], NEW r \in Run
  PROVE  [f EXCEPT ![r] = @ + 1] \in [Run -> Nat]
OBVIOUS

LEMMA DebitTyped ==
  ASSUME NEW f \in [Run -> 0..Units], NEW r \in Run
  PROVE  [f EXCEPT ![r] = 0] \in [Run -> 0..Units]
<1>1. 0 \in 0..Units
  OBVIOUS
<1> QED
  BY <1>1

\* Every step keeps the types.
LEMMA StepTyped ==
  ASSUME Typed, [Next]_vars
  PROVE  TypeOK'
<1> USE DEF queueVars, storeVars, historyVars
<1> TypeOK
  BY DEF Typed
<1>1. ASSUME NEW s \in Slot, Attempt(s)
      PROVE  TypeOK'
  <2> Working(s) => slot[s].run \in Run
    BY DEF Typed, WorksForRun
  <2>1. CASE Dequeue(s)
    BY <2>1 DEF Dequeue, TypeOK, PC
  <2>2. CASE AlreadyCompleted(s)
    BY <2>2, GotoTyped DEF AlreadyCompleted, TypeOK, PC
  <2>3. CASE Resume(s)
    BY <2>3, GotoTyped DEF Resume, TypeOK, OpenRun, Status, PC, Worker
  <2>4. CASE SkipCapped(s)
    BY <2>4, EndRunTyped, GotoTyped DEF SkipCapped, TypeOK, PC, Ended
  <2>5. CASE Reserve(s)
    BY <2>5 DEF Reserve, TypeOK, OpenRun, Status, PC, Worker
  <2>6. CASE Defer(s)
    BY <2>6, ReturnTyped, FreeTyped DEF Defer, TypeOK
  <2>7. CASE Refuse(s)
    BY <2>7, GotoTyped DEF Refuse, TypeOK, PC
  <2>8. CASE Prepare(s)
    BY <2>8 DEF Prepare, TypeOK, Goto, PC
  <2>9. CASE ReviewFails(s)
    BY <2>9, GotoTyped DEF ReviewFails, TypeOK, PC
  <2>10. CASE CheckRun(s)
    BY <2>10, GotoTyped DEF CheckRun, TypeOK, PC
  <2>11. CASE CheckLease(s)
    BY <2>11, GotoTyped DEF CheckLease, TypeOK, PC
  <2>12. CASE Claim(s)
    <3>0. slot[s].run \in Run
      BY <2>12 DEF Claim, At, Working
    <3>1. claim \in [Run -> ClaimRow]
      BY DEF TypeOK, ClaimRow
    <3>2. slot' \in [Slot -> [pc : PC, run : Run \cup {NoRun}]]
      BY <2>12, GotoTyped DEF Claim, PC
    <3>3. [st |-> "publishing", by |-> s] \in ClaimRow
      BY DEF ClaimRow
    <3>4. claim' \in [Run -> ClaimRow]
      BY <2>12, <3>0, <3>1, <3>3, ClaimUpdateTyped DEF Claim
    <3> QED
      BY <2>12, <3>2, <3>4 DEF Claim, TypeOK, ClaimRow
  <2>13. CASE Write(s)
    <3>0. slot[s].run \in Run
      BY <2>13 DEF Write, At, Working
    <3> QED
      BY <2>13, <3>0, GotoTyped, CountTyped DEF Write, TypeOK, PC
  <2>14. CASE WriteThrows(s)
    <3>0. slot[s].run \in Run
      BY <2>14 DEF WriteThrows, At, Working
    <3>1. claim \in [Run -> ClaimRow] /\ posted \in [Run -> Nat] /\ lostReplies \in [Run -> Nat]
      BY DEF TypeOK, ClaimRow
    <3>2. slot' \in [Slot -> [pc : PC, run : Run \cup {NoRun}]]
      BY <2>14, GotoTyped DEF WriteThrows, PC
    <3>3. Unclaimed \in ClaimRow
      BY DEF ClaimRow, Unclaimed
    <3>4. claim' \in [Run -> ClaimRow]
      BY <2>14, <3>0, <3>1, <3>3, ClaimUpdateTyped DEF WriteThrows, ReleaseClaim
    <3>5. posted' \in [Run -> Nat] /\ lostReplies' \in [Run -> Nat]
      BY <2>14, <3>0, <3>1, CountTyped DEF WriteThrows
    <3> QED
      BY <2>14, <3>2, <3>4, <3>5 DEF WriteThrows, TypeOK, ClaimRow
  <2>15. CASE Record(s)
    <3>0. slot[s].run \in Run
      BY <2>15 DEF Record, At, Working
    <3>1. claim \in [Run -> ClaimRow]
      BY DEF TypeOK, ClaimRow
    <3>2. slot' \in [Slot -> [pc : PC, run : Run \cup {NoRun}]]
      BY <2>15, GotoTyped DEF Record, PC
    <3>3. [claim EXCEPT ![slot[s].run].st = "published"] \in [Run -> ClaimRow]
      BY <3>0, <3>1, ClaimStatusTyped
    <3>4. claim' \in {claim, [claim EXCEPT ![slot[s].run].st = "published"]}
      BY <2>15 DEF Record
    <3>5. claim' \in [Run -> ClaimRow]
      BY <3>1, <3>3, <3>4
    <3>6. /\ UNCHANGED <<job, holder, resumes, returns, replays, run, net>>
          /\ UNCHANGED <<posted, disowned, resolutions, lostReplies, stopping>>
      BY <2>15 DEF Record
    <3> QED
      BY <3>2, <3>5, <3>6 DEF TypeOK, ClaimRow
  <2>16. CASE Close(s)
    <3>0. slot[s].run \in Run
      BY <2>16 DEF Close, At, Working
    <3>1. slot' \in [Slot -> [pc : PC, run : Run \cup {NoRun}]]
      BY <2>16, GotoTyped DEF Close, PC
    <3>2. run' \in [Run -> [st : Status, worker : Worker \cup {NoWorker}]]
      BY <2>16, EndRunTyped DEF Close, Ended
    <3>3. AtMostOne(net[slot[s].run]) \in 0..Units
      BY <3>0 DEF AtMostOne, TypeOK
    <3>4. net' \in [Run -> 0..Units]
      BY <2>16, <3>0, <3>3 DEF Close, TypeOK
    <3> QED
      BY <2>16, <3>1, <3>2, <3>4 DEF Close, TypeOK
  <2>17. CASE Fail(s)
    BY <2>17, EndRunTyped, GotoTyped DEF Fail, TypeOK, PC, Ended
  <2>18. CASE Refund(s)
    <3>0. slot[s].run \in Run
      BY <2>18 DEF Refund, At, Working
    <3>1. slot' \in [Slot -> [pc : PC, run : Run \cup {NoRun}]]
      BY <2>18, GotoTyped DEF Refund, PC
    <3>2. net' \in [Run -> 0..Units]
      BY <2>18, <3>0, DebitTyped DEF Refund, TypeOK
    <3>3. disowned' \in SUBSET Run
      BY <2>18, <3>0 DEF Refund, TypeOK
    <3> QED
      BY <2>18, <3>1, <3>2, <3>3 DEF Refund, TypeOK
  <2>19. CASE Finalize(s)
    BY <2>19, ReturnTyped, FreeTyped DEF Finalize, TypeOK
  <2>20. CASE MarkFailed(s)
    BY <2>20, ReturnTyped, FreeTyped DEF MarkFailed, TypeOK
  <2> QED
    BY <1>1, <2>1, <2>2, <2>3, <2>4, <2>5, <2>6, <2>7, <2>8, <2>9, <2>10, <2>11, <2>12, <2>13, <2>14, <2>15, <2>16, <2>17, <2>18, <2>19, <2>20 DEF Attempt
<1>2. ASSUME NEW s \in Slot, Interrupt(s)
      PROVE  TypeOK'
  BY <1>2, EndRunTyped, ReturnTyped DEF Interrupt, KeepDebit, TypeOK, Worker
<1>3. ASSUME NEW w \in Worker, Crash(w)
      PROVE  TypeOK'
  BY <1>3 DEF Crash, TypeOK, PC
<1>4. ASSUME NEW r \in Run, FailStale(r)
      PROVE  TypeOK'
  BY <1>4 DEF FailStale, KeepDebit, TypeOK, Status
<1>5. ASSUME NEW r \in Run, Resolve(r)
      PROVE  TypeOK'
  <2>1. claim \in [Run -> ClaimRow] /\ Unclaimed \in ClaimRow
    BY DEF TypeOK, ClaimRow, Unclaimed
  <2>2. [claim EXCEPT ![r].st = "published"] \in [Run -> ClaimRow]
    BY <2>1, ClaimStatusTyped
  <2>3. [claim EXCEPT ![r] = Unclaimed] \in [Run -> ClaimRow]
    BY <2>1, ClaimUpdateTyped
  <2>4. claim' \in {[claim EXCEPT ![r].st = "published"], [claim EXCEPT ![r] = Unclaimed]}
    BY <1>5 DEF Resolve
  <2>5. claim' \in [Run -> ClaimRow]
    BY <2>2, <2>3, <2>4
  <2>6. resolutions' \in [Run -> Nat]
    BY <1>5, CountTyped DEF Resolve, TypeOK
  <2>7. UNCHANGED <<queueVars, run, net, slot, stopping, posted, disowned, lostReplies>>
    BY <1>5 DEF Resolve
  <2> QED
    BY <2>5, <2>6, <2>7 DEF TypeOK, ClaimRow
<1>6. CASE RecoverOrphan
  <2>1. job' \in [at : {"ready", "leased", "done", "dead"}, run : Run \cup {NoRun}]
    BY <1>6, JobUpdateTyped DEF RecoverOrphan, TypeOK
  <2> QED
    BY <1>6, <2>1 DEF RecoverOrphan, TypeOK
<1>7. CASE Replay
  <2>1. job' \in [at : {"ready", "leased", "done", "dead"}, run : Run \cup {NoRun}]
    BY <1>7, JobUpdateTyped DEF Replay, TypeOK
  <2> QED
    BY <1>7, <2>1 DEF Replay, TypeOK
<1>8. CASE UNCHANGED vars
  BY <1>8 DEF vars, TypeOK
<1> QED
  BY <1>1, <1>2, <1>3, <1>4, <1>5, <1>6, <1>7, <1>8 DEF Next

\* An attempt gets a run when it is resumed or reserved, and keeps it.
LEMMA StepWorks ==
  ASSUME Typed, [Next]_vars
  PROVE  WorksForRun'
<1> SUFFICES ASSUME NEW s \in Slot
             PROVE  Working(s)' => slot'[s].run \in Run
  BY DEF WorksForRun, Working
<1> TypeOK /\ (Working(s) => slot[s].run \in Run)
  BY DEF Typed, WorksForRun
<1> USE DEF Working, At, Goto, Free
<1>1. ASSUME NEW t \in Slot, Attempt(t)
      PROVE  Working(s)' => slot'[s].run \in Run
  <2>1. CASE s # t
    <3>1. slot'[s] = slot[s]
      BY <1>1, <2>1 DEF TypeOK, Attempt, Dequeue, AlreadyCompleted, Resume, SkipCapped, Reserve,
         Defer, Refuse, Prepare, ReviewFails, CheckRun, CheckLease, Claim, Write, WriteThrows,
         Record, Close, Fail, Refund, Finalize, MarkFailed
    <3> QED
      BY <3>1
  <2>2. CASE s = t
    <3>1. CASE Dequeue(s) \/ Defer(s) \/ Finalize(s) \/ MarkFailed(s) \/ AlreadyCompleted(s) \/ Refuse(s)
      BY <3>1 DEF TypeOK, Dequeue, Defer, Finalize, MarkFailed, AlreadyCompleted, Refuse
    <3>2. CASE Resume(s) \/ Reserve(s)
      BY <3>2 DEF TypeOK, Resume, Reserve, Resumable
    <3>3. CASE \/ SkipCapped(s) \/ Prepare(s) \/ ReviewFails(s) \/ CheckRun(s) \/ CheckLease(s)
               \/ Claim(s) \/ Write(s) \/ WriteThrows(s) \/ Record(s) \/ Close(s) \/ Fail(s) \/ Refund(s)
      BY <3>3 DEF TypeOK, SkipCapped, Prepare, ReviewFails, CheckRun, CheckLease, Claim, Write,
         WriteThrows, Record, Close, Fail, Refund
    <3> QED
      BY <1>1, <2>2, <3>1, <3>2, <3>3 DEF Attempt
  <2> QED
    BY <2>1, <2>2
<1>2. CASE \E t \in Slot : Interrupt(t)
  BY <1>2 DEF Interrupt
<1>3. CASE \E w \in Worker : Crash(w)
  BY <1>3 DEF Crash, TypeOK
<1>4. CASE (\E r \in Run : FailStale(r) \/ Resolve(r)) \/ RecoverOrphan \/ Replay \/ UNCHANGED vars
  BY <1>4 DEF FailStale, Resolve, RecoverOrphan, Replay, vars
<1> QED
  BY <1>1, <1>2, <1>3, <1>4 DEF Next

\* Every reachable state is well typed.
LEMMA AlwaysTyped == Spec => []Typed
<1>1. Init => Typed
  BY InitTyped
<1>2. Typed /\ [Next]_vars => Typed'
  BY StepTyped, StepWorks DEF Typed
<1> QED
  BY <1>1, <1>2, PTL DEF Spec

\* The run store and its attempts are well typed in every reachable state, for
\* any slots, workers and runs.
THEOREM RunTypeCorrect == Spec => []TypeOK
<1>1. Typed => TypeOK
  BY DEF Typed
<1> QED
  BY <1>1, AlwaysTyped, PTL

-----------------------------------------------------------------------------
(* What a step does to a run.                                              *)

LEMMA EndRunStep ==
  ASSUME TypeOK, NEW s \in Slot, NEW q, NEW st, EndRun(s, q, st),
         NEW r \in Run, run'[r] # run[r]
  PROVE  q = r /\ Owns(s, r) /\ run'[r].st = st
BY DEF EndRun, TypeOK

\* A run opens from nothing or from an interruption, ends under an attempt of
\* its owner, and is interrupted only while it runs.
Opens(r) == run[r].st \in {"none", "interrupted"} /\ run'[r].st = "running"
Ends(r) ==
  /\ run[r].st = "running" /\ run'[r].st \in Ended
  /\ \E s \in Slot : slot[s].run = r /\ slot'[s] # slot[s] /\ WorkerOf[s] = run[r].worker
Stops(r) == run[r].st = "running" /\ run'[r].st = "interrupted"

LEMMA RunStep ==
  ASSUME Typed, [Next]_vars, NEW r \in Run, run'[r] # run[r]
  PROVE  Opens(r) \/ Ends(r) \/ Stops(r)
<1> USE DEF queueVars, storeVars, historyVars
<1> TypeOK
  BY DEF Typed
<1>1. ASSUME NEW s \in Slot, Attempt(s)
      PROVE  Opens(r) \/ Ends(r)
  <2>1. CASE Resume(s)
    BY <2>1 DEF Resume, Resumable, OpenRun, Opens, TypeOK
  <2>2. CASE Reserve(s)
    BY <2>2 DEF Reserve, OpenRun, Opens, TypeOK
  <2>3. CASE SkipCapped(s)
    <3>1. slot[s].run = r /\ Owns(s, r) /\ run'[r].st = "skipped"
      BY <2>3, EndRunStep DEF SkipCapped
    <3>2. slot'[s].pc # slot[s].pc
      BY <2>3 DEF SkipCapped, At, Goto, TypeOK
    <3> QED
      BY <3>1, <3>2 DEF Ends, Owns, Ended
  <2>4. CASE Close(s)
    <3>1. slot[s].run = r /\ Owns(s, r) /\ run'[r].st = "completed"
      BY <2>4, EndRunStep DEF Close
    <3>2. slot'[s].pc # slot[s].pc
      BY <2>4 DEF Close, At, Goto, TypeOK
    <3> QED
      BY <3>1, <3>2 DEF Ends, Owns, Ended
  <2>5. CASE Fail(s)
    <3>1. slot[s].run = r /\ Owns(s, r) /\ run'[r].st = "failed"
      BY <2>5, EndRunStep DEF Fail
    <3>2. slot'[s].pc # slot[s].pc
      BY <2>5 DEF Fail, At, Goto, TypeOK
    <3> QED
      BY <3>1, <3>2 DEF Ends, Owns, Ended
  <2> QED
    BY <1>1, <2>1, <2>2, <2>3, <2>4, <2>5 DEF Attempt, Dequeue, AlreadyCompleted, Defer, Refuse,
       Prepare, ReviewFails, CheckRun, CheckLease, Claim, Write, WriteThrows, Record, Refund,
       Finalize, MarkFailed
<1>2. ASSUME NEW s \in Slot, Interrupt(s)
      PROVE  Stops(r)
  BY <1>2, EndRunStep DEF Interrupt, Stops, Owns
<1>3. ASSUME NEW q \in Run, FailStale(q)
      PROVE  Stops(r)
  BY <1>3 DEF FailStale, Stops, TypeOK
<1> QED
  BY <1>1, <1>2, <1>3 DEF Next, Crash, Resolve, RecoverOrphan, Replay, vars

\* A run that completed, failed or was skipped for good never runs again.
THEOREM EndedForGood == Spec => EndedStays
<1>1. ASSUME Typed, [Next]_vars
      PROVE  \A r \in Run : run[r].st \in Ended => run'[r].st = run[r].st
  BY <1>1, RunStep DEF Opens, Ends, Stops, Ended
<1> QED
  BY <1>1, AlwaysTyped, PTL DEF Spec, EndedStays

\* A run ends only by an attempt that works on it in the process that the run
\* records as its owner.
THEOREM OnlyOwnerEnds == Spec => EndedByOwner
<1>1. ASSUME Typed, [Next]_vars
      PROVE  \A r \in Run :
               run[r].st = "running" /\ run'[r].st \in Ended =>
                 \E s \in Slot : /\ slot[s].run = r /\ slot'[s] # slot[s]
                                 /\ WorkerOf[s] = run[r].worker
  <2> SUFFICES ASSUME NEW r \in Run, run[r].st = "running", run'[r].st \in Ended
               PROVE  Ends(r)
    BY DEF Ends
  <2>1. run'[r] # run[r]
    BY DEF Ended
  <2> QED
    BY <1>1, <2>1, RunStep DEF Opens, Stops, Ended
<1> QED
  BY <1>1, AlwaysTyped, PTL DEF Spec, EndedByOwner

-----------------------------------------------------------------------------
(* What a step does to a claim.                                            *)

\* A claim is taken from nothing.  From "publishing" its own attempt moves it on
\* or gives it back, or an operator decides and no attempt moves.
Takes(r) == claim[r].st = "none" /\ claim'[r].st = "publishing"
Settles(r) ==
  /\ claim[r].st = "publishing" /\ claim'[r].st \in {"none", "published"}
  /\ slot'[claim[r].by] # slot[claim[r].by] \/ UNCHANGED slot

LEMMA ClaimStep ==
  ASSUME Typed, [Next]_vars, NEW r \in Run, claim'[r] # claim[r]
  PROVE  Takes(r) \/ Settles(r)
<1> USE DEF queueVars, storeVars, historyVars
<1> TypeOK
  BY DEF Typed
<1>1. ASSUME NEW s \in Slot, Attempt(s)
      PROVE  Takes(r) \/ Settles(r)
  <2>1. CASE Claim(s)
    BY <2>1 DEF Claim, MayClaim, Takes, TypeOK
  <2>2. CASE WriteThrows(s)
    <3>1. slot[s].run = r /\ claim[r] = [st |-> "publishing", by |-> s] /\ claim'[r].st = "none"
      BY <2>2 DEF WriteThrows, ReleaseClaim, HoldsClaim, Unclaimed, TypeOK
    <3>2. slot'[s].pc # slot[s].pc
      BY <2>2 DEF WriteThrows, At, Goto, TypeOK
    <3> QED
      BY <3>1, <3>2 DEF Settles
  <2>3. CASE Record(s)
    <3>1. claim' = [claim EXCEPT ![slot[s].run].st = "published"] /\ HoldsClaim(s, slot[s].run)
      BY <2>3 DEF Record
    <3>2. slot[s].run = r /\ claim'[r].st = "published"
      BY <3>1 DEF TypeOK
    <3>3. slot'[s].pc # slot[s].pc
      BY <2>3 DEF Record, At, Goto, TypeOK
    <3> QED
      BY <3>1, <3>2, <3>3 DEF Settles, HoldsClaim
  <2> QED
    BY <1>1, <2>1, <2>2, <2>3 DEF Attempt, Dequeue, AlreadyCompleted, Resume, SkipCapped, Reserve,
       Defer, Refuse, Prepare, ReviewFails, CheckRun, CheckLease, Write, Close, Fail, Refund,
       Finalize, MarkFailed
<1>2. ASSUME NEW q \in Run, Resolve(q)
      PROVE  Settles(r)
  <2>1. q = r /\ claim'[r].st \in {"none", "published"}
    BY <1>2 DEF Resolve, Unclaimed, TypeOK
  <2> QED
    BY <1>2, <2>1 DEF Resolve, Settles
<1> QED
  BY <1>1, <1>2 DEF Next, Interrupt, Crash, FailStale, RecoverOrphan, Replay, vars

\* A claim changes only by its own attempt or by the operator, and a published
\* one never does.
THEOREM ClaimsFenced == Spec => ClaimFenced
<1>1. ASSUME Typed, [Next]_vars
      PROVE  \A r \in Run : claim'[r] # claim[r] /\ claim[r].st # "none" =>
               /\ claim[r].st = "publishing"
               /\ slot'[claim[r].by] # slot[claim[r].by] \/ UNCHANGED slot
  BY <1>1, ClaimStep DEF Takes, Settles
<1> QED
  BY <1>1, AlwaysTyped, PTL DEF Spec, ClaimFenced

-----------------------------------------------------------------------------
(* A completed run has its review on record.                               *)

\* Whoever is about to close a run has seen its claim published.
CloseBacked == \A s \in Slot : At(s, "close") => claim[slot[s].run].st = "published"

LEMMA PublishedStays ==
  ASSUME Typed, [Next]_vars, NEW r \in Run, claim[r].st = "published"
  PROVE  claim'[r].st = "published"
BY ClaimStep DEF Takes, Settles

\* An attempt comes to "close" by its claim only.
LEMMA CloseStep ==
  ASSUME Typed, [Next]_vars, NEW s \in Slot, At(s, "close")'
  PROVE  \/ At(s, "close") /\ slot'[s] = slot[s]
         \/ slot[s].run \in Run /\ slot'[s].run = slot[s].run /\ claim'[slot[s].run].st = "published"
<1> USE DEF queueVars, storeVars, historyVars, At, Goto, Free
<1> TypeOK
  BY DEF Typed
<1>1. ASSUME NEW t \in Slot, Attempt(t), slot'[s] # slot[s]
      PROVE  slot[s].run \in Run /\ slot'[s].run = slot[s].run /\ claim'[slot[s].run].st = "published"
  <2>1. s = t
    BY <1>1 DEF TypeOK, Attempt, Dequeue, AlreadyCompleted, Resume, SkipCapped, Reserve,
       Defer, Refuse, Prepare, ReviewFails, CheckRun, CheckLease, Claim, Write, WriteThrows,
       Record, Close, Fail, Refund, Finalize, MarkFailed
  <2>2. Claim(s) \/ Record(s)
    BY <1>1, <2>1 DEF TypeOK, Attempt, Dequeue, AlreadyCompleted, Resume, SkipCapped, Reserve,
       Defer, Refuse, Prepare, ReviewFails, CheckRun, CheckLease, Write, WriteThrows,
       Close, Fail, Refund, Finalize, MarkFailed
  <2>3. slot[s].run \in Run
    BY <2>2 DEF Typed, WorksForRun, Working, Claim, Record
  <2>4. CASE Claim(s)
    BY <2>3, <2>4 DEF Claim, PublishedBefore, TypeOK
  <2>5. CASE Record(s)
    <3>1. claim' = [claim EXCEPT ![slot[s].run].st = "published"] /\ slot' = [slot EXCEPT ![s].pc = "close"]
      BY <2>5 DEF Record, TypeOK
    <3> QED
      BY <2>3, <3>1 DEF TypeOK
  <2> QED
    BY <2>2, <2>4, <2>5
<1>2. ASSUME NEW w \in Worker, Crash(w)
      PROVE  slot'[s] = slot[s]
  BY <1>2 DEF Crash, TypeOK
<1> QED
  BY <1>1, <1>2 DEF Next, Interrupt, FailStale, Resolve, RecoverOrphan, Replay, vars

\* Only an attempt about to close completes a run.
LEMMA CompletesByClose ==
  ASSUME Typed, [Next]_vars, NEW r \in Run, run[r].st # "completed", run'[r].st = "completed"
  PROVE  \E s \in Slot : At(s, "close") /\ slot[s].run = r
<1> USE DEF queueVars, storeVars, historyVars
<1> TypeOK
  BY DEF Typed
<1>1. ASSUME NEW s \in Slot, Attempt(s)
      PROVE  At(s, "close") /\ slot[s].run = r
  <2>1. CASE Resume(s) \/ Reserve(s)
    <3>1. PICK q \in Run : OpenRun(s, q)
      BY <2>1 DEF Resume, Reserve, Resumable, TypeOK
    <3> QED
      BY <3>1 DEF OpenRun, TypeOK
  <2>2. CASE SkipCapped(s) \/ Fail(s)
    BY <2>2, EndRunStep DEF SkipCapped, Fail
  <2>3. CASE Close(s)
    BY <2>3, EndRunStep DEF Close
  <2> QED
    BY <1>1, <2>1, <2>2, <2>3 DEF Attempt, Dequeue, AlreadyCompleted, Defer, Refuse,
       Prepare, ReviewFails, CheckRun, CheckLease, Claim, Write, WriteThrows, Record, Refund,
       Finalize, MarkFailed
<1>2. ASSUME NEW s \in Slot, Interrupt(s)
      PROVE  FALSE
  BY <1>2, EndRunStep DEF Interrupt
<1>3. ASSUME NEW q \in Run, FailStale(q)
      PROVE  FALSE
  BY <1>3 DEF FailStale, TypeOK
<1> QED
  BY <1>1, <1>2, <1>3 DEF Next, Crash, Resolve, RecoverOrphan, Replay, vars

\* A completed run has its review on record: claims are published before the
\* run closes and a published claim stays.
THEOREM CompletedPublished == Spec => []CompletedWasPublished
<1> DEFINE Inv == CloseBacked /\ CompletedWasPublished
<1>1. Init => Inv
  BY DEF Init, CloseBacked, CompletedWasPublished, At
<1>2. ASSUME Typed, Inv, [Next]_vars
      PROVE  Inv'
  <2>1. CloseBacked'
    <3> SUFFICES ASSUME NEW s \in Slot, At(s, "close")'
                 PROVE  claim'[slot'[s].run].st = "published"
      BY DEF CloseBacked, At
    <3>1. CASE At(s, "close") /\ slot'[s] = slot[s]
      <4>1. slot[s].run \in Run /\ claim[slot[s].run].st = "published"
        BY <1>2, <3>1 DEF Typed, WorksForRun, Working, At, CloseBacked
      <4> QED
        BY <1>2, <3>1, <4>1, PublishedStays
    <3> QED
      BY <1>2, <3>1, CloseStep
  <2>2. CompletedWasPublished'
    <3> SUFFICES ASSUME NEW r \in Run, run'[r].st = "completed"
                 PROVE  claim'[r].st = "published"
      BY DEF CompletedWasPublished
    <3>1. claim[r].st = "published"
      BY <1>2, CompletesByClose DEF CloseBacked, CompletedWasPublished
    <3> QED
      BY <1>2, <3>1, PublishedStays
  <2> QED
    BY <2>1, <2>2
<1> QED
  BY <1>1, <1>2, AlwaysTyped, PTL DEF Spec

-----------------------------------------------------------------------------
(* A delivered review is paid for.                                         *)

\* A live or completed run without a debit was refunded by an attempt that no
\* longer owned it; every refund by its owner is of a failed or skipped run.
Debited ==
  \A r \in Run :
    run[r].st \in {"running", "interrupted", "completed"} /\ net[r] = 0 => r \in disowned

\* The debit of a run is lost only by a refund.
LEMMA DebitLost ==
  ASSUME Typed, [Next]_vars, NEW r \in Run, net[r] # 0, net'[r] = 0
  PROVE  r \in disowned' \/ (run'[r] = run[r] /\ run[r].st \in {"failed", "skipped"})
<1> USE DEF queueVars, storeVars, historyVars
<1> TypeOK
  BY DEF Typed
<1>1. ASSUME NEW s \in Slot, Refund(s)
      PROVE  r \in disowned' \/ (run'[r] = run[r] /\ run[r].st \in {"failed", "skipped"})
  BY <1>1 DEF Refund, TypeOK
<1>2. ASSUME NEW s \in Slot, Close(s)
      PROVE  FALSE
  BY <1>2 DEF Close, AtMostOne, TypeOK
<1>3. ASSUME NEW s \in Slot, Reserve(s)
      PROVE  FALSE
  BY <1>3 DEF Reserve, TypeOK
<1> QED
  BY <1>1, <1>2, <1>3 DEF Next, Attempt, Dequeue, AlreadyCompleted, Resume, SkipCapped, Defer, Refuse,
     Prepare, ReviewFails, CheckRun, CheckLease, Claim, Write, WriteThrows, Record, Fail, Finalize,
     MarkFailed, Interrupt, KeepDebit, Crash, FailStale, Resolve, RecoverOrphan, Replay, vars

\* A run opens with its debit.
LEMMA OpensPaid ==
  ASSUME Typed, [Next]_vars, NEW r \in Run, run[r].st = "none", run'[r].st # "none"
  PROVE  net'[r] # 0
<1> USE DEF queueVars, storeVars, historyVars
<1> TypeOK
  BY DEF Typed
<1>1. Opens(r) /\ run'[r] # run[r]
  BY RunStep DEF Ends, Stops
<1>2. ASSUME NEW s \in Slot, Attempt(s)
      PROVE  net'[r] # 0
  <2>1. CASE Reserve(s)
    <3>1. PICK q \in Run : OpenRun(s, q) /\ net' = [net EXCEPT ![q] = Units]
      BY <2>1 DEF Reserve
    <3>2. q = r
      BY <1>1, <3>1 DEF OpenRun, TypeOK
    <3> QED
      BY <3>1, <3>2 DEF TypeOK
  <2>2. CASE Resume(s)
    BY <1>1, <2>2 DEF Resume, Resumable, OpenRun, TypeOK
  <2>3. CASE SkipCapped(s) \/ Fail(s) \/ Close(s)
    BY <1>1, <2>3, EndRunStep DEF SkipCapped, Fail, Close, Owns
  <2> QED
    BY <1>1, <1>2, <2>1, <2>2, <2>3 DEF Attempt, Dequeue, AlreadyCompleted, Defer, Refuse,
       Prepare, ReviewFails, CheckRun, CheckLease, Claim, Write, WriteThrows, Record, Refund,
       Finalize, MarkFailed
<1>3. ASSUME NEW s \in Slot, Interrupt(s)
      PROVE  FALSE
  BY <1>1, <1>3, EndRunStep DEF Interrupt, Owns
<1>4. ASSUME NEW q \in Run, FailStale(q)
      PROVE  FALSE
  BY <1>1, <1>4 DEF FailStale, TypeOK
<1> QED
  BY <1>1, <1>2, <1>3, <1>4 DEF Next, Crash, Resolve, RecoverOrphan, Replay, vars

LEMMA DisownedStays ==
  ASSUME [Next]_vars
  PROVE  disowned \subseteq disowned'
<1> USE DEF queueVars, storeVars, historyVars
<1>1. ASSUME NEW s \in Slot, Attempt(s)
      PROVE  disowned \subseteq disowned'
  BY <1>1 DEF Attempt, Dequeue, AlreadyCompleted, Resume, SkipCapped, Reserve, Defer, Refuse,
     Prepare, ReviewFails, CheckRun, CheckLease, Claim, Write, WriteThrows, Record, Close, Fail,
     Refund, Finalize, MarkFailed
<1> QED
  BY <1>1 DEF Next, Interrupt, Crash, FailStale, Resolve, RecoverOrphan, Replay, vars

\* A delivered review is paid for unless an attempt that had lost its run
\* refunded it.
THEOREM DeliveredPaid == Spec => []PaidUnlessDisowned
<1>1. Init => Debited
  BY DEF Init, Debited
<1>2. ASSUME Typed, Debited, [Next]_vars
      PROVE  Debited'
  <2> SUFFICES ASSUME NEW r \in Run, net'[r] = 0,
                      run'[r].st \in {"running", "interrupted", "completed"}
               PROVE  r \in disowned'
    BY DEF Debited
  <2>1. CASE net[r] # 0
    BY <1>2, <2>1, DebitLost
  <2>2. CASE net[r] = 0 /\ run[r].st \in {"running", "interrupted", "completed"}
    BY <1>2, <2>2, DisownedStays DEF Debited
  <2>3. CASE run[r].st \in {"failed", "skipped"}
    BY <1>2, <2>3, RunStep DEF Opens, Ends, Stops
  <2>4. CASE net[r] = 0 /\ run[r].st = "none"
    BY <1>2, <2>4, OpensPaid
  <2> QED
    BY <1>2, <2>1, <2>2, <2>3, <2>4 DEF Typed, TypeOK, Status, Ended
<1>3. Debited => PaidUnlessDisowned
  BY DEF Debited, PaidUnlessDisowned
<1> QED
  BY <1>1, <1>2, <1>3, AlwaysTyped, PTL DEF Spec

-----------------------------------------------------------------------------
(* One GitHub review per run.                                              *)

\* Attempts about to write the review of a run, and the right to write that the
\* row of its claim still stands for.
Writers(r) == {s \in Slot : At(s, "write") /\ slot[s].run = r}
Claimed(r) == IF claim[r].st = "none" THEN 0 ELSE 1

\* Writes done and still to come are covered by the claim, by operators'
\* decisions and by lost replies.
WriteBudget ==
  \A r \in Run :
    posted[r] + Cardinality(Writers(r)) <= resolutions[r] + lostReplies[r] + Claimed(r)

LEMMA WritersFinite ==
  ASSUME NEW r
  PROVE  IsFiniteSet(Writers(r)) /\ Cardinality(Writers(r)) \in Nat
<1>1. Writers(r) \subseteq Slot
  BY DEF Writers
<1> QED
  BY <1>1, FS_Subset, FS_CardinalityType

\* What a step does to that balance for a run: nothing, ...
Quiet(r) ==
  /\ Writers(r)' \subseteq Writers(r)
  /\ posted'[r] = posted[r] /\ resolutions'[r] = resolutions[r] /\ lostReplies'[r] = lostReplies[r]
  /\ claim[r].st # "none" => claim'[r].st # "none"
\* ... an attempt takes the claim, ...
TakesClaim(r, s) ==
  /\ Writers(r)' = Writers(r) \cup {s}
  /\ posted'[r] = posted[r] /\ resolutions'[r] = resolutions[r] /\ lostReplies'[r] = lostReplies[r]
  /\ claim[r].st = "none" /\ claim'[r].st # "none"
\* ... it writes, ...
Writes(r, s) ==
  /\ s \in Writers(r) /\ Writers(r)' = Writers(r) \ {s}
  /\ posted'[r] = posted[r] + 1
  /\ resolutions'[r] = resolutions[r] /\ lostReplies'[r] = lostReplies[r]
  /\ claim'[r] = claim[r]
\* ... its write throws, ...
GivesUp(r, s) ==
  /\ s \in Writers(r) /\ Writers(r)' = Writers(r) \ {s}
  /\ posted'[r] - posted[r] = lostReplies'[r] - lostReplies[r]
  /\ resolutions'[r] = resolutions[r]
\* ... or an operator gives the claim back.
GivenBack(r) ==
  /\ Writers(r)' = Writers(r)
  /\ posted'[r] = posted[r] /\ lostReplies'[r] = lostReplies[r]
  /\ resolutions'[r] = resolutions[r] + 1
  /\ claim[r].st # "none"

\* Only a claim brings an attempt to its write.
LEMMA WriterStep ==
  ASSUME Typed, [Next]_vars, NEW r \in Run, NEW s \in Slot, s \in Writers(r)', s \notin Writers(r)
  PROVE  Claim(s) /\ slot[s].run = r
<1> USE DEF queueVars, storeVars, historyVars, At, Goto, Free, Writers
<1> TypeOK
  BY DEF Typed
<1>1. ASSUME NEW t \in Slot, Attempt(t)
      PROVE  Claim(s) /\ slot[s].run = r
  <2>1. s = t
    BY <1>1 DEF TypeOK, Attempt, Dequeue, AlreadyCompleted, Resume, SkipCapped, Reserve,
       Defer, Refuse, Prepare, ReviewFails, CheckRun, CheckLease, Claim, Write, WriteThrows,
       Record, Close, Fail, Refund, Finalize, MarkFailed
  <2>2. Claim(s)
    BY <1>1, <2>1 DEF TypeOK, Attempt, Dequeue, AlreadyCompleted, Resume, SkipCapped, Reserve,
       Defer, Refuse, Prepare, ReviewFails, CheckRun, CheckLease, Write, WriteThrows,
       Record, Close, Fail, Refund, Finalize, MarkFailed
  <2>3. slot[s].run = r
    BY <2>2 DEF TypeOK, Claim
  <2> QED
    BY <2>2, <2>3
<1>2. ASSUME NEW w \in Worker, Crash(w)
      PROVE  FALSE
  BY <1>2 DEF Crash, TypeOK
<1> QED
  BY <1>1, <1>2 DEF Next, Interrupt, FailStale, Resolve, RecoverOrphan, Replay, vars

\* Without such a claim nobody comes to write.
LEMMA NoNewWriter ==
  ASSUME Typed, [Next]_vars, NEW r \in Run,
         \A s \in Slot : Claim(s) => slot[s].run # r \/ slot'[s].pc # "write"
  PROVE  Writers(r)' \subseteq Writers(r)
<1> SUFFICES ASSUME NEW s \in Slot, s \in Writers(r)', s \notin Writers(r)
             PROVE  FALSE
  BY DEF Writers
<1>1. Claim(s) /\ slot[s].run = r
  BY WriterStep
<1>2. slot'[s].pc = "write"
  BY DEF Writers, At
<1> QED
  BY <1>1, <1>2

\* An attempt that leaves its write is no writer any more; nobody else changes.
LEMMA WriterLeaves ==
  ASSUME TypeOK, NEW s \in Slot, NEW pc \in PC \ {"write"}, At(s, "write"), Goto(s, pc)
  PROVE  \A r \in Run : Writers(r)' = IF slot[s].run = r THEN Writers(r) \ {s} ELSE Writers(r)
BY DEF TypeOK, At, Goto, Writers

LEMMA BalanceStep ==
  ASSUME Typed, [Next]_vars, NEW r \in Run
  PROVE  \/ Quiet(r) \/ GivenBack(r)
         \/ \E s \in Slot : TakesClaim(r, s) \/ Writes(r, s) \/ GivesUp(r, s)
<1> USE DEF queueVars, storeVars, historyVars
<1> TypeOK
  BY DEF Typed
<1>1. ASSUME NEW s \in Slot, Claim(s)
      PROVE  Quiet(r) \/ TakesClaim(r, s)
  <2>1. slot[s].run \in Run /\ At(s, "claim")
    BY <1>1 DEF Typed, WorksForRun, Working, Claim, At
  <2>2. posted' = posted /\ resolutions' = resolutions /\ lostReplies' = lostReplies
    BY <1>1 DEF Claim
  <2>3. \A t \in Slot : t # s => slot'[t] = slot[t]
    BY <1>1 DEF Claim, Goto, TypeOK
  <2>4. CASE MayClaim(s, slot[s].run) /\ slot[s].run = r
    <3>1. claim[r].st = "none" /\ claim'[r].st = "publishing"
      BY <1>1, <2>4 DEF Claim, MayClaim, TypeOK
    <3>2. slot'[s].pc = "write" /\ slot'[s].run = r
      BY <1>1, <2>4 DEF Claim, Goto, TypeOK
    <3>3. Writers(r)' = Writers(r) \cup {s}
      BY <2>3, <3>2 DEF Writers, At
    <3> QED
      BY <2>2, <3>1, <3>3 DEF TakesClaim
  <2>5. CASE ~ (MayClaim(s, slot[s].run) /\ slot[s].run = r)
    <3>1. slot[s].run # r \/ slot'[s].pc # "write"
      BY <1>1, <2>5 DEF Claim, Goto, TypeOK
    <3>2. Writers(r)' \subseteq Writers(r)
      <4>1. slot'[s].run = slot[s].run
        BY <1>1 DEF Claim, Goto, TypeOK
      <4> QED
        BY <2>3, <3>1, <4>1 DEF Writers, At
    <3>3. claim'[r] = claim[r]
      BY <1>1, <2>5 DEF Claim, TypeOK
    <3> QED
      BY <2>2, <3>2, <3>3 DEF Quiet
  <2> QED
    BY <2>4, <2>5
<1>2. ASSUME NEW s \in Slot, Write(s)
      PROVE  Quiet(r) \/ Writes(r, s)
  <2>1. Writers(r)' = IF slot[s].run = r THEN Writers(r) \ {s} ELSE Writers(r)
    BY <1>2, WriterLeaves DEF Write, PC
  <2>2. slot[s].run = r => s \in Writers(r)
    BY <1>2 DEF Write, Writers
  <2>3. /\ claim' = claim /\ resolutions' = resolutions /\ lostReplies' = lostReplies
        /\ posted'[r] = IF slot[s].run = r THEN posted[r] + 1 ELSE posted[r]
    BY <1>2 DEF Write, TypeOK
  <2> QED
    BY <2>1, <2>2, <2>3 DEF Quiet, Writes
<1>3. ASSUME NEW s \in Slot, WriteThrows(s)
      PROVE  Quiet(r) \/ GivesUp(r, s)
  <2>1. Writers(r)' = IF slot[s].run = r THEN Writers(r) \ {s} ELSE Writers(r)
    BY <1>3, WriterLeaves DEF WriteThrows, PC
  <2>2. slot[s].run = r => s \in Writers(r)
    BY <1>3 DEF WriteThrows, Writers
  <2>3. resolutions' = resolutions /\ posted'[r] - posted[r] = lostReplies'[r] - lostReplies[r]
    BY <1>3 DEF WriteThrows, TypeOK
  <2>4. slot[s].run # r => claim'[r] = claim[r] /\ posted'[r] = posted[r] /\ lostReplies'[r] = lostReplies[r]
    BY <1>3 DEF WriteThrows, ReleaseClaim, TypeOK
  <2> QED
    BY <2>1, <2>2, <2>3, <2>4 DEF Quiet, GivesUp
<1>4. ASSUME NEW q \in Run, Resolve(q)
      PROVE  Quiet(r) \/ GivenBack(r)
  <2>1. slot' = slot /\ posted' = posted /\ lostReplies' = lostReplies
    BY <1>4 DEF Resolve
  <2>2. Writers(r)' = Writers(r)
    BY <2>1 DEF Writers, At
  <2>3. CASE q = r /\ resolutions' = [resolutions EXCEPT ![q] = @ + 1]
    BY <1>4, <2>1, <2>2, <2>3 DEF Resolve, GivenBack, TypeOK
  <2>4. CASE q = r /\ claim' = [claim EXCEPT ![q].st = "published"] /\ resolutions' = resolutions
    <3>1. claim'[r].st = "published"
      BY <2>4 DEF TypeOK
    <3> QED
      BY <2>1, <2>2, <2>4, <3>1 DEF Quiet
  <2>5. CASE q # r
    <3>1. claim'[r] = claim[r] /\ resolutions'[r] = resolutions[r]
      BY <1>4, <2>5 DEF Resolve, TypeOK
    <3> QED
      BY <2>1, <2>2, <3>1 DEF Quiet
  <2> QED
    BY <1>4, <2>3, <2>4, <2>5 DEF Resolve
<1>5. ASSUME UNCHANGED <<posted, resolutions, lostReplies>>,
             \A s \in Slot : ~ Claim(s),
             claim'[r] = claim[r] \/ claim'[r].st # "none"
      PROVE  Quiet(r)
  BY <1>5, NoNewWriter DEF Quiet
<1>6. ASSUME NEW s \in Slot, Record(s)
      PROVE  claim'[r] = claim[r] \/ claim'[r].st # "none"
  <2>1. CASE claim' = claim
    BY <2>1
  <2>2. CASE claim' = [claim EXCEPT ![slot[s].run].st = "published"]
    BY <2>2 DEF TypeOK
  <2> QED
    BY <1>6, <2>1, <2>2 DEF Record
<1>7. UNCHANGED <<posted, resolutions, lostReplies, claim>>
      \/ (\E s \in Slot : Claim(s) \/ Write(s) \/ WriteThrows(s) \/ Record(s))
      \/ (\E q \in Run : Resolve(q))
  BY DEF Next, Attempt, Dequeue, AlreadyCompleted, Resume, SkipCapped, Reserve, Defer, Refuse,
     Prepare, ReviewFails, CheckRun, CheckLease, Close, Fail, Refund, Finalize, MarkFailed,
     Interrupt, Crash, FailStale, RecoverOrphan, Replay, vars
<1>8. ASSUME NEW s \in Slot, Record(s)
      PROVE  UNCHANGED <<posted, resolutions, lostReplies>>
  BY <1>8 DEF Record
<1> QED
  BY <1>1, <1>2, <1>3, <1>4, <1>5, <1>6, <1>7, <1>8

LEMMA BudgetKept ==
  ASSUME Typed, WriteBudget, [Next]_vars
  PROVE  WriteBudget'
<1> SUFFICES ASSUME NEW r \in Run
             PROVE  posted'[r] + Cardinality(Writers(r)')
                      <= resolutions'[r] + lostReplies'[r] + Claimed(r)'
  BY DEF WriteBudget
<1> DEFINE W == Writers(r)
<1>1. /\ posted[r] \in Nat /\ resolutions[r] \in Nat /\ lostReplies[r] \in Nat
      /\ posted'[r] \in Nat /\ resolutions'[r] \in Nat /\ lostReplies'[r] \in Nat
  BY StepTyped DEF Typed, TypeOK
<1>2. IsFiniteSet(W) /\ Cardinality(W) \in Nat
  BY WritersFinite
<1>3. posted[r] + Cardinality(W) <= resolutions[r] + lostReplies[r] + Claimed(r)
  BY DEF WriteBudget
<1>4. Claimed(r) \in {0, 1} /\ Claimed(r)' \in {0, 1}
  BY DEF Claimed
<1>5. CASE Quiet(r)
  <2>1. Cardinality(W') \in Nat /\ Cardinality(W') <= Cardinality(W)
    BY <1>2, <1>5, FS_Subset, FS_CardinalityType DEF Quiet
  <2>2. Claimed(r) <= Claimed(r)'
    BY <1>5 DEF Quiet, Claimed
  <2> HIDE DEF W
  <2> QED
    BY <1>1, <1>2, <1>3, <1>4, <1>5, <2>1, <2>2 DEF Quiet, W
<1>6. CASE GivenBack(r)
  <2>1. W' = W /\ Claimed(r) = 1
    BY <1>6 DEF GivenBack, Claimed
  <2> QED
    BY <1>1, <1>2, <1>3, <1>4, <1>6, <2>1 DEF GivenBack
<1>7. ASSUME NEW s \in Slot, TakesClaim(r, s)
      PROVE  posted'[r] + Cardinality(W') <= resolutions'[r] + lostReplies'[r] + Claimed(r)'
  <2>1. Cardinality(W') \in Nat /\ Cardinality(W') <= Cardinality(W) + 1
    <3>1. W' = W \cup {s}
      BY <1>7 DEF TakesClaim
    <3>2. Cardinality(W \cup {s}) = IF s \in W THEN Cardinality(W) ELSE Cardinality(W) + 1
      BY <1>2, FS_AddElement
    <3> QED
      BY <1>2, <3>1, <3>2
  <2>2. Claimed(r) = 0 /\ Claimed(r)' = 1
    BY <1>7 DEF TakesClaim, Claimed
  <2> QED
    BY <1>1, <1>2, <1>3, <1>7, <2>1, <2>2 DEF TakesClaim
<1>8. ASSUME NEW s \in Slot, Writes(r, s)
      PROVE  posted'[r] + Cardinality(W') <= resolutions'[r] + lostReplies'[r] + Claimed(r)'
  <2>1. Cardinality(W') \in Nat /\ Cardinality(W') = Cardinality(W) - 1
    BY <1>2, <1>8, FS_RemoveElement, FS_CardinalityType DEF Writes
  <2>2. Claimed(r) = Claimed(r)'
    BY <1>8 DEF Writes, Claimed
  <2> QED
    BY <1>1, <1>2, <1>3, <1>4, <1>8, <2>1, <2>2 DEF Writes
<1>9. ASSUME NEW s \in Slot, GivesUp(r, s)
      PROVE  posted'[r] + Cardinality(W') <= resolutions'[r] + lostReplies'[r] + Claimed(r)'
  <2>1. Cardinality(W') \in Nat /\ Cardinality(W') = Cardinality(W) - 1
    BY <1>2, <1>9, FS_RemoveElement, FS_CardinalityType DEF GivesUp
  <2> QED
    BY <1>1, <1>2, <1>3, <1>4, <1>9, <2>1 DEF GivesUp
<1> QED
  BY <1>5, <1>6, <1>7, <1>8, <1>9, BalanceStep

\* The publication claim makes the GitHub review of a run exactly-once up to
\* operators' decisions and lost replies.
THEOREM OneWrite == Spec => []OneWritePerRun
<1>1. Init => WriteBudget
  <2> SUFFICES ASSUME Init, NEW r \in Run
               PROVE  posted[r] + Cardinality(Writers(r)) <= resolutions[r] + lostReplies[r] + Claimed(r)
    BY DEF WriteBudget
  <2>1. Writers(r) = {}
    BY DEF Init, Writers, At
  <2> QED
    BY <2>1, FS_EmptySet DEF Init, Claimed, Unclaimed
<1>2. Typed /\ WriteBudget /\ [Next]_vars => WriteBudget'
  BY BudgetKept
<1>3. ASSUME Typed, WriteBudget
      PROVE  OneWritePerRun
  <2> SUFFICES ASSUME NEW r \in Run
               PROVE  posted[r] <= 1 + resolutions[r] + lostReplies[r]
    BY DEF OneWritePerRun
  <2>1. /\ posted[r] \in Nat /\ resolutions[r] \in Nat /\ lostReplies[r] \in Nat
        /\ Cardinality(Writers(r)) \in Nat /\ Claimed(r) \in {0, 1}
    BY <1>3, WritersFinite DEF Typed, TypeOK, Claimed
  <2> QED
    BY <1>3, <2>1 DEF WriteBudget
<1> QED
  BY <1>1, <1>2, <1>3, AlwaysTyped, PTL DEF Spec

=============================================================================
