-------------------------- MODULE ReviewPassesProofs --------------------------
(***************************************************************************)
(* Proofs about ReviewPasses, for every lineup, every size of the diff,    *)
(* every budget and every load of the providers.  The plan's side of       *)
(* coverage is a fact about the selection of the calls alone               *)
(* (RequiredKept: no budget and no sampling drops a required unit); the    *)
(* attempt's side is an invariant that ties outcomes to answers (Inv).     *)
(***************************************************************************)
EXTENDS ReviewPasses, FiniteSetTheorems, TLAPS

USE PlansAssumption

-----------------------------------------------------------------------------
(* The lineup.                                                             *)

LEMMA CallsFinite ==
  ASSUME NEW p \in Plans
  PROVE  IsFiniteSet(boundHighTierDiscoveryWorkloads(p))
<1> DEFINE D == (1..Len(p.passes)) \X (0..p.chunks)
           f == [x \in D |-> [pass |-> x[1], chunk |-> x[2], run |-> 0]]
           T == {f[x] : x \in D}
<1>1. IsFiniteSet(D)
  <2>1. Len(p.passes) \in Int /\ p.chunks \in Int
    OBVIOUS
  <2>2. IsFiniteSet(1..Len(p.passes)) /\ IsFiniteSet(0..p.chunks)
    BY <2>1, FS_Interval
  <2> QED BY <2>2, FS_Product
<1>2. f \in Surjection(D, T)
  <2> HIDE DEF D
  <2> QED BY DEF Surjection
<1>3. IsFiniteSet(T)
  <2> HIDE DEF D, T, f
  <2> QED BY <1>1, <1>2, FS_Surjection
<1>4. boundHighTierDiscoveryWorkloads(p) \subseteq T
  <2> SUFFICES ASSUME NEW c \in boundHighTierDiscoveryWorkloads(p)
               PROVE  c \in T
    OBVIOUS
  <2>1. PICK i \in DOMAIN p.passes :
          c \in {[pass |-> i, chunk |-> k, run |-> 0] : k \in ChunksOf(p, i)}
    BY DEF boundHighTierDiscoveryWorkloads
  <2>2. PICK k \in ChunksOf(p, i) : c = [pass |-> i, chunk |-> k, run |-> 0]
    BY <2>1
  <2>3. <<i, k>> \in D
    BY DEF ChunksOf
  <2>4. f[<<i, k>>] = c
    <3> HIDE DEF D
    <3> QED BY <2>2, <2>3
  <2> QED BY <2>3, <2>4
<1> QED BY <1>3, <1>4, FS_Subset

\* A review takes at least one sample.
LEMMA OneSample ==
  ASSUME NEW p \in Plans
  PROVE  0 \in 0..(fitReviewAggregationToBudget(p) - 1)
<1> DEFINE calls == boundHighTierDiscoveryWorkloads(p)
           lens == {c \in calls : IsLens(p, c)}
           perSample == Cardinality(lens)
           reserved == Smaller(Cardinality(calls) - perSample, Larger(0, p.maxCalls - perSample))
           quotient == Larger(0, p.maxCalls - reserved) \div perSample
           fits == Smaller(p.runs, quotient)
<1>1. Cardinality(calls) \in Nat /\ perSample \in Nat
  BY CallsFinite, FS_CardinalityType, FS_Subset, lens \subseteq calls
<1>2. p.maxCalls \in Nat /\ p.runs \in Nat
  OBVIOUS
<1> HIDE DEF calls, lens, perSample
<1>3. reserved \in Int
  BY <1>1, <1>2 DEF Smaller, Larger
<1>4. Larger(0, p.maxCalls - reserved) \in Nat
  <2> HIDE DEF reserved
  <2> QED BY <1>2, <1>3 DEF Larger
<1> HIDE DEF reserved
<1>5. perSample > 0 => quotient \in Int
  BY <1>1, <1>4
<1> HIDE DEF quotient
<1>6. perSample > 0 => fits \in Int
  BY <1>2, <1>5 DEF Smaller
<1> HIDE DEF fits
<1>7. fitReviewAggregationToBudget(p)
        = IF p.runs > 1 /\ perSample > 0 /\ fits >= MinRuns THEN fits ELSE 1
  BY DEF fitReviewAggregationToBudget, fits, quotient, reserved, perSample, lens, calls
<1>8. MinRuns \in Nat /\ MinRuns >= 2
  OBVIOUS
<1> QED BY <1>6, <1>7, <1>8

\* No budget, no sampling and no chunking loses a required unit.
LEMMA RequiredKept ==
  ASSUME NEW p \in Plans, NEW u \in RequiredUnits(p)
  PROVE  \E c \in selectScheduledReviewCalls(p) : Required(p, c) /\ Unit(c) = u
<1>0. PICK i \in DOMAIN p.passes :
        /\ p.passes[i].kind = "pass" /\ ~p.passes[i].bestEffort
        /\ u \in {<<i, k>> : k \in ChunksOf(p, i)}
  BY DEF RequiredUnits
<1>1. PICK k \in ChunksOf(p, i) : u = <<i, k>>
  BY <1>0
<1> DEFINE c == [pass |-> i, chunk |-> k, run |-> 0]
<1>2. c \in boundHighTierDiscoveryWorkloads(p)
  BY DEF boundHighTierDiscoveryWorkloads
<1>3. [c EXCEPT !.run = 0] = c
  OBVIOUS
<1>4. c \in Repeated(p)
  BY <1>2, <1>3, OneSample DEF Repeated
<1>5. Required(p, c) /\ Unit(c) = u
  BY <1>0, <1>1 DEF Required, PassOf, Unit
<1>6. c \in selectScheduledReviewCalls(p)
  BY <1>4, <1>5 DEF selectScheduledReviewCalls, takeReviewCallsByPriority
<1> QED BY <1>5, <1>6

-----------------------------------------------------------------------------
(* A lane always has a slot, and never more than its share.                *)

LEMMA ParallelismBounds ==
  ASSUME NEW load \in Loads \cup {NoLoad}
  PROVE  reviewProviderParallelism(load) \in 1..ApiConcurrency
<1>1. CASE load = NoLoad \/ load.limit <= 0
  BY <1>1 DEF reviewProviderParallelism
<1>2. CASE ~(load = NoLoad \/ load.limit <= 0)
  <2> DEFINE free == Larger(0, load.limit - load.active)
             busy == (load.active + ApiConcurrency - 1) \div ApiConcurrency
             share == Larger(free, 1) \div (busy + 1)
  <2>1. load.active \in Nat /\ load.limit \in Nat /\ ApiConcurrency \in Nat \ {0}
    BY <1>2
  <2>2. free \in Nat /\ Larger(free, 1) \in Nat
    BY <2>1 DEF Larger
  <2>3. busy \in Nat
    <3>1. load.active + ApiConcurrency - 1 \in Nat
      BY <2>1
    <3> QED BY <2>1, <3>1
  <2> HIDE DEF free, busy
  <2>4. share \in Int
    BY <2>2, <2>3
  <2> HIDE DEF share
  <2>5. Smaller(ApiConcurrency, Larger(1, share)) \in 1..ApiConcurrency
    BY <2>1, <2>4 DEF Smaller, Larger
  <2>6. reviewProviderParallelism(load)
          = IF 2 * load.active < load.limit /\ free >= ApiConcurrency
            THEN ApiConcurrency
            ELSE Smaller(ApiConcurrency, Larger(1, share))
    BY <1>2 DEF reviewProviderParallelism, free, busy, share
  <2> QED BY <2>1, <2>5, <2>6
<1> QED BY <1>1, <1>2

-----------------------------------------------------------------------------
(* Type correctness.  An attempt has no lineup before it is set up, and    *)
(* the plan's selection from then on to its end.                           *)

Selected ==
  /\ phase = "setup" => toRun = {}
  /\ phase \in {"batch", "wait", "retry", "judge"} => toRun = selectScheduledReviewCalls(plan)

Typed == TypeOK /\ Selected

LEMMA InitTyped == Init => Typed
<1> SUFFICES ASSUME Init PROVE Typed
  OBVIOUS
<1>1. width \in [Buckets -> 1..ApiConcurrency]
  BY DEF Init, Idle
<1>2. attempts \in 0..MaxJobRetries /\ replays \in Nat
  BY DEF Init
<1> QED BY <1>1, <1>2 DEF Init, Typed, TypeOK, Selected, Phases

LEMMA RetryInLineup ==
  ASSUME NEW out
  PROVE  RetryCalls(out) \subseteq toRun
BY DEF RetryCalls, RequiredCalls

\* What the worker's catch changes.
LEMMA ThrowEffect ==
  ASSUME Typed, NEW e, Throw(e)
  PROVE  /\ phase' \in {"queued", "over"} /\ (result' # result => phase' = "over")
         /\ result' \in {result, "failed"}
         /\ attempts' \in 0..MaxJobRetries /\ replays' \in Nat
         /\ UNCHANGED <<plan, toRun, batch, outcomes, answered, paid, prOpen, closed, lost>>
<1>1. attempts \in 0..MaxJobRetries /\ replays \in Nat /\ MaxJobRetries \in {0, 1}
  BY DEF Typed, TypeOK
<1>2. CASE shouldRequeueAdmissionFailure(e, 0)
  BY <1>1, <1>2 DEF Throw
<1>3. CASE ~shouldRequeueAdmissionFailure(e, 0) /\ isTransientLlmError(e)
             /\ attempts + 1 <= MaxJobRetries
  BY <1>1, <1>3 DEF Throw
<1>4. CASE ~shouldRequeueAdmissionFailure(e, 0)
             /\ ~(isTransientLlmError(e) /\ attempts + 1 <= MaxJobRetries)
  BY <1>1, <1>4 DEF Throw
<1> QED BY <1>2, <1>3, <1>4

\* A step that touches neither the lineup, the batch nor its outcomes.
LEMMA MoveTyped ==
  ASSUME Typed, UNCHANGED <<plan, toRun, todo, running, ended, width, outcomes, answered>>,
         phase' \in Phases \ {"setup"},
         phase' \in {"batch", "wait", "retry", "judge"}
           => phase \in {"batch", "wait", "retry", "judge"},
         paid' \in BOOLEAN, prOpen' \in BOOLEAN, closed' \in BOOLEAN, lost' \in BOOLEAN,
         attempts' \in 0..MaxJobRetries, replays' \in Nat,
         result' \in {"none", "published", "skipped", "failed"}
  PROVE  Typed'
<1>1. selectScheduledReviewCalls(plan)' = selectScheduledReviewCalls(plan)
  OBVIOUS
<1>2. requiredCoverageKeys' = requiredCoverageKeys
  BY DEF requiredCoverageKeys, RequiredCalls
<1> QED BY <1>1, <1>2 DEF Typed, TypeOK, Selected

LEMMA ThrowTyped ==
  ASSUME Typed, NEW e, Throw(e)
  PROVE  Typed'
<1>1. result' \in {"none", "published", "skipped", "failed"}
  BY ThrowEffect DEF Typed, TypeOK
<1>2. UNCHANGED <<plan, toRun, todo, running, ended, width, outcomes, answered, paid, prOpen, closed, lost>>
  BY ThrowEffect DEF batch
<1>3. phase' \in Phases \ {"setup"} /\ phase' \notin {"batch", "wait", "retry", "judge"}
  BY ThrowEffect DEF Phases
<1> QED BY <1>1, <1>2, <1>3, ThrowEffect, MoveTyped DEF Typed, TypeOK

LEMMA FinishTyped ==
  ASSUME Typed, NEW how \in {"published", "skipped"}, Finish(how)
  PROVE  Typed'
<1>1. UNCHANGED <<plan, toRun, todo, running, ended, width, outcomes, answered, paid, prOpen, closed,
                  lost, attempts, replays>>
  BY DEF Finish, batch
<1>2. phase' = "over" /\ result' = how
  BY DEF Finish
<1> QED BY <1>1, <1>2, MoveTyped DEF Typed, TypeOK, Phases

LEMMA StageTyped ==
  ASSUME Typed, NEW next \in {"wait", "judge", "verify", "publish"}, MoveTo(next),
         UNCHANGED <<toRun, batch>>,
         next \in {"wait", "judge"} => phase \in {"batch", "wait", "retry", "judge"}
  PROVE  Typed'
<1>1. UNCHANGED <<plan, toRun, todo, running, ended, width, outcomes, answered, paid, prOpen, closed,
                  lost, attempts, replays, result>>
  BY DEF MoveTo, batch
<1>2. phase' = next
  BY DEF MoveTo
<1> QED BY <1>1, <1>2, MoveTyped DEF Typed, TypeOK, Phases

LEMMA StartTyped ==
  ASSUME Typed, NEW calls, NEW next, StartBatch(calls, next)
  PROVE  /\ todo' = calls /\ running' = {} /\ ended' = {}
         /\ width' \in [Buckets -> 1..ApiConcurrency]
         /\ phase' = next
         /\ UNCHANGED <<plan, outcomes, answered, paid, prOpen, closed, lost, attempts, replays, result>>
BY ParallelismBounds DEF StartBatch, MoveTo

\* What a call that settles leaves behind.
LEMMA RecordTyped ==
  ASSUME Typed, NEW c \in todo, NEW answer \in Answers \cup {"unstarted"}, Record(c, answer)
  PROVE  /\ ended' \subseteq todo
         /\ outcomes' \subseteq [call : toRun, round : {1, 2}, answer : Answers \cup {"unstarted"}]
<1>1. c \in toRun /\ Round \in {1, 2}
  BY DEF Typed, TypeOK, Round
<1>2. [call |-> c, round |-> Round, answer |-> answer]
        \in [call : toRun, round : {1, 2}, answer : Answers \cup {"unstarted"}]
  BY <1>1
<1> HIDE DEF Round
<1> QED BY <1>2 DEF Record, Typed, TypeOK

LEMMA SetupDoneTyped == ASSUME Typed, SetupDone PROVE Typed'
<1>1. CASE plan.passes = <<>>
  BY <1>1, StageTyped DEF SetupDone
<1>2. CASE plan.passes # <<>>
  <2>1. toRun' = selectScheduledReviewCalls(plan) /\ StartBatch(toRun', "batch") /\ phase = "setup"
    BY <1>2 DEF SetupDone
  <2>2. outcomes = {} /\ answered = {}
    BY <2>1 DEF Typed, TypeOK, Selected, requiredCoverageKeys, RequiredCalls
  <2>3. /\ todo' = toRun' /\ running' = {} /\ ended' = {}
        /\ width' \in [Buckets -> 1..ApiConcurrency]
        /\ phase' = "batch"
        /\ UNCHANGED <<plan, outcomes, answered, paid, prOpen, closed, lost, attempts, replays, result>>
    BY <2>1, StartTyped
  <2>4. selectScheduledReviewCalls(plan)' = selectScheduledReviewCalls(plan)
    BY <2>3
  <2> QED BY <2>1, <2>2, <2>3, <2>4 DEF Typed, TypeOK, Selected, Phases
<1> QED BY <1>1, <1>2

LEMMA WaitOverTyped == ASSUME Typed, WaitOver PROVE Typed'
<1>1. StartBatch(RetryCalls(outcomes), "retry") /\ UNCHANGED toRun /\ phase = "wait"
  BY DEF WaitOver
<1>2. /\ todo' = RetryCalls(outcomes) /\ running' = {} /\ ended' = {}
      /\ width' \in [Buckets -> 1..ApiConcurrency]
      /\ phase' = "retry"
      /\ UNCHANGED <<plan, outcomes, answered, paid, prOpen, closed, lost, attempts, replays, result>>
  BY <1>1, StartTyped
<1>3. todo' \subseteq toRun'
  BY <1>1, <1>2, RetryInLineup
<1>4. requiredCoverageKeys' = requiredCoverageKeys
  BY <1>1, <1>2 DEF requiredCoverageKeys, RequiredCalls
<1>5. selectScheduledReviewCalls(plan)' = selectScheduledReviewCalls(plan)
  BY <1>2
<1> QED BY <1>1, <1>2, <1>3, <1>4, <1>5 DEF Typed, TypeOK, Selected, Phases

LEMMA SkipCallTyped == ASSUME Typed, NEW c \in todo, SkipCall(c) PROVE Typed'
<1>1. Record(c, IF closed THEN "unstarted" ELSE "failed")
  BY DEF SkipCall
<1>2. /\ ended' \subseteq todo
      /\ outcomes' \subseteq [call : toRun, round : {1, 2}, answer : Answers \cup {"unstarted"}]
  BY <1>1, RecordTyped DEF Answers
<1>3. running \cap ended' = {}
  BY DEF SkipCall, MayStart, Record, Typed, TypeOK
<1>4. UNCHANGED <<plan, toRun, phase, todo, running, width, answered, paid, prOpen, closed, lost,
                  attempts, replays, result>>
  BY DEF SkipCall
<1>5. requiredCoverageKeys' = requiredCoverageKeys
      /\ selectScheduledReviewCalls(plan)' = selectScheduledReviewCalls(plan)
  BY <1>4 DEF requiredCoverageKeys, RequiredCalls
<1> QED BY <1>2, <1>3, <1>4, <1>5 DEF Typed, TypeOK, Selected

LEMMA StartCallTyped == ASSUME Typed, NEW c \in todo, StartCall(c) PROVE Typed'
<1>1. /\ running' = running \cup {c} /\ c \notin ended
      /\ UNCHANGED <<plan, toRun, phase, todo, ended, width, outcomes, answered, paid, prOpen, closed,
                     lost, attempts, replays, result>>
  BY DEF StartCall, MayStart
<1>2. requiredCoverageKeys' = requiredCoverageKeys
      /\ selectScheduledReviewCalls(plan)' = selectScheduledReviewCalls(plan)
  BY <1>1 DEF requiredCoverageKeys, RequiredCalls
<1> QED BY <1>1, <1>2 DEF Typed, TypeOK, Selected

LEMMA EndCallTyped ==
  ASSUME Typed, NEW c \in todo, NEW answer \in Answers, EndCall(c, answer)
  PROVE  Typed'
<1>1. /\ Record(c, answer) /\ running' = running \ {c}
      /\ answered' = IF answer = "ok" /\ Required(plan, c) THEN answered \cup {Unit(c)} ELSE answered
      /\ paid' = (paid \/ answer \in {"ok", "degraded"})
      /\ UNCHANGED <<plan, toRun, phase, todo, width, prOpen, closed, lost, attempts, replays, result>>
  BY DEF EndCall
<1>2. /\ ended' \subseteq todo
      /\ outcomes' \subseteq [call : toRun, round : {1, 2}, answer : Answers \cup {"unstarted"}]
  BY <1>1, RecordTyped
<1>3. running' \cap ended' = {}
  BY <1>1 DEF Record, Typed, TypeOK
<1>4. requiredCoverageKeys' = requiredCoverageKeys
      /\ selectScheduledReviewCalls(plan)' = selectScheduledReviewCalls(plan)
  BY <1>1 DEF requiredCoverageKeys, RequiredCalls
<1>5. answered' \subseteq requiredCoverageKeys
  BY <1>1 DEF Typed, TypeOK, requiredCoverageKeys, RequiredCalls
<1>6. paid' \in BOOLEAN
  BY <1>1 DEF Typed, TypeOK
<1> QED BY <1>1, <1>2, <1>3, <1>4, <1>5, <1>6 DEF Typed, TypeOK, Selected

LEMMA RetryDoneTyped == ASSUME Typed, RetryDone PROVE Typed'
<1>1. /\ phase = "retry" /\ phase' = "judge" /\ outcomes' \subseteq outcomes
      /\ UNCHANGED <<plan, toRun, todo, running, ended, width, answered, paid, prOpen, closed, lost,
                     attempts, replays, result>>
  BY DEF RetryDone, mergeOutcomes, batch
<1>2. requiredCoverageKeys' = requiredCoverageKeys
      /\ selectScheduledReviewCalls(plan)' = selectScheduledReviewCalls(plan)
  BY <1>1 DEF requiredCoverageKeys, RequiredCalls
<1> QED BY <1>1, <1>2 DEF Typed, TypeOK, Selected, Phases

LEMMA JudgeCases ==
  ASSUME Judge
  PROVE  \/ closed /\ Finish("skipped")
         \/ \E e \in {NothingSucceededError, IncompleteError} : Throw(e)
         \/ /\ failedRequiredCoverageKeys(outcomes) = {}
            /\ MoveTo("verify") /\ UNCHANGED <<toRun, batch>>
<1>1. CASE closed
  BY <1>1 DEF Judge
<1>2. CASE ~closed /\ NothingSucceeded
  BY <1>2 DEF Judge
<1>3. CASE ~closed /\ ~NothingSucceeded /\ failedRequiredCoverageKeys(outcomes) # {}
  BY <1>3 DEF Judge
<1>4. CASE ~closed /\ ~NothingSucceeded /\ failedRequiredCoverageKeys(outcomes) = {}
  BY <1>4 DEF Judge
<1> QED BY <1>1, <1>2, <1>3, <1>4

LEMMA PublishCases ==
  ASSUME Publish
  PROVE  \/ \E e \in {Failure("other")} : Throw(e)
         \/ Finish("skipped")
         \/ ~lost /\ ~closed /\ Finish("published")
BY DEF Publish

LEMMA StageStepTyped == ASSUME Typed, StageSteps PROVE Typed'
<1>1. CASE SetupDone
  BY <1>1, SetupDoneTyped
<1>2. CASE SetupFails
  BY <1>2, ThrowTyped DEF SetupFails
<1>3. CASE BatchDone
  BY <1>3, StageTyped DEF BatchDone
<1>4. CASE WaitOver
  BY <1>4, WaitOverTyped
<1>5. CASE WaitCancelled
  BY <1>5, ThrowTyped DEF WaitCancelled
<1>6. CASE RetryDone
  BY <1>6, RetryDoneTyped
<1>7. CASE Judge
  BY <1>7, JudgeCases, ThrowTyped, FinishTyped, StageTyped
<1>8. CASE VerificationDone
  BY <1>8, StageTyped DEF VerificationDone
<1>9. CASE VerificationFails
  BY <1>9, ThrowTyped DEF VerificationFails
<1>10. CASE Publish
  BY <1>10, PublishCases, ThrowTyped, FinishTyped
<1> QED BY <1>1, <1>2, <1>3, <1>4, <1>5, <1>6, <1>7, <1>8, <1>9, <1>10 DEF StageSteps

LEMMA WorldTyped ==
  ASSUME Typed, ClosePullRequest \/ cancelClosedReview \/ cancelForOwnershipLoss
  PROVE  Typed'
<1>1. UNCHANGED <<plan, toRun, phase, todo, running, ended, width, outcomes, answered, paid,
                  attempts, replays, result>>
  BY DEF ClosePullRequest, cancelClosedReview, cancelForOwnershipLoss, batch
<1>2. prOpen' \in BOOLEAN /\ closed' \in BOOLEAN /\ lost' \in BOOLEAN
  BY DEF ClosePullRequest, cancelClosedReview, cancelForOwnershipLoss, Typed, TypeOK
<1>3. requiredCoverageKeys' = requiredCoverageKeys
      /\ selectScheduledReviewCalls(plan)' = selectScheduledReviewCalls(plan)
  BY <1>1 DEF requiredCoverageKeys, RequiredCalls
<1> QED BY <1>1, <1>2, <1>3 DEF Typed, TypeOK, Selected

LEMMA StartAgainTyped == ASSUME Typed, StartAgain PROVE Typed'
<1>1. width' \in [Buckets -> 1..ApiConcurrency]
  BY DEF StartAgain, Idle
<1> QED BY <1>1 DEF StartAgain, Typed, TypeOK, Selected, Phases

LEMMA NextTyped == ASSUME Typed, [Next]_vars PROVE Typed'
<1>1. CASE CallSteps
  BY <1>1, SkipCallTyped, StartCallTyped, EndCallTyped DEF CallSteps
<1>2. CASE StageSteps
  BY <1>2, StageStepTyped
<1>3. CASE StartAgain
  BY <1>3, StartAgainTyped
<1>4. CASE ClosePullRequest \/ cancelClosedReview \/ cancelForOwnershipLoss
  BY <1>4, WorldTyped
<1>5. CASE UNCHANGED vars
  <2>1. UNCHANGED <<plan, phase, toRun, todo, running, ended, width, outcomes, answered, paid, prOpen,
                    closed, lost, attempts, replays, result>>
    BY <1>5 DEF vars, batch
  <2>2. requiredCoverageKeys' = requiredCoverageKeys
        /\ selectScheduledReviewCalls(plan)' = selectScheduledReviewCalls(plan)
    BY <2>1 DEF requiredCoverageKeys, RequiredCalls
  <2> QED BY <2>1, <2>2 DEF Typed, TypeOK, Selected
<1> QED BY <1>1, <1>2, <1>3, <1>4, <1>5 DEF Next

\* Every reachable state is well typed: the calls in flight are the batch's,
\* the batch is the plan's, and every lane has between one slot and the
\* policy's concurrency.
THEOREM PassesTypeCorrect == Spec => []TypeOK
<1>1. Spec => []Typed
  BY InitTyped, NextTyped, PTL DEF Spec
<1>2. Typed => TypeOK
  BY DEF Typed
<1> QED BY <1>1, <1>2, PTL

-----------------------------------------------------------------------------
(* Coverage.  An ok outcome of a required call is an answer of this        *)
(* attempt, however outcomes were merged (Backed); past the judgement the  *)
(* plan's units are answered, and they stay so until the job starts again  *)
(* (Covered); a retry's calls are of units its batch did not answer        *)
(* (Missing).                                                              *)

Backed == \A o \in outcomes : Ok(o) /\ Required(plan, o.call) => Unit(o.call) \in answered
Covered ==
  phase \in {"verify", "publish"} \/ result = "published" => RequiredUnits(plan) \subseteq answered
Decided ==
  /\ result # "none" => phase = "over"
  /\ result = "published" => ~closed /\ ~lost
Missing ==
  phase = "retry" =>
    \A c \in todo : Required(plan, c) /\ Unit(c) \notin AnsweredIn(1)

Inv == Typed /\ Backed /\ Covered /\ Decided /\ Missing

LEMMA InitInv == Init => Inv
BY InitTyped DEF Init, Inv, Backed, Covered, Decided, Missing

\* A required call's unit is one the attempt must cover.
LEMMA UnitRequired ==
  ASSUME NEW c \in toRun, Unit(c) \in requiredCoverageKeys
  PROVE  Required(plan, c)
BY DEF requiredCoverageKeys, RequiredCalls, Unit, Required, PassOf

\* A judgement that finds nothing missing has every unit of the plan.
LEMMA NothingMissing ==
  ASSUME Inv, phase \in {"batch", "wait", "retry", "judge"},
         failedRequiredCoverageKeys(outcomes) = {}
  PROVE  RequiredUnits(plan) \subseteq answered
<1> SUFFICES ASSUME NEW u \in RequiredUnits(plan) PROVE u \in answered
  OBVIOUS
<1>1. toRun = selectScheduledReviewCalls(plan) /\ plan \in Plans
  BY DEF Inv, Typed, TypeOK, Selected
<1>2. u \in requiredCoverageKeys
  BY <1>1, RequiredKept DEF requiredCoverageKeys, RequiredCalls
<1>3. PICK o \in outcomes : Unit(o.call) = u /\ Ok(o)
  BY <1>2 DEF failedRequiredCoverageKeys
<1>4. o.call \in toRun
  BY DEF Inv, Typed, TypeOK
<1>5. Required(plan, o.call)
  BY <1>2, <1>3, <1>4, UnitRequired
<1> QED BY <1>3, <1>5 DEF Inv, Backed

\* A step that keeps the outcomes and the answers.
LEMMA QuietInv ==
  ASSUME Inv, Typed', UNCHANGED <<plan, outcomes, answered>>,
         Covered', Decided', Missing'
  PROVE  Inv'
BY DEF Inv, Backed, Ok, Required, PassOf, Unit

LEMMA ThrowInv ==
  ASSUME Inv, phase # "over", NEW e, Throw(e)
  PROVE  Inv'
<1>1. Typed'
  BY ThrowTyped DEF Inv
<1>2. result = "none"
  BY DEF Inv, Decided
<1>3. /\ phase' \in {"queued", "over"} /\ (result' # result => phase' = "over")
      /\ result' \in {result, "failed"}
      /\ UNCHANGED <<plan, outcomes, answered>>
  BY ThrowEffect DEF Inv
<1>4. Covered' /\ Decided' /\ Missing'
  BY <1>2, <1>3 DEF Covered, Decided, Missing
<1> QED BY <1>1, <1>3, <1>4, QuietInv

LEMMA SkippedInv == ASSUME Inv, phase # "over", Finish("skipped") PROVE Inv'
<1>1. Typed'
  BY FinishTyped DEF Inv
<1>2. phase' = "over" /\ result' = "skipped" /\ UNCHANGED <<plan, outcomes, answered>>
  BY DEF Finish
<1>3. Covered' /\ Decided' /\ Missing'
  BY <1>2 DEF Covered, Decided, Missing
<1> QED BY <1>1, <1>2, <1>3, QuietInv

LEMMA PublishedInv ==
  ASSUME Inv, phase = "publish", ~lost, ~closed, Finish("published")
  PROVE  Inv'
<1>1. Typed'
  BY FinishTyped DEF Inv
<1>2. phase' = "over" /\ result' = "published" /\ UNCHANGED <<plan, outcomes, answered, closed, lost>>
  BY DEF Finish
<1>3. Covered'
  BY <1>2 DEF Inv, Covered, RequiredUnits, ChunksOf
<1>4. Decided' /\ Missing'
  BY <1>2 DEF Decided, Missing
<1> QED BY <1>1, <1>2, <1>3, <1>4, QuietInv

\* From one stage to the next; the plan's units are answered where the next
\* is past the judgement.
LEMMA StageInv ==
  ASSUME Inv, NEW next \in {"wait", "judge", "verify", "publish"}, MoveTo(next),
         UNCHANGED <<toRun, batch>>, phase # "over",
         next \in {"wait", "judge"} => phase = "batch",
         next \in {"verify", "publish"} => RequiredUnits(plan) \subseteq answered
  PROVE  Inv'
<1>1. Typed'
  BY StageTyped DEF Inv
<1>2. phase' = next /\ UNCHANGED <<plan, outcomes, answered, result>>
  BY DEF MoveTo
<1>3. result = "none"
  BY DEF Inv, Decided
<1>4. Covered'
  BY <1>2, <1>3 DEF Covered, RequiredUnits, ChunksOf
<1>5. Decided' /\ Missing'
  BY <1>2, <1>3 DEF Decided, Missing
<1> QED BY <1>1, <1>2, <1>4, <1>5, QuietInv

\* Outcomes of the second round leave those of the first as they were.
LEMMA EndInv ==
  ASSUME Inv, NEW c \in todo, NEW answer \in Answers, EndCall(c, answer)
  PROVE  Inv'
<1> DEFINE new == [call |-> c, round |-> Round, answer |-> answer]
<1>1. Typed'
  BY EndCallTyped DEF Inv
<1>2. /\ outcomes' = outcomes \cup {new}
      /\ answered' = IF answer = "ok" /\ Required(plan, c) THEN answered \cup {Unit(c)} ELSE answered
      /\ phase \in {"batch", "retry"}
      /\ UNCHANGED <<plan, phase, todo, closed, lost, result>>
  BY DEF EndCall, Record
<1>3. Backed'
  BY <1>2 DEF Inv, Backed, Ok, Required, PassOf, Unit
<1>4. Covered' /\ Decided'
  BY <1>2 DEF Inv, Covered, Decided
<1>5. Missing'
  <2> SUFFICES ASSUME phase = "retry" PROVE Missing'
    BY <1>2 DEF Missing
  <2>1. new.round = 2
    BY DEF Round
  <2>2. AnsweredIn(1)' = AnsweredIn(1)
    <3> HIDE DEF new
    <3> QED BY <1>2, <2>1 DEF AnsweredIn, Ok, Required, PassOf, Unit
  <2> QED BY <1>2, <2>2 DEF Inv, Missing, Required, PassOf, Unit
<1> QED BY <1>1, <1>3, <1>4, <1>5 DEF Inv

LEMMA SkipInv == ASSUME Inv, NEW c \in todo, SkipCall(c) PROVE Inv'
<1> DEFINE answer == IF closed THEN "unstarted" ELSE "failed"
           new == [call |-> c, round |-> Round, answer |-> answer]
<1>1. Typed'
  BY SkipCallTyped DEF Inv
<1>2. /\ outcomes' = outcomes \cup {new}
      /\ phase \in {"batch", "retry"}
      /\ UNCHANGED <<plan, phase, todo, answered, closed, lost, result>>
  BY DEF SkipCall, Record
<1>3. ~Ok(new)
  BY DEF Ok
<1> HIDE DEF new
<1>4. Backed' /\ Covered' /\ Decided'
  BY <1>2, <1>3 DEF Inv, Backed, Covered, Decided, Ok, Required, PassOf, Unit
<1>5. AnsweredIn(1)' = AnsweredIn(1)
  BY <1>2, <1>3 DEF AnsweredIn, Ok, Required, PassOf, Unit
<1>6. Missing'
  BY <1>2, <1>5 DEF Inv, Missing, Required, PassOf, Unit
<1> QED BY <1>1, <1>4, <1>6 DEF Inv

LEMMA WaitOverInv == ASSUME Inv, WaitOver PROVE Inv'
<1>1. Typed'
  BY WaitOverTyped DEF Inv
<1>2. phase = "wait" /\ StartBatch(RetryCalls(outcomes), "retry")
  BY DEF WaitOver
<1>3. /\ todo' = RetryCalls(outcomes) /\ phase' = "retry"
      /\ UNCHANGED <<plan, outcomes, answered, closed, lost, result>>
  BY <1>2, StartTyped DEF Inv
<1>4. Missing'
  <2> SUFFICES ASSUME NEW c \in RetryCalls(outcomes)
               PROVE  Required(plan, c) /\ Unit(c) \notin AnsweredIn(1)
    BY <1>3 DEF Missing, AnsweredIn, Ok, Required, PassOf, Unit
  <2>1. Required(plan, c) /\ Unit(c) \in failedRequiredCoverageKeys(outcomes)
    BY DEF RetryCalls, RequiredCalls
  <2>2. ASSUME NEW o \in outcomes, Ok(o), Required(plan, o.call), Unit(o.call) = Unit(c)
        PROVE  FALSE
    BY <2>1, <2>2 DEF failedRequiredCoverageKeys, BestEffort, Required
  <2> QED BY <2>1, <2>2 DEF AnsweredIn
<1>5. Covered' /\ Decided'
  BY <1>2, <1>3 DEF Inv, Covered, Decided
<1> QED BY <1>1, <1>3, <1>4, <1>5, QuietInv

LEMMA RetryDoneInv == ASSUME Inv, RetryDone PROVE Inv'
<1>1. Typed'
  BY RetryDoneTyped DEF Inv
<1>2. /\ outcomes' \subseteq outcomes /\ phase = "retry" /\ phase' = "judge"
      /\ UNCHANGED <<plan, answered, closed, lost, result>>
  BY DEF RetryDone, mergeOutcomes
<1> QED BY <1>1, <1>2 DEF Inv, Backed, Covered, Decided, Missing, Ok, Required, PassOf, Unit

LEMMA SetupDoneInv == ASSUME Inv, SetupDone PROVE Inv'
<1>1. CASE plan.passes = <<>>
  <2>1. RequiredUnits(plan) = {}
    BY <1>1 DEF RequiredUnits
  <2>2. MoveTo("verify") /\ UNCHANGED <<toRun, batch>> /\ phase = "setup"
    BY <1>1 DEF SetupDone
  <2> QED BY <2>1, <2>2, StageInv
<1>2. CASE plan.passes # <<>>
  <2>1. StartBatch(toRun', "batch") /\ phase = "setup"
    BY <1>2 DEF SetupDone
  <2>2. phase' = "batch" /\ UNCHANGED <<plan, outcomes, answered, closed, lost, result>>
    BY <2>1, StartTyped DEF Inv
  <2>3. Typed'
    BY SetupDoneTyped DEF Inv
  <2>4. Covered' /\ Decided' /\ Missing'
    BY <2>1, <2>2 DEF Inv, Covered, Decided, Missing
  <2> QED BY <2>2, <2>3, <2>4, QuietInv
<1> QED BY <1>1, <1>2

LEMMA StageStepInv == ASSUME Inv, StageSteps PROVE Inv'
<1>1. CASE SetupDone
  BY <1>1, SetupDoneInv
<1>2. CASE SetupFails
  BY <1>2, ThrowInv DEF SetupFails
<1>3. CASE BatchDone
  BY <1>3, StageInv DEF BatchDone
<1>4. CASE WaitOver
  BY <1>4, WaitOverInv
<1>5. CASE WaitCancelled
  BY <1>5, ThrowInv DEF WaitCancelled
<1>6. CASE RetryDone
  BY <1>6, RetryDoneInv
<1>7. CASE Judge
  <2>1. phase = "judge"
    BY <1>7 DEF Judge
  <2>2. CASE failedRequiredCoverageKeys(outcomes) = {} /\ MoveTo("verify") /\ UNCHANGED <<toRun, batch>>
    BY <2>1, <2>2, NothingMissing, StageInv
  <2> QED BY <1>7, <2>1, <2>2, JudgeCases, ThrowInv, SkippedInv
<1>8. CASE VerificationDone
  BY <1>8, StageInv DEF VerificationDone, Inv, Covered
<1>9. CASE VerificationFails
  BY <1>9, ThrowInv DEF VerificationFails
<1>10. CASE Publish
  <2>1. phase = "publish"
    BY <1>10 DEF Publish
  <2> QED BY <1>10, <2>1, PublishCases, ThrowInv, SkippedInv, PublishedInv
<1> QED BY <1>1, <1>2, <1>3, <1>4, <1>5, <1>6, <1>7, <1>8, <1>9, <1>10 DEF StageSteps

LEMMA StartCallInv == ASSUME Inv, NEW c \in todo, StartCall(c) PROVE Inv'
<1>1. Typed'
  BY StartCallTyped DEF Inv
<1>2. UNCHANGED <<plan, phase, todo, outcomes, answered, closed, lost, result>>
  BY DEF StartCall
<1>3. Covered' /\ Decided'
  BY <1>2 DEF Inv, Covered, Decided
<1>4. Missing'
  BY <1>2 DEF Inv, Missing, AnsweredIn, Ok, Required, PassOf, Unit
<1> QED BY <1>1, <1>2, <1>3, <1>4, QuietInv

LEMMA WorldInv ==
  ASSUME Inv, ClosePullRequest \/ cancelClosedReview \/ cancelForOwnershipLoss
  PROVE  Inv'
<1>1. Typed'
  BY WorldTyped DEF Inv
<1>2. UNCHANGED <<plan, phase, todo, outcomes, answered, result>>
  BY DEF ClosePullRequest, cancelClosedReview, cancelForOwnershipLoss, batch
<1>3. UNCHANGED <<closed, lost>> \/ phase # "over"
  BY DEF ClosePullRequest, cancelClosedReview, cancelForOwnershipLoss, Attempting
<1>4. Covered' /\ Decided'
  BY <1>2, <1>3 DEF Inv, Covered, Decided
<1>5. Missing'
  BY <1>2 DEF Inv, Missing, AnsweredIn, Ok, Required, PassOf, Unit
<1> QED BY <1>1, <1>2, <1>4, <1>5, QuietInv

LEMMA NextInv == ASSUME Inv, [Next]_vars PROVE Inv'
<1>1. CASE CallSteps
  BY <1>1, SkipInv, StartCallInv, EndInv DEF CallSteps
<1>2. CASE StageSteps
  BY <1>2, StageStepInv
<1>3. CASE StartAgain
  <2>1. Typed'
    BY <1>3, StartAgainTyped DEF Inv
  <2>2. outcomes' = {} /\ phase' = "setup" /\ result' = result /\ result = "none"
    BY <1>3 DEF StartAgain, Inv, Decided
  <2> QED BY <2>1, <2>2 DEF Inv, Backed, Covered, Decided, Missing
<1>4. CASE ClosePullRequest \/ cancelClosedReview \/ cancelForOwnershipLoss
  BY <1>4, WorldInv
<1>5. CASE UNCHANGED vars
  <2>1. UNCHANGED <<plan, phase, todo, outcomes, answered, closed, lost, result>>
    BY <1>5 DEF vars, batch
  <2>2. Typed'
    BY <1>5, NextTyped DEF Inv
  <2>3. Covered' /\ Decided'
    BY <2>1 DEF Inv, Covered, Decided
  <2>4. Missing'
    BY <2>1 DEF Inv, Missing, AnsweredIn, Ok, Required, PassOf, Unit
  <2> QED BY <2>1, <2>2, <2>3, <2>4, QuietInv
<1> QED BY <1>1, <1>2, <1>3, <1>4, <1>5 DEF Next

LEMMA InvHolds == Spec => []Inv
BY InitInv, NextInv, PTL DEF Spec

\* A published review has an answer for every required pass of its plan on
\* every chunk of the diff, whatever the plan, the budget, the samples and the
\* retry; its close was not known and its run was owned.
THEOREM ReviewsAreCovered == Spec => []PublishedCovered
<1>1. Inv => PublishedCovered
  BY DEF Inv, Covered, Decided, PublishedCovered
<1> QED BY <1>1, InvHolds, PTL

\* The retry starts no call of a unit that the batch answered.
THEOREM RetriesBuyMissing == Spec => RetryBuysMissing
<1> DEFINE Buys == phase = "retry" =>
             \A c \in running' \ running : Required(plan, c) /\ Unit(c) \notin AnsweredIn(1)
<1>1. ASSUME Inv, [Next]_vars PROVE Buys
  <2> SUFFICES ASSUME phase = "retry", NEW c \in running' \ running
               PROVE  Required(plan, c) /\ Unit(c) \notin AnsweredIn(1)
    OBVIOUS
  <2>1. c \in todo
    <3>1. Typed' /\ running' \subseteq todo'
      BY <1>1, NextTyped DEF Inv, Typed, TypeOK
    <3>2. todo' = todo
      <4>1. CASE CallSteps
        BY <4>1 DEF CallSteps, SkipCall, StartCall, EndCall
      <4>2. CASE RetryDone
        BY <4>2 DEF RetryDone, batch
      <4>3. CASE ClosePullRequest \/ cancelClosedReview \/ cancelForOwnershipLoss \/ UNCHANGED vars
        BY <4>3 DEF ClosePullRequest, cancelClosedReview, cancelForOwnershipLoss, batch, vars
      <4> QED BY <1>1, <4>1, <4>2, <4>3 DEF Next, StageSteps, SetupDone, SetupFails, BatchDone,
                WaitOver, WaitCancelled, Judge, VerificationDone, VerificationFails, Publish, StartAgain
    <3> QED BY <3>1, <3>2
  <2> QED BY <1>1, <2>1 DEF Inv, Missing
<1>2. Inv /\ [Next]_vars => Buys
  BY <1>1
<1> HIDE DEF Buys
<1>3. Spec => [][Buys]_vars
  BY <1>2, InvHolds, PTL DEF Spec
<1> QED BY <1>3 DEF Buys, RetryBuysMissing

=============================================================================
