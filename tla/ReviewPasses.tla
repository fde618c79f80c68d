---- MODULE ReviewPasses ----
(***************************************************************************)
(* The paid passes of one review: the lineup the plan buys, the concurrent *)
(* batch that runs it, the one surgical retry of what is missing, the      *)
(* judgement on coverage, verification, and what the worker does with a    *)
(* review that throws.  The publication protocol behind Publish is         *)
(* ReviewRun's; here it is the check that guards it and one step.          *)
(*                                                                         *)
(* A call is [pass, chunk, run]: the position of its pass in the plan, the *)
(* chunk of the diff it reads (0: the whole diff) and its sample.  What a  *)
(* provider answers is one of Answers; a call that was cancelled before it *)
(* started has the outcome "unstarted".  An error is the two facts the     *)
(* worker reads from its text: whether it says "refusing to publish" and   *)
(* what kind of failure its wording names.                                 *)
(***************************************************************************)
EXTENDS Integers, Sequences, FiniteSets

CONSTANTS
  Plans,            \* the lineups a plan can compile to
  Buckets,          \* the admission buckets of the providers
  ApiConcurrency,   \* executionPolicy.concurrency
  Loads,            \* what getProviderLoad may report: [active, limit], or NoLoad
  NoLoad,
  MinRuns,          \* fewest samples worth aggregating (5 in the code)
  MaxJobRetries,    \* whole-review retries of the worker, 0 or 1
  RequeueCap,       \* ADMISSION_JOB_REQUEUE_CAP (8 in the code)
  MaxStarts         \* bound: attempts of the job that are explored

Pass == [kind : {"pass", "sweep"}, tag : {"lens", "investigate", "risk"},
         mode : {"agentic", "investigate", "api"}, bestEffort : BOOLEAN, bucket : Buckets]

ASSUME PlansAssumption ==
  /\ \A p \in Plans : /\ p.passes \in Seq(Pass)
                      /\ p.chunks \in Nat \ {0}
                      /\ p.runs \in Nat \ {0}
                      /\ p.maxCalls \in Nat
  /\ Loads \subseteq [active : Nat, limit : Nat]
  /\ ApiConcurrency \in Nat \ {0}
  /\ MinRuns \in Nat \ {0, 1}
  /\ MaxJobRetries \in {0, 1}
  /\ RequeueCap \in Nat \ {0}
  /\ MaxStarts \in Nat \ {0}

Answers == {"ok", "degraded", "transient", "capacity", "failed"}
Phases == {"setup", "batch", "wait", "retry", "judge", "verify", "publish", "queued", "over"}

VARIABLES
  plan, phase,
  toRun,                  \* the lineup of this attempt
  todo, running, ended,   \* the batch in hand: its calls, those in flight, those done
  width,                  \* per bucket: calls of one lane in flight at once
  outcomes,               \* what the batches returned: [call, round, answer]
  answered,               \* coverage units a required call answered in this attempt
  paid,                   \* a provider has answered a call of this attempt
  prOpen,                 \* GitHub: the pull request is open
  closed,                 \* prClosedMidRun
  lost,                   \* runOwnershipLost
  attempts,               \* job.attempts
  replays,                \* times the job was put back without counting an attempt
  result

batch == <<todo, running, ended, width>>
vars == <<plan, phase, toRun, batch, outcomes, answered, paid, prOpen, closed, lost,
          attempts, replays, result>>

Larger(a, b) == IF a >= b THEN a ELSE b
Smaller(a, b) == IF a <= b THEN a ELSE b

-----------------------------------------------------------------------------
(* The lineup. *)

PassOf(p, c) == p.passes[c.pass]
Required(p, c) == PassOf(p, c).kind = "pass" /\ ~PassOf(p, c).bestEffort
IsLens(p, c) == PassOf(p, c).kind = "pass" /\ PassOf(p, c).tag = "lens"

(* The coverage unit a call stands for: its pass and its chunk; its sample  *)
(* does not count.                                                          *)
Unit(c) == <<c.pass, c.chunk>>

(* Only a required API pass is cut, into every chunk of the diff. *)
ChunksOf(p, i) ==
  IF p.passes[i].kind = "pass" /\ p.passes[i].mode = "api" /\ ~p.passes[i].bestEffort
  THEN 1..p.chunks
  ELSE {0}

boundHighTierDiscoveryWorkloads(p) ==
  UNION {{[pass |-> i, chunk |-> k, run |-> 0] : k \in ChunksOf(p, i)} : i \in DOMAIN p.passes}

(* Aggregation needs MinRuns whole samples within what the single calls     *)
(* leave of the budget; otherwise the review is the normal one sample.      *)
fitReviewAggregationToBudget(p) ==
  LET calls == boundHighTierDiscoveryWorkloads(p)
      perSample == Cardinality({c \in calls : IsLens(p, c)})
      reserved == Smaller(Cardinality(calls) - perSample, Larger(0, p.maxCalls - perSample))
      fits == Smaller(p.runs, Larger(0, p.maxCalls - reserved) \div perSample)
  IN  IF p.runs > 1 /\ perSample > 0 /\ fits >= MinRuns THEN fits ELSE 1

Repeated(p) ==
  UNION {IF IsLens(p, c)
         THEN {[c EXCEPT !.run = r] : r \in 0..(fitReviewAggregationToBudget(p) - 1)}
         ELSE {c} : c \in boundHighTierDiscoveryWorkloads(p)}

(* The order calls are funded and started in: required passes, optional     *)
(* lenses, sweeps, the investigation, the risk probes.                      *)
Rank(p, c) ==
  CASE Required(p, c)                        -> 0
    [] PassOf(p, c).kind = "sweep"           -> 2
    [] PassOf(p, c).tag = "investigate"      -> 3
    [] PassOf(p, c).tag = "risk"             -> 4
    [] OTHER                                 -> 1

RunsBefore(p, c, d) ==
  \/ Rank(p, c) < Rank(p, d)
  \/ /\ Rank(p, c) = Rank(p, d)
     /\ \/ c.run < d.run
        \/ c.run = d.run /\ c.pass < d.pass
        \/ c.run = d.run /\ c.pass = d.pass /\ c.chunk < d.chunk

takeReviewCallsByPriority(p, core, optional, maxCalls) ==
  core \cup {c \in optional :
               Cardinality({d \in optional : RunsBefore(p, d, c)})
                 < Larger(0, maxCalls - Cardinality(core))}

selectScheduledReviewCalls(p) ==
  LET calls == Repeated(p)
      core == {c \in calls : Required(p, c)}
  IN  takeReviewCallsByPriority(p, core, calls \ core, p.maxCalls)

(* What the plan promises to cover, said of the plan alone. *)
RequiredUnits(p) ==
  UNION {{<<i, k>> : k \in ChunksOf(p, i)} :
           i \in {j \in DOMAIN p.passes : p.passes[j].kind = "pass" /\ ~p.passes[j].bestEffort}}

(* toRun is what the plan's selection put there when the attempt was set up. *)
RequiredCalls == {c \in toRun : Required(plan, c)}
requiredCoverageKeys == {Unit(c) : c \in RequiredCalls}

-----------------------------------------------------------------------------
(* Who may start next.  mapConcurrent starts its items in order and has at  *)
(* most `limit` of them, and always one, unfinished.                        *)

MapConcurrentLimit(limit) == Larger(1, limit)

(* As it would be if a busy provider could leave a review no slot at all. *)
UnclampedParallelism(load) ==
  IF load = NoLoad \/ load.limit <= 0 THEN ApiConcurrency
  ELSE Smaller(ApiConcurrency,
               Larger(0, load.limit - load.active)
                 \div (((load.active + ApiConcurrency - 1) \div ApiConcurrency) + 1))

reviewProviderParallelism(load) ==
  IF load = NoLoad \/ load.limit <= 0 THEN ApiConcurrency
  ELSE LET free == Larger(0, load.limit - load.active)
           peers == ((load.active + ApiConcurrency - 1) \div ApiConcurrency) + 1
       IN  IF 2 * load.active < load.limit /\ free >= ApiConcurrency
           THEN ApiConcurrency
           ELSE Smaller(ApiConcurrency, Larger(1, Larger(free, 1) \div peers))

OfMode(mode) == {c \in todo : PassOf(plan, c).mode = mode}
Lane(b) == {c \in OfMode("api") : PassOf(plan, c).bucket = b}
Lanes == {b \in Buckets : Lane(b) # {}}
Unfinished(S) == S \ ended

Ahead(c, S) == {d \in S : RunsBefore(plan, d, c)}

(* One perspective's chunks take turns with the others' in a lane. *)
Perspective(c, d) ==
  IF PassOf(plan, c).kind = "sweep"
  THEN PassOf(plan, d).kind = "sweep"
  ELSE c.pass = d.pass /\ c.run = d.run
Group(c, S) == {d \in S : Perspective(c, d)}
Turn(c, S) == Cardinality({d \in Group(c, S) : RunsBefore(plan, d, c)})
interleaveProviderLane(c, S) ==
  {d \in S : \/ Turn(d, S) < Turn(c, S)
             \/ /\ Turn(d, S) = Turn(c, S)
                /\ \E e \in Group(d, S) : \A f \in Group(c, S) : RunsBefore(plan, e, f)}

LanesAhead(b) ==
  {d \in Lanes : \E e \in Lane(d) : \A f \in Lane(b) : RunsBefore(plan, e, f)}
LaneOpen(b) ==
  Cardinality({d \in LanesAhead(b) : Unfinished(Lane(d)) # {}})
    < MapConcurrentLimit(Smaller(ApiConcurrency, Cardinality(Lanes)))

Next1(c, before, limit) ==
  /\ before \subseteq running \cup ended
  /\ Cardinality(Unfinished(before)) < MapConcurrentLimit(limit)

MayStart(c) ==
  /\ c \in todo \ (running \cup ended)
  /\ CASE PassOf(plan, c).mode = "api" ->
            LET b == PassOf(plan, c).bucket
            IN  LaneOpen(b) /\ Next1(c, interleaveProviderLane(c, Lane(b)), width[b])
       [] OTHER -> Next1(c, Ahead(c, OfMode(PassOf(plan, c).mode)), 1)

-----------------------------------------------------------------------------
(* What the outcomes say. *)

Ok(o) == o.answer = "ok"
BestEffort(o) == PassOf(plan, o.call).bestEffort

(* As it would be if any chunk of a lens covered its siblings. *)
FailedLenses(out) ==
  {u \in requiredCoverageKeys :
     \A o \in out : o.call.pass = u[1] /\ ~BestEffort(o) => ~Ok(o)}

failedRequiredCoverageKeys(out) ==
  {u \in requiredCoverageKeys :
     \A o \in out : Unit(o.call) = u /\ ~BestEffort(o) => ~Ok(o)}

FailedOutcomes(out) ==
  {o \in out : /\ Unit(o.call) \in failedRequiredCoverageKeys(out)
               /\ ~BestEffort(o) /\ ~Ok(o)}

AdmissionBlocked(out) ==
  FailedOutcomes(out) # {} /\ \A o \in FailedOutcomes(out) : o.answer = "capacity"
IsTransient(o) == o.answer \in {"transient", "capacity"}
HadSuccessfulRequiredPass(out) == \E o \in out : Ok(o) /\ ~BestEffort(o)

(* As it would be if the retry ran every required pass again. *)
RetryAll(out) == RequiredCalls

RetryCalls(out) == {c \in RequiredCalls : Unit(c) \in failedRequiredCoverageKeys(out)}

(* The retry is worth its money when something was bought and what is       *)
(* missing failed for want of capacity or in transport.                     *)
RetryWorthwhile(out) ==
  /\ failedRequiredCoverageKeys(out) # {}
  /\ (\E o \in FailedOutcomes(out) : IsTransient(o)) \/ AdmissionBlocked(out)
  /\ HadSuccessfulRequiredPass(out)
  /\ RetryCalls(out) # {}

(* Only a chunk's outcomes are replaced by its retry; a whole-diff pass has *)
(* no coverage key and keeps both.                                          *)
mergeOutcomes(out) ==
  {o \in out : ~(/\ o.round = 1
                 /\ o.call.chunk # 0
                 /\ \E n \in out : n.round = 2 /\ Unit(n.call) = Unit(o.call))}

-----------------------------------------------------------------------------
(* An attempt of the job. *)

TypeOK ==
  /\ plan \in Plans
  /\ phase \in Phases
  /\ toRun \in {{}, selectScheduledReviewCalls(plan)}
  /\ todo \subseteq toRun /\ running \subseteq todo /\ ended \subseteq todo
  /\ running \cap ended = {}
  /\ width \in [Buckets -> 1..ApiConcurrency]
  /\ outcomes \subseteq [call : toRun, round : {1, 2}, answer : Answers \cup {"unstarted"}]
  /\ answered \subseteq requiredCoverageKeys
  /\ paid \in BOOLEAN /\ prOpen \in BOOLEAN /\ closed \in BOOLEAN /\ lost \in BOOLEAN
  /\ attempts \in 0..MaxJobRetries
  /\ replays \in Nat
  /\ result \in {"none", "published", "skipped", "failed"}

aborted == closed \/ lost
Round == IF phase = "retry" THEN 2 ELSE 1
Attempting == phase \notin {"queued", "over"}

Idle == [b \in Buckets |-> ApiConcurrency]

Init ==
  /\ plan \in Plans
  /\ phase = "setup" /\ toRun = {}
  /\ todo = {} /\ running = {} /\ ended = {} /\ width = Idle
  /\ outcomes = {} /\ answered = {} /\ paid = FALSE
  /\ prOpen = TRUE /\ closed = FALSE /\ lost = FALSE
  /\ attempts = 0 /\ replays = 0 /\ result = "none"

Errors == [refusing : BOOLEAN, kind : {"capacity", "transient", "other"}]

shouldRequeueAdmissionFailure(error, counted) ==
  /\ ~(error.refusing /\ error.kind # "capacity")
  /\ error.kind = "capacity"
  /\ counted < RequeueCap

isTransientLlmError(error) == ~error.refusing /\ error.kind \in {"capacity", "transient"}

(* The worker's catch: a failure of admission puts the job back as it is;   *)
(* the count it passes is the constant 0.                                   *)
Throw(error) ==
  /\ CASE shouldRequeueAdmissionFailure(error, 0) ->
            phase' = "queued" /\ replays' = replays + 1 /\ UNCHANGED <<attempts, result>>
       [] /\ ~shouldRequeueAdmissionFailure(error, 0)
          /\ isTransientLlmError(error) /\ attempts + 1 <= MaxJobRetries ->
            phase' = "queued" /\ attempts' = attempts + 1 /\ UNCHANGED <<replays, result>>
       [] OTHER ->
            phase' = "over" /\ result' = "failed" /\ UNCHANGED <<attempts, replays>>
  /\ UNCHANGED <<plan, toRun, batch, outcomes, answered, paid, prOpen, closed, lost>>

Refusal(kind) == [refusing |-> TRUE, kind |-> kind]
Failure(kind) == [refusing |-> FALSE, kind |-> kind]

Finish(how) ==
  /\ phase' = "over" /\ result' = how
  /\ UNCHANGED <<plan, toRun, batch, outcomes, answered, paid, prOpen, closed, lost, attempts, replays>>

MoveTo(next) ==
  /\ phase' = next
  /\ UNCHANGED <<plan, outcomes, answered, paid, prOpen, closed, lost, attempts, replays, result>>

(* executeReviewProviderCalls: lanes peek at the load of their provider. *)
StartBatch(calls, next) ==
  /\ todo' = calls /\ running' = {} /\ ended' = {}
  /\ \E load \in [Buckets -> Loads \cup {NoLoad}] :
       width' = [b \in Buckets |-> reviewProviderParallelism(load[b])]
  /\ MoveTo(next)

(* Readiness, checkout and scheduling; a review without a reviewable file   *)
(* buys no pass.                                                            *)
SetupDone ==
  /\ phase = "setup"
  /\ IF plan.passes = <<>>
     THEN MoveTo("verify") /\ UNCHANGED <<toRun, batch>>
     ELSE toRun' = selectScheduledReviewCalls(plan) /\ StartBatch(toRun', "batch")

SetupFails ==
  /\ phase = "setup"
  /\ \E kind \in {"capacity", "transient", "other"} : Throw(Failure(kind))

(* As it would be if a call that was cancelled before its start never       *)
(* settled.                                                                 *)
RecordStarted(c, answer) ==
  IF answer = "unstarted" THEN UNCHANGED <<outcomes, ended>>
  ELSE /\ outcomes' = outcomes \cup {[call |-> c, round |-> Round, answer |-> answer]}
       /\ ended' = ended \cup {c}

Record(c, answer) ==
  /\ outcomes' = outcomes \cup {[call |-> c, round |-> Round, answer |-> answer]}
  /\ ended' = ended \cup {c}

(* runOne returns at once when the close is known; after an ownership loss  *)
(* the transport refuses before it dispatches.                              *)
SkipCall(c) ==
  /\ phase \in {"batch", "retry"} /\ MayStart(c) /\ aborted
  /\ Record(c, IF closed THEN "unstarted" ELSE "failed")
  /\ UNCHANGED <<plan, toRun, phase, todo, running, width, answered, paid, prOpen, closed, lost,
                 attempts, replays, result>>

StartCall(c) ==
  /\ phase \in {"batch", "retry"} /\ MayStart(c) /\ ~aborted
  /\ running' = running \cup {c}
  /\ UNCHANGED <<plan, toRun, phase, todo, ended, width, outcomes, answered, paid, prOpen, closed, lost,
                 attempts, replays, result>>

(* An abort rejects the call, unless its answer was already there. *)
EndCall(c, answer) ==
  /\ phase \in {"batch", "retry"} /\ c \in running
  /\ aborted => answer \in {"ok", "degraded", "failed"}
  /\ Record(c, answer)
  /\ running' = running \ {c}
  /\ answered' = IF answer = "ok" /\ Required(plan, c) THEN answered \cup {Unit(c)} ELSE answered
  /\ paid' = (paid \/ answer \in {"ok", "degraded"})
  /\ UNCHANGED <<plan, toRun, phase, todo, width, prOpen, closed, lost, attempts, replays, result>>

BatchDone ==
  /\ phase = "batch" /\ ended = todo
  /\ MoveTo(IF RetryWorthwhile(outcomes) THEN "wait" ELSE "judge")
  /\ UNCHANGED <<toRun, batch>>

(* The wait for capacity ends when there is some or when its time is up;    *)
(* either way the retry is tried.                                           *)
WaitOver ==
  /\ phase = "wait" /\ ~aborted
  /\ StartBatch(RetryCalls(outcomes), "retry") /\ UNCHANGED toRun

WaitCancelled == phase = "wait" /\ aborted /\ Throw(Failure("other"))

RetryDone ==
  /\ phase = "retry" /\ ended = todo
  /\ phase' = "judge" /\ outcomes' = mergeOutcomes(outcomes)
  /\ UNCHANGED <<plan, toRun, batch, answered, paid, prOpen, closed, lost, attempts, replays, result>>

NothingSucceeded == outcomes # {} /\ \A o \in outcomes : ~Ok(o)

(* The error that stands for what is missing: only a review whose calls all *)
(* failed for want of capacity says that it is to be queued again; the text *)
(* of the other says "rate-limit/transport" when any call failed in         *)
(* transport.                                                               *)
NothingSucceededError ==
  IF \A o \in outcomes : o.answer = "capacity" THEN Failure("capacity")
  ELSE Refusal(IF \E o \in outcomes : IsTransient(o) THEN "capacity" ELSE "other")

IncompleteError ==
  IF AdmissionBlocked(outcomes) /\ ~HadSuccessfulRequiredPass(outcomes)
  THEN Failure("capacity")
  ELSE Refusal("other")

Judge ==
  /\ phase = "judge"
  /\ CASE closed -> Finish("skipped")
       [] ~closed /\ NothingSucceeded -> Throw(NothingSucceededError)
       [] ~closed /\ ~NothingSucceeded /\ failedRequiredCoverageKeys(outcomes) # {} ->
            Throw(IncompleteError)
       [] OTHER -> MoveTo("verify") /\ UNCHANGED <<toRun, batch>>

(* Nothing to verify, or every batch of candidates was: verification is     *)
(* complete.  Its failure carries the words of the provider that failed it. *)
VerificationDone == phase = "verify" /\ MoveTo("publish") /\ UNCHANGED <<toRun, batch>>

VerificationFails ==
  /\ phase = "verify"
  /\ \E kind \in {"capacity", "other"} :
       (aborted => kind = "other") /\ Throw(Refusal(kind))

Publish ==
  /\ phase = "publish"
  /\ CASE lost -> Throw(Failure("other"))
       [] ~lost /\ (closed \/ ~prOpen) -> Finish("skipped")
       [] OTHER -> Finish("published")

StartAgain ==
  /\ phase = "queued" /\ attempts + replays < MaxStarts
  /\ phase' = "setup" /\ toRun' = {}
  /\ todo' = {} /\ running' = {} /\ ended' = {} /\ width' = Idle
  /\ outcomes' = {} /\ answered' = {} /\ paid' = FALSE
  /\ closed' = FALSE /\ lost' = FALSE
  /\ UNCHANGED <<plan, prOpen, attempts, replays, result>>

-----------------------------------------------------------------------------
(* The world. *)

ClosePullRequest ==
  /\ prOpen /\ phase # "over" /\ prOpen' = FALSE
  /\ UNCHANGED <<plan, toRun, phase, batch, outcomes, answered, paid, closed, lost, attempts, replays,
                 result>>

(* The webhook's signal or the poll of the pull request's state. *)
cancelClosedReview ==
  /\ Attempting /\ ~prOpen /\ ~closed /\ closed' = TRUE
  /\ UNCHANGED <<plan, toRun, phase, batch, outcomes, answered, paid, prOpen, lost, attempts, replays,
                 result>>

cancelForOwnershipLoss ==
  /\ Attempting /\ ~lost /\ lost' = TRUE
  /\ UNCHANGED <<plan, toRun, phase, batch, outcomes, answered, paid, prOpen, closed, attempts, replays,
                 result>>

(* A step of a call of the batch in hand. *)
CallSteps ==
  \E c \in todo : \/ SkipCall(c)
                  \/ StartCall(c)
                  \/ \E answer \in Answers : EndCall(c, answer)

StageSteps ==
  \/ SetupDone \/ SetupFails
  \/ BatchDone \/ WaitOver \/ WaitCancelled \/ RetryDone
  \/ Judge
  \/ VerificationDone \/ VerificationFails
  \/ Publish

Next ==
  \/ CallSteps
  \/ StageSteps
  \/ StartAgain
  \/ ClosePullRequest \/ cancelClosedReview \/ cancelForOwnershipLoss

Spec == Init /\ [][Next]_vars

(* Every provider call has a wall clock, every wait a deadline: a call in   *)
(* flight ends, and so does each stage.  Nothing is assumed of the pull     *)
(* request or of the queue.                                                 *)
FairSpec == Spec /\ WF_vars(CallSteps) /\ WF_vars(StageSteps)

-----------------------------------------------------------------------------
(* Properties. *)

(* A review is published only when every required pass of its plan, on      *)
(* every chunk of the diff, was answered in this very attempt, its close    *)
(* not known and its run still owned: the call budget, the samples, the     *)
(* surgical retry and the merging of its outcomes never lose a unit, and a  *)
(* chunk never stands for its sibling.                                      *)
PublishedCovered ==
  result = "published" => /\ RequiredUnits(plan) \subseteq answered
                          /\ ~closed /\ ~lost

(* The units a required call of the batch, or of its retry, answered. *)
AnsweredIn(round) ==
  {Unit(o.call) : o \in {x \in outcomes : x.round = round /\ Ok(x) /\ Required(plan, x.call)}}

(* The retry buys only what is missing: it never starts a call of a unit    *)
(* that the batch answered, and never a best-effort call.  (The samples of  *)
(* a missing unit are all bought again, also when the first one answers.)   *)
RetryBuysMissing ==
  [][phase = "retry" =>
       \A c \in running' \ running : Required(plan, c) /\ Unit(c) \notin AnsweredIn(1)]_vars

(* Every attempt ends, whatever the load of the providers: no lane waits    *)
(* for another for ever.                                                    *)
AttemptEnds == [](Attempting => <>~Attempting)

(* What the tests say of the worker: a review is not run again as a whole   *)
(* once it has bought an answer.                                            *)
PaidNeverReplayed == phase = "queued" => ~paid

(* What the constant says: a review is put back for want of capacity at     *)
(* most ADMISSION_JOB_REQUEUE_CAP times.                                    *)
ReplaysCapped == replays <= RequeueCap

====
