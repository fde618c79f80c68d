---- MODULE ApplyButton ----
(***************************************************************************)
(* The apply line of one inline comment: a checkbox the author ticks, the  *)
(* webhook that answers the tick, the queue that takes the fix job or      *)
(* refuses it as a duplicate, and the worker that writes the outcome back. *)
(* What the fix job does to the branch and the findings is Findings'; here *)
(* it is which of its exits it takes.                                      *)
(***************************************************************************)
EXTENDS Naturals

CONSTANTS
  Hook,       \* webhook deliveries being handled
  MaxResume,  \* times a job is recovered from a dead worker
  MaxHeads,   \* bound: head commits of the pull request
  MaxTicks,   \* bound: ticks
  MaxFaults   \* bound: GitHub calls that fail and processes that die

Line == {"idle", "ticked", "applying", "applied", "retry"}

VARIABLES
  line,      \* the apply line of the comment
  head,      \* head commit of the pull request
  hook,      \* per delivery: "none", "enqueue", "show"
  known,     \* heads whose command key is SEEN or DONE: the rest of the key
             \* is the comment and the action "edited", the same at each tick
  queued,    \* the heads of the fix jobs that wait
  worker,    \* head of the job at work (0: none)
  step,      \* where it is: "gates", "fetch", "work", "committed", "over"
  resumed,   \* times a dead worker's job was put back
  ticks, faults

vars == <<line, head, hook, known, queued, worker, step, resumed, ticks, faults>>
github == <<line, head>>
web == <<hook, ticks>>
jobs == <<queued, worker, step, resumed>>

Init ==
  /\ line = "idle"
  /\ head = 1
  /\ hook = [h \in Hook |-> "none"]
  /\ known = {}
  /\ queued = {}
  /\ worker = 0
  /\ step = "gates"
  /\ resumed = 0
  /\ ticks = 0
  /\ faults = 0

Fault == faults < MaxFaults /\ faults' = faults + 1

Push ==
  /\ head < MaxHeads
  /\ head' = head + 1
  /\ UNCHANGED <<line, web, known, jobs, faults>>

-----------------------------------------------------------------------------
(* The webhook (handleReviewCheckbox). *)

(* Only an unticked box that is ticked counts. *)
applyCheckboxChecked(h) ==
  /\ line \in {"idle", "retry"}
  /\ hook[h] = "none"
  /\ ticks < MaxTicks
  /\ line' = "ticked"
  /\ hook' = [hook EXCEPT ![h] = "enqueue"]
  /\ ticks' = ticks + 1
  /\ UNCHANGED <<head, known, jobs, faults>>

(* The webhook does not ask whether the queue took the job. *)
enqueueCommandJob(h) ==
  /\ hook[h] = "enqueue"
  /\ hook' = [hook EXCEPT ![h] = "show"]
  /\ known' = known \cup {head}
  /\ queued' = IF head \in known THEN queued ELSE queued \cup {head}
  /\ UNCHANGED <<github, worker, step, resumed, ticks, faults>>

(* The pull request cannot be read or the queue is down: the delivery fails. *)
EnqueueFails(h) ==
  /\ hook[h] = "enqueue"
  /\ Fault
  /\ hook' = [hook EXCEPT ![h] = "none"]
  /\ UNCHANGED <<github, known, jobs, ticks>>

(* The body written is the one of the delivery, whatever it is by now. *)
ShowApplying(h) ==
  /\ hook[h] = "show"
  /\ hook' = [hook EXCEPT ![h] = "none"]
  /\ line' = "applying"
  /\ UNCHANGED <<head, known, jobs, ticks, faults>>

(* The write fails, which is swallowed, or the process dies. *)
ShowFails(h) ==
  /\ hook[h] = "show"
  /\ Fault
  /\ hook' = [hook EXCEPT ![h] = "none"]
  /\ UNCHANGED <<github, known, jobs, ticks>>

-----------------------------------------------------------------------------
(* The worker (processFixJob, setApplyButtonState). *)

Take ==
  /\ worker = 0
  /\ \E k \in queued : worker' = k /\ queued' = queued \ {k}
  /\ step' = "gates"
  /\ UNCHANGED <<github, web, known, resumed, faults>>

At(s) == worker # 0 /\ step = s

(* A completed job keeps its key for a day; a failed one gives it back. *)
Completed ==
  /\ worker' = 0
  /\ UNCHANGED <<known, queued, step, resumed>>
Failed ==
  /\ worker' = 0
  /\ known' = known \ {worker}
  /\ UNCHANGED <<queued, step, resumed>>

Advance(from, to) ==
  /\ At(from)
  /\ step' = to
  /\ UNCHANGED <<github, web, known, queued, worker, resumed, faults>>

(* Plan and open findings, then the head of the pull request, then the     *)
(* other gates, the fix lock and the work.                                 *)
PassGates == Advance("gates", "fetch")
FetchHead == Advance("fetch", "work")

(* fetchPrHeadInfo throws: no handler of the job is around it. *)
FetchThrows ==
  /\ At("fetch")
  /\ Fault
  /\ Failed
  /\ UNCHANGED <<github, web>>

(* skip, a run that applies nothing and a throw inside the try put the     *)
(* retry box back; the write may fail, which is swallowed.                 *)
setApplyButtonState(to) ==
  \/ line' = to /\ UNCHANGED <<head, faults>>
  \/ Fault /\ UNCHANGED github

NothingApplied ==
  /\ At("gates") \/ At("work")
  /\ setApplyButtonState("retry")
  /\ Completed \/ Failed
  /\ UNCHANGED web

(* The fix is committed; the reply on the thread comes before the line, and *)
(* when it throws the line is left.                                        *)
Commit ==
  /\ At("work")
  /\ head < MaxHeads
  /\ head' = head + 1
  /\ step' = "committed"
  /\ UNCHANGED <<line, web, known, queued, worker, resumed, faults>>

markApplyCheckboxDone ==
  /\ At("committed")
  /\ setApplyButtonState("applied")
  /\ Completed
  /\ UNCHANGED web

(* The process dies; the queue puts the job back, MaxResume times. *)
Crash ==
  /\ worker # 0
  /\ Fault
  /\ worker' = 0
  /\ IF resumed < MaxResume
     THEN queued' = queued \cup {worker} /\ resumed' = resumed + 1
     ELSE UNCHANGED <<queued, resumed>>
  /\ UNCHANGED <<github, web, known, step>>

-----------------------------------------------------------------------------
Next ==
  \/ Push
  \/ \E h \in Hook :
       \/ applyCheckboxChecked(h)
       \/ enqueueCommandJob(h)
       \/ EnqueueFails(h)
       \/ ShowApplying(h)
       \/ ShowFails(h)
  \/ Take
  \/ PassGates
  \/ FetchHead
  \/ FetchThrows
  \/ NothingApplied
  \/ Commit
  \/ markApplyCheckboxDone
  \/ Crash

Spec == Init /\ [][Next]_vars

-----------------------------------------------------------------------------
(* The button is never left on "Applying": while it shows that, a delivery *)
(* or a job is under way that may still change it ("EVERY exit below that  *)
(* doesn't commit must revert it to a tickable retry checkbox").           *)
ButtonNotStuck ==
  line = "applying" =>
    worker # 0 \/ queued # {} \/ \E h \in Hook : hook[h] # "none"

====
