----------------------------- MODULE MemoryQueue -----------------------------
(***************************************************************************)
(* The in-memory backend of the review queue (packages/queue/src/memory.ts)*)
(* and the worker of the one process that uses it.  Every method runs to   *)
(* its end without an await, so each is an operator from the queue's state *)
(* to its next state; what a worker does between two calls interleaves.    *)
(***************************************************************************)
EXTENDS QueueJobs, FiniteSets, SequencesExt, FiniteSetsExt

CONSTANTS
  Worker,          \* concurrent jobs of the process
  MaxDedupEntries, \* maxDedupEntries of the two key sets
  InspectionWindow,\* DEQUEUE_INSPECTION_WINDOW
  MaxDeferrals     \* bound: jobs handed back by admission

ASSUME DedupAssumption == MaxDedupEntries \in Nat \ {0} /\ InspectionWindow \in Nat \ {0}
ASSUME DeferralAssumption == MaxDeferrals \in Nat

VARIABLES
  mq,        \* the queue: the record below
  held,      \* per worker: the job it claimed, or NoJob
  stage,     \* per worker: where it is between two calls of the queue
  deferrals  \* jobs handed back so far

queueVars == <<mq, held, stage, deferrals>>

\* Keys are kept in insertion order; a queue entry waits while it is early.
Waiting == [job : Job, early : BOOLEAN]
Now(j) == [job |-> j, early |-> FALSE]
EmptyQueue ==
  [seen |-> <<>>, completed |-> <<>>, queue |-> <<>>, inFlight |-> [p \in PR |-> NoJob],
   pending |-> [p \in PR |-> <<>>], states |-> [k \in Key |-> "submitted"],
   deadLetters |-> <<>>]

QueueTypeOK ==
  /\ mq.seen \in Seq(Key) /\ mq.completed \in Seq(Key)
  /\ mq.queue \in Seq(Waiting)
  /\ mq.inFlight \in [PR -> Job \cup {NoJob}]
  /\ mq.pending \in [PR -> Seq(Job)]
  /\ mq.states \in [Key -> JobState]
  /\ mq.deadLetters \in Seq(Job)
  /\ held \in [Worker -> Job \cup {NoJob}]
  /\ stage \in [Worker -> {"idle", "claimed", "running", "applied", "retry", "drain"}]
  /\ deferrals \in Nat

QueueInit ==
  /\ mq = EmptyQueue
  /\ held = [w \in Worker |-> NoJob]
  /\ stage = [w \in Worker |-> "idle"]
  /\ deferrals = 0

-----------------------------------------------------------------------------
(* The key sets and the lifecycle of a key.                                *)

Trimmed(keys) ==
  IF Len(keys) <= MaxDedupEntries THEN keys
  ELSE SubSeq(keys, Len(keys) - MaxDedupEntries + 1, Len(keys))

\* Set.add keeps the place of a key it has.
Added(keys, k) == IF Contains(keys, k) THEN keys ELSE Append(keys, k)
Forgotten(keys, k) == RemoveFirst(keys, k)

CanTransition(from, to) ==
  \/ from = to
  \/ from = "submitted" /\ to \in {"ready", "cancelled"}
  \/ from = "ready" /\ to \in {"claimed", "cancelled"}
  \/ from = "claimed" /\ to \in {"running", "ready", "cancelled", "dead-lettered"}
  \/ from = "running" /\ to \in {"succeeded", "failed", "cancelled", "dead-lettered", "ready"}
  \/ from = "failed" /\ to \in {"ready", "dead-lettered"}
  \/ from = "dead-lettered" /\ to = "ready"

MayBecome(q, j, to) == CanTransition(q.states[KeyOf(j)], to)
Become(q, j, to) == [q EXCEPT !.states[KeyOf(j)] = to]

AlreadyDone(q, j) == Automatic(j) /\ IsCompleted(j, ToSet(q.completed))

-----------------------------------------------------------------------------
(* Coalescing behind the claim of a pull request.                          *)

\* A review takes the place of the last review that waits, a command never.
PushedAtLast(list, j) == IF j.review THEN Len(list) ELSE 0
PushedAt(list, j) == IF j.review THEN Max(ReviewsIn(list) \cup {0}) ELSE 0

PushCoalesced(q, j) ==
  LET list == q.pending[j.pr]
      i == PushedAt(list, j)
  IN IF i = 0 THEN [q EXCEPT !.pending[j.pr] = Append(@, j)]
     ELSE LET old == list[i]
              put == [q EXCEPT !.pending[j.pr][i] = j]
          IN IF Automatic(old)
             THEN Become([put EXCEPT !.seen = Forgotten(@, KeyOf(old))], old, "cancelled")
             ELSE put

-----------------------------------------------------------------------------
(* enqueue: a refused transition throws after the key was added to seen.   *)

Refuses(q, j) == AlreadyDone(q, j) \/ Contains(q.seen, KeyOf(j))
Submitted(q, j) == [q EXCEPT !.seen = Trimmed(Added(@, KeyOf(j)))]
Throws(q, j) == ~Refuses(q, j) /\ ~MayBecome(q, j, "ready")

Enqueued(q, j) ==
  IF Refuses(q, j) THEN q
  ELSE IF ~MayBecome(q, j, "ready") THEN Submitted(q, j)
  ELSE LET r == Become(Submitted(q, j), j, "ready")
       IN IF q.inFlight[j.pr] # NoJob THEN PushCoalesced(r, j)
          ELSE [r EXCEPT !.queue = Append(@, Now(j))]

-----------------------------------------------------------------------------
(* dequeue: up to InspectionWindow times, take the job of the highest      *)
(* priority among the first ones that are due; drop it if it is done, put  *)
(* it behind the claim of its pull request, or claim it.                   *)

\* The result of a dequeue that throws after it took the pull request.
Thrown == [thrown |-> TRUE]

Due(q) == {i \in 1..Min({InspectionWindow, Len(q.queue)}) : ~q.queue[i].early}
Next1(q) ==
  CHOOSE i \in Due(q) : \A k \in Due(q) :
    \/ q.queue[i].job.priority > q.queue[k].job.priority
    \/ q.queue[i].job.priority = q.queue[k].job.priority /\ i <= k

Inspect(q) ==
  LET j == q.queue[Next1(q)].job
      rest == [q EXCEPT !.queue = RemoveAt(@, Next1(q))]
  IN IF AlreadyDone(q, j) THEN [q |-> rest, job |-> NoJob]
     ELSE IF q.inFlight[j.pr] # NoJob THEN [q |-> PushCoalesced(rest, j), job |-> NoJob]
     ELSE LET claimed == [rest EXCEPT !.inFlight[j.pr] = j]
          IN IF MayBecome(q, j, "claimed")
             THEN [q |-> Become(claimed, j, "claimed"), job |-> j]
             ELSE [q |-> claimed, job |-> Thrown]

\* Looking goes on while nothing was claimed and something is due.
LooksOn(r) == IF r.job # NoJob \/ Due(r.q) = {} THEN r ELSE Inspect(r.q)
Dequeued(q) ==
  LET look[n \in 0..InspectionWindow] ==
        IF n = 0 THEN [q |-> q, job |-> NoJob] ELSE LooksOn(look[n - 1])
  IN look[InspectionWindow]

-----------------------------------------------------------------------------
(* The ways a claim ends.                                                  *)

Freed(q, j) == [q EXCEPT !.inFlight[j.pr] = NoJob]

\* A review that was done under another key is done under the bare one too.
Marked(keys, j, draft) ==
  IF draft THEN Added(keys, DraftOf(j))
  ELSE IF j.review THEN Added(Added(keys, KeyOf(j)), BareOf(j)) ELSE Added(keys, KeyOf(j))
Completed(q, j, draft) ==
  Freed(Become([q EXCEPT !.completed = Trimmed(Marked(@, j, draft))], j, "succeeded"), j)

Failed(q, j, deadLettered) ==
  LET open == Freed([q EXCEPT !.seen = Forgotten(@, KeyOf(j))], j)
  IN IF deadLettered
     THEN Become([open EXCEPT !.deadLetters = <<j>> \o @], j, "dead-lettered")
     ELSE Become(open, j, "failed")

\* A job handed back goes to the head of the queue, unless something waits
\* behind it: then that takes its place and the job is dropped.
Returned(q, j, early) ==
  LET open == Freed(q, j)
      list == q.pending[j.pr]
  IN IF list # <<>>
     THEN Become([open EXCEPT !.pending[j.pr] = Tail(@),
                              !.queue = <<Now(Head(list))>> \o @], j, "cancelled")
     ELSE Become([open EXCEPT !.queue = <<[job |-> j, early |-> early]>> \o @], j, "ready")

DrainedAway(q, p) == IF q.pending[p] = <<>> THEN q ELSE [q EXCEPT !.pending[p] = Tail(@)]
Drained(q, p) ==
  IF q.pending[p] = <<>> THEN q
  ELSE [q EXCEPT !.pending[p] = Tail(@), !.queue = Append(@, Now(Head(q.pending[p])))]

\* A replay that is refused its transition throws after the record was taken.
Replayed(q, i) ==
  LET j == q.deadLetters[i]
      taken == [Submitted(q, j) EXCEPT !.deadLetters = RemoveAt(@, i)]
  IN IF MayBecome(q, j, "ready")
     THEN Become([taken EXCEPT !.queue = Append(@, Now(j))], j, "ready") ELSE taken

-----------------------------------------------------------------------------
(* The worker: what processWorkerJob does between two calls of the queue.  *)

At(w, s) == stage' = [stage EXCEPT ![w] = s]

Dequeue(w) ==
  LET d == Dequeued(mq)
  IN /\ stage[w] = "idle"
     /\ mq.queue # <<>>
     /\ mq' = d.q
     /\ IF d.job \in {NoJob, Thrown} THEN UNCHANGED <<held, stage>>
        ELSE held' = [held EXCEPT ![w] = d.job] /\ At(w, "claimed")
     /\ UNCHANGED deferrals

MarkRunning(w) ==
  /\ stage[w] = "claimed"
  /\ mq' = Become(mq, held[w], "running")
  /\ At(w, "running")
  /\ UNCHANGED <<held, deferrals>>

\* A review that found something starts a fix where auto-apply is on, before
\* its own completion.
EnqueueAutoApply(w) ==
  /\ stage[w] = "running" /\ held[w].review
  /\ \E j \in Job :
       /\ ~j.review /\ <<j.pr, j.sha, j.attempts>> = <<held[w].pr, held[w].sha, held[w].attempts>>
       /\ mq' = Enqueued(mq, j)
  /\ At(w, "applied")
  /\ UNCHANGED <<held, deferrals>>

MarkCompleted(w) ==
  /\ \/ stage[w] \in {"running", "applied"} /\ mq' = Completed(mq, held[w], FALSE)
     \/ stage[w] = "running" /\ held[w].review /\ mq' = Completed(mq, held[w], TRUE)
  /\ At(w, "drain")
  /\ UNCHANGED <<held, deferrals>>

\* A failure is final, dead-lettered or transient; a command is not retried.
FailFinal(w) ==
  /\ stage[w] = "running"
  /\ \E deadLettered \in BOOLEAN : mq' = Failed(mq, held[w], deadLettered)
  /\ At(w, "drain")
  /\ UNCHANGED <<held, deferrals>>

RetriesAlways(j) == j.variant \in AutoVariant
MayRetry(j) == j.variant \in AutoVariant /\ j.attempts < MaxJobRetries
FailTransient(w) ==
  /\ stage[w] = "running" /\ MayRetry(held[w])
  /\ mq' = Failed(mq, held[w], FALSE)
  /\ At(w, "retry")
  /\ UNCHANGED <<held, deferrals>>

Retry(w) ==
  /\ stage[w] = "retry"
  /\ mq' = Enqueued(mq, Retried(held[w]))
  /\ At(w, "drain")
  /\ UNCHANGED <<held, deferrals>>

\* Admission has no room: before the job runs or, for a review, in it.
ReturnToQueue(w) ==
  /\ stage[w] = "claimed" \/ (stage[w] = "running" /\ held[w].review)
  /\ deferrals < MaxDeferrals
  /\ \E early \in {FALSE} \cup {stage[w] = "running"} : mq' = Returned(mq, held[w], early)
  /\ At(w, "drain")
  /\ deferrals' = deferrals + 1
  /\ UNCHANGED held

ReleaseLockAndDrain(w) ==
  /\ stage[w] = "drain"
  /\ mq' = Drained(mq, held[w].pr)
  /\ held' = [held EXCEPT ![w] = NoJob]
  /\ At(w, "idle")
  /\ UNCHANGED deferrals

\* availableAtMs passes.
BecomesDue ==
  /\ \E i \in DOMAIN mq.queue :
       mq.queue[i].early /\ mq' = [mq EXCEPT !.queue[i].early = FALSE]
  /\ UNCHANGED <<held, stage, deferrals>>

ReplayDeadLetter ==
  /\ \E i \in DOMAIN mq.deadLetters :
       /\ ~Contains(mq.seen, KeyOf(mq.deadLetters[i]))
       /\ mq' = Replayed(mq, i)
  /\ UNCHANGED <<held, stage, deferrals>>

QueueNext ==
  \/ \E w \in Worker :
       \/ Dequeue(w) \/ MarkRunning(w) \/ EnqueueAutoApply(w) \/ MarkCompleted(w) \/ FailFinal(w)
       \/ FailTransient(w) \/ Retry(w) \/ ReturnToQueue(w) \/ ReleaseLockAndDrain(w)
  \/ BecomesDue \/ ReplayDeadLetter

=============================================================================
