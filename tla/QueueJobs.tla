------------------------------ MODULE QueueJobs ------------------------------
(***************************************************************************)
(* The jobs of the review queue and the identities under which they are    *)
(* deduplicated (packages/queue/src/types.ts, state-machine.ts).  Both     *)
(* queue backends, Redis and in-memory, are specified over this module.    *)
(***************************************************************************)
EXTENDS Naturals, Sequences

CONSTANTS
  Job,           \* the payloads (ReviewJobPayload) of this instance
  NoJob,         \* no payload: null in the code
  MaxJobRetries  \* config.worker.maxJobRetries

(***************************************************************************)
(* What is left of a payload.  pr and sha stand for installation, owner,   *)
(* repo, number and headSha; review is kind = "review"; variant is the     *)
(* suffix jobIdempotencyKey gives the job: "bare" for opened and           *)
(* synchronize, "ready" for ready_for_review, "reopened", and for commands,*)
(* manual runs, fixes, asks and scans an identifier of the request.        *)
(***************************************************************************)
AutoVariant == {"bare", "ready", "reopened"}

IsPayload(j) ==
  /\ DOMAIN j = {"pr", "sha", "variant", "review", "tenant", "unlimited", "priority", "attempts"}
  /\ j.review \in BOOLEAN /\ j.unlimited \in BOOLEAN
  /\ j.priority \in Nat /\ j.attempts \in 0..MaxJobRetries

Retried(j) == [j EXCEPT !.attempts = @ + 1]

ASSUME PayloadAssumption == \A j \in Job : IsPayload(j)
ASSUME NoJobAssumption == NoJob \notin Job
ASSUME RetryAssumption ==
  /\ MaxJobRetries \in Nat
  /\ \A j \in Job : j.attempts < MaxJobRetries => Retried(j) \in Job

PR == {j.pr : j \in Job}
Tenant == {j.tenant : j \in Job}

\* Automatic reviews (webhook events) share the bare key of their head SHA.
Automatic(j) == j.review /\ j.variant \in AutoVariant

KeyOf(j) == <<j.pr, j.sha, j.variant>>
BareOf(j) == <<j.pr, j.sha, "bare">>
ReadyOf(j) == <<j.pr, j.sha, "ready">>
DraftOf(j) == <<j.pr, j.sha, "draft_skipped">>

\* jobIdempotencyKey writes the kind of every job but an automatic review into
\* its key.
ASSUME KeyAssumption == \A i, j \in Job : KeyOf(i) = KeyOf(j) => i.review = j.review

Key == UNION {{KeyOf(j), BareOf(j), ReadyOf(j), DraftOf(j)} : j \in Job}

\* The DONE markers a successful run writes.
CompletedKeys(j) == IF j.review THEN {KeyOf(j), BareOf(j)} ELSE {KeyOf(j)}

\* A job is not run again once its key, or for an automatic review the bare
\* key of its SHA, is DONE.
IsCompleted(j, done) ==
  \/ KeyOf(j) \in done
  \/ Automatic(j) /\ BareOf(j) \in done

-----------------------------------------------------------------------------
(* Lifecycle states.                                                       *)

JobState == {"submitted", "ready", "claimed", "running", "succeeded",
             "failed", "cancelled", "dead-lettered"}

-----------------------------------------------------------------------------
(* Coalescing: the pending list of a PR keeps one review, its latest.      *)

ReviewsIn(list) == {i \in 1..Len(list) : list[i].review}

=============================================================================
