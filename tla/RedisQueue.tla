----------------------------- MODULE RedisQueue -----------------------------
(***************************************************************************)
(* The durable review queue: Redis lists and keys that change only inside  *)
(* Lua scripts (packages/queue/src/redis-*.ts), and the worker slots that  *)
(* drive them (apps/server/src/application/worker).  One action is one     *)
(* Redis round trip, so that the interleavings of several workers, the     *)
(* recovery leader and the webhook producers are those of the fleet.       *)
(*                                                                         *)
(* Time appears as events: a 900 s lease or tenant claim runs out, the     *)
(* 30 s recovery grace passes, a delayed job becomes available.            *)
(***************************************************************************)
EXTENDS QueueJobs, FiniteSets, SequencesExt, FiniteSetsExt

CONSTANTS
  Slot,          \* the worker slots of the fleet
  Token,         \* claim tokens (randomUUID); one is drawn when unused
  NoToken, NoTenant,
  TenantLimit,   \* fleet concurrency per tenant, 0: admission disabled
  Window,        \* DEQUEUE_INSPECTION_WINDOW
  BurstLimit,    \* PRIORITY_BURST_LIMIT
  MaxResume,     \* maxResumeAfterRestart
  MaxArrivals,   \* bound: deliveries from outside
  MaxCrashes,    \* bound: process crashes
  MaxStalls,     \* bound: leases that run out under a worker still running
  MaxFaults      \* bound: crashes and stalls together

ASSUME TokenAssumption == IsFiniteSet(Token) /\ NoToken \notin Token
ASSUME TenantAssumption == NoTenant \notin Tenant /\ TenantLimit \in Nat
ASSUME WindowAssumption == Window \in Nat \ {0} /\ BurstLimit \in Nat \ {0}
ASSUME BoundAssumption ==
  /\ MaxResume \in Nat /\ MaxArrivals \in Nat /\ MaxCrashes \in Nat /\ MaxStalls \in Nat
  /\ MaxFaults \in Nat

VARIABLES
  queue,        \* ready jobs, head first
  pending,      \* per PR: jobs waiting behind its claim
  pendingCount, \* the counter of all pending jobs
  processing,   \* durable backups of dequeued jobs, each with its meta key
  inflight,     \* per PR: the token that holds its lease
  seen, done,   \* SEEN and DONE keys
  jobState,     \* per key: latest lifecycle state
  resumed,      \* per key: recoveries so far
  deadLetters,  \* per payload: dead-letter records
  burst,        \* how often in a row the FIFO head was passed over
  tenantActive, \* per tenant: the claim counter
  claimTenant,  \* per token: the tenant its claim is charged to
  claimExpired, \* tokens whose expiry score has passed
  delayed,      \* payloads whose availableAtMs lies in the future
  slot,         \* per slot: program counter, payload and token
  lost,         \* slots whose lease ran out under them (history)
  arriving,     \* deliveries past the DONE check, not yet enqueued
  arrivals,     \* deliveries so far
  crashes, stalls

listVars == <<queue, pending, pendingCount>>
dedupVars == <<seen, done, jobState>>
tenantVars == <<tenantActive, claimTenant, claimExpired>>
recoveryVars == <<resumed, deadLetters>>
arrivalVars == <<arriving, arrivals>>
faultVars == <<crashes, stalls>>
vars == <<listVars, processing, inflight, dedupVars, recoveryVars, burst,
          tenantVars, delayed, slot, lost, arrivalVars, faultVars>>

Meta == {"none", "fresh", "old"}
Entry == [tok : Token, job : Job, meta : Meta]
Idle == [pc |-> "idle", job |-> NoJob, tok |-> NoToken]
PC == {"idle", "check", "claim", "drop", "stamp", "held", "running", "drain",
       "retry", "retrySubmit", "lateDrain", "late", "lateSubmit"}

TypeOK ==
  /\ queue \in Seq(Job)
  /\ pending \in [PR -> Seq(Job)]
  /\ pendingCount \in Nat
  /\ processing \in SUBSET Entry
  /\ inflight \in [PR -> Token \cup {NoToken}]
  /\ seen \in SUBSET Key /\ done \in SUBSET Key
  /\ jobState \in [Key -> JobState]
  /\ resumed \in [Key -> Nat]
  /\ deadLetters \in [Job -> Nat]
  /\ burst \in Nat
  /\ tenantActive \in [Tenant -> Nat]
  /\ claimTenant \in [Token -> Tenant \cup {NoTenant}]
  /\ claimExpired \in SUBSET Token
  /\ delayed \in SUBSET Job
  /\ slot \in [Slot -> [pc : PC \ {"idle"}, job : Job, tok : Token] \cup {Idle}]
  /\ lost \in SUBSET Slot
  /\ arriving \in SUBSET Job
  /\ arrivals \in Nat
  /\ crashes \in Nat /\ stalls \in Nat

Init ==
  /\ queue = <<>>
  /\ pending = [p \in PR |-> <<>>]
  /\ pendingCount = 0
  /\ processing = {}
  /\ inflight = [p \in PR |-> NoToken]
  /\ seen = {} /\ done = {}
  /\ jobState = [k \in Key |-> "submitted"]
  /\ resumed = [k \in Key |-> 0]
  /\ deadLetters = [j \in Job |-> 0]
  /\ burst = 0
  /\ tenantActive = [t \in Tenant |-> 0]
  /\ claimTenant = [k \in Token |-> NoTenant]
  /\ claimExpired = {}
  /\ delayed = {}
  /\ slot = [s \in Slot |-> Idle]
  /\ lost = {}
  /\ arriving = {}
  /\ arrivals = 0
  /\ crashes = 0 /\ stalls = 0

-----------------------------------------------------------------------------
(* Vocabulary.                                                             *)

\* A Redis counter that is decremented and dropped when it reaches zero.
Minus(n, k) == IF n > k THEN n - k ELSE 0

\* The token of a slot is its own: it is drawn unused, and lives on in the
\* backup entry, the PR lease and the tenant claim until each is removed.
InUse(k) ==
  \/ \E s \in Slot : slot[s].tok = k
  \/ \E e \in processing : e.tok = k
  \/ \E p \in PR : inflight[p] = k
  \/ claimTenant[k] # NoTenant

\* Slots between a successful CLAIM and the end of the job.
Leased(s) == slot[s].pc \in {"stamp", "held", "running"}
Executing(s) == slot[s].pc \in {"held", "running"}
Owns(s) == inflight[slot[s].job.pr] = slot[s].tok

\* Faulty variant: a script that does not compare tokens.
AnyToken(s) == TRUE

\* Faulty variant: CLAIM without NX.
AnyLease(p) == TRUE

\* What a script decides from GET inflight:<pr>: the caller's token is the
\* holder's; the PR is free.
TokenMatches(s) == Owns(s)
LeaseFree(p) == inflight[p] = NoToken

OwnEntries(s) == {e \in processing : e.tok = slot[s].tok}

Goto(s, pc) == slot' = [slot EXCEPT ![s].pc = pc]

\* The slot is free again, or its process is gone.
Leave(s) ==
  /\ slot' = [slot EXCEPT ![s] = Idle]
  /\ lost' = lost \ {s}

SetState(j, state) == [jobState EXCEPT ![KeyOf(j)] = state]

\* Faulty variant: the key of a failed job stays.
KeepSeen(j) == seen

\* A failed job's key may be delivered again.
ClearSeen(j) == seen \ {KeyOf(j)}

\* Faulty variant: each recovery pass starts the grace anew.
Unstamped(meta) == meta

\* The meta key of a backup is stamped once (SET NX).
StampOnce(meta) == IF meta = "none" THEN "fresh" ELSE meta

-----------------------------------------------------------------------------
(* Tenant occupancy.                                                       *)

\* Faulty variant: the count is released and the claim is not.
ReleaseCountOnly(k) ==
  /\ tenantActive' =
       IF claimTenant[k] = NoTenant THEN tenantActive
       ELSE [tenantActive EXCEPT ![claimTenant[k]] = Minus(@, 1)]
  /\ UNCHANGED <<claimTenant, claimExpired>>

ReleaseTenantClaim(k) ==
  /\ tenantActive' =
       IF claimTenant[k] = NoTenant THEN tenantActive
       ELSE [tenantActive EXCEPT ![claimTenant[k]] = Minus(@, 1)]
  /\ claimTenant' = [claimTenant EXCEPT ![k] = NoTenant]
  /\ claimExpired' = claimExpired \ {k}

\* cleanupExpiredTenantClaims: what DEQUEUE and CLAIM see, and leave, of the
\* tenant counters and claims.
SweptActive ==
  IF TenantLimit = 0 THEN tenantActive
  ELSE [t \in Tenant |->
          Minus(tenantActive[t], Cardinality({k \in claimExpired : claimTenant[k] = t}))]
SweptClaims ==
  IF TenantLimit = 0 THEN claimTenant
  ELSE [k \in Token |-> IF k \in claimExpired THEN NoTenant ELSE claimTenant[k]]
SweptExpired == IF TenantLimit = 0 THEN claimExpired ELSE {}

SweepTenantClaims ==
  /\ tenantActive' = SweptActive
  /\ claimTenant' = SweptClaims
  /\ claimExpired' = SweptExpired

HasTenantCapacity(j) ==
  TenantLimit = 0 \/ j.unlimited \/ SweptActive[j.tenant] < TenantLimit

-----------------------------------------------------------------------------
(* Enqueue: a DONE check, then ENQUEUE_LUA.                                *)

\* Faulty variant: the scan of the pending list stops one short.
SkipsHead(p) == ReviewsIn(pending[p]) \ {1}

\* Faulty variant: a review replaces whatever waits.
AnyPending(p) == 1..Len(pending[p])

\* The positions of pending jobs that a newer arrival may replace.
Replaceable(p) == ReviewsIn(pending[p])
ReplacedAt(p) == Max(Replaceable(p))

\* The pending review of PR p that a newer arrival replaces, its SEEN keys
\* (the :reopened key is not among them), and the state it is left in.
Superseded(p) == pending[p][ReplacedAt(p)]
ClearedKeys(old) == IF Automatic(old) THEN {BareOf(old), ReadyOf(old)} ELSE {}
Cancelled(old) == IF Automatic(old) THEN SetState(old, "cancelled") ELSE jobState

ReplacePending(j) ==
  /\ Replaceable(j.pr) # {}
  /\ pending' = [pending EXCEPT ![j.pr][ReplacedAt(j.pr)] = j]
  /\ UNCHANGED pendingCount

\* Faulty variant: the pending counter is not raised.
AddUncounted(j) ==
  /\ pending' = [pending EXCEPT ![j.pr] = Append(@, j)]
  /\ UNCHANGED pendingCount

AddPending(j) ==
  /\ pending' = [pending EXCEPT ![j.pr] = Append(@, j)]
  /\ pendingCount' = pendingCount + 1

\* ENQUEUE_LUA.  Any arrival replaces the last pending review: the kind of
\* the incoming job is passed to the script and not read.
EnqueueScript(j) ==
  \/ /\ KeyOf(j) \in seen
     /\ UNCHANGED <<listVars, seen, jobState>>
  \/ /\ KeyOf(j) \notin seen
     /\ ~ LeaseFree(j.pr)
     /\ ReplacePending(j)
     /\ seen' = (seen \cup {KeyOf(j)}) \ ClearedKeys(Superseded(j.pr))
     /\ jobState' = [Cancelled(Superseded(j.pr)) EXCEPT ![KeyOf(j)] = "ready"]
     /\ UNCHANGED queue
  \/ /\ KeyOf(j) \notin seen
     /\ ~ LeaseFree(j.pr)
     /\ Replaceable(j.pr) = {}
     /\ AddPending(j)
     /\ seen' = seen \cup {KeyOf(j)}
     /\ jobState' = SetState(j, "ready")
     /\ UNCHANGED queue
  \/ /\ KeyOf(j) \notin seen
     /\ LeaseFree(j.pr)
     /\ queue' = Append(queue, j)
     /\ seen' = seen \cup {KeyOf(j)}
     /\ jobState' = SetState(j, "ready")
     /\ UNCHANGED <<pending, pendingCount>>

\* A webhook, a command, a nightly scan or an auto-apply submits j.
Arrive(j) ==
  /\ arrivals < MaxArrivals
  /\ j.attempts = 0
  /\ j \notin arriving
  /\ arrivals' = arrivals + 1
  /\ arriving' = IF IsCompleted(j, done) THEN arriving ELSE arriving \cup {j}
  /\ UNCHANGED <<listVars, processing, inflight, dedupVars, recoveryVars, burst,
                 tenantVars, delayed, slot, lost, faultVars>>

Enqueue(j) ==
  /\ j \in arriving
  /\ arriving' = arriving \ {j}
  /\ EnqueueScript(j)
  /\ UNCHANGED <<processing, inflight, done, recoveryVars, burst, tenantVars,
                 delayed, slot, lost, arrivals, faultVars>>

-----------------------------------------------------------------------------
(* Dequeue: DEQUEUE_LUA, the DONE check, CLAIM_LUA, the meta stamp.         *)

Inspected == 1..(IF Len(queue) < Window THEN Len(queue) ELSE Window)
Eligible == {i \in Inspected : queue[i] \notin delayed /\ HasTenantCapacity(queue[i])}

\* The head after BurstLimit jumps in a row, else the first of the highest
\* priority.
Selected ==
  IF burst >= BurstLimit THEN Min(Eligible)
  ELSE CHOOSE i \in Eligible :
         \A k \in Eligible : \/ queue[k].priority < queue[i].priority
                             \/ queue[k].priority = queue[i].priority /\ i <= k

DequeueEmpty(s) ==
  /\ slot[s].pc = "idle"
  /\ queue = <<>>
  /\ burst' = 0
  /\ UNCHANGED <<listVars, processing, inflight, dedupVars, recoveryVars, tenantVars,
                 delayed, slot, lost, arrivalVars, faultVars>>

\* The selected job moves to the processing list, under a fresh token.
DequeueJob(s) ==
  /\ slot[s].pc = "idle"
  /\ Eligible # {}
  /\ \E k \in {k \in Token : ~ InUse(k)} :
       /\ processing' = processing \cup {[tok |-> k, job |-> queue[Selected], meta |-> "none"]}
       /\ slot' = [slot EXCEPT ![s] = [pc |-> "check", job |-> queue[Selected], tok |-> k]]
  /\ queue' = RemoveAt(queue, Selected)
  /\ burst' = IF burst >= BurstLimit \/ Selected = 1 THEN 0 ELSE burst + 1
  /\ SweepTenantClaims
  /\ UNCHANGED <<pending, pendingCount, inflight, dedupVars, recoveryVars, delayed,
                 lost, arrivalVars, faultVars>>

\* Nothing can start.  If a tenant with room only waits for time, the queue
\* stays as it is; otherwise the inspected window rotates to the tail.
DequeueBlocked(s) ==
  /\ slot[s].pc = "idle"
  /\ queue # <<>> /\ Eligible = {}
  /\ queue' =
       IF \E i \in Inspected : HasTenantCapacity(queue[i]) THEN queue
       ELSE SubSeq(queue, Max(Inspected) + 1, Len(queue)) \o SubSeq(queue, 1, Max(Inspected))
  /\ SweepTenantClaims
  /\ UNCHANGED <<pending, pendingCount, processing, inflight, dedupVars, recoveryVars,
                 burst, delayed, slot, lost, arrivalVars, faultVars>>

CheckDone(s) ==
  /\ slot[s].pc = "check"
  /\ Goto(s, IF IsCompleted(slot[s].job, done) THEN "drop" ELSE "claim")
  /\ UNCHANGED <<listVars, processing, inflight, dedupVars, recoveryVars, burst,
                 tenantVars, delayed, lost, arrivalVars, faultVars>>

\* A completed or stashed job: LREM of the backup, and the loop goes on.
DropEntry(s) ==
  /\ slot[s].pc = "drop"
  /\ processing' = processing \ OwnEntries(s)
  /\ Leave(s)
  /\ UNCHANGED <<listVars, inflight, dedupVars, recoveryVars, burst, tenantVars,
                 delayed, arrivalVars, faultVars>>

\* Faulty variant: the ceiling is checked at DEQUEUE only.
ChosenAtDequeue(j) == TRUE

\* CLAIM counts the tenant again.
HasRoomAtClaim(j) == HasTenantCapacity(j)

\* The tenant filled up since DEQUEUE: back to the head of the queue.
ClaimTenantFull(s) ==
  /\ slot[s].pc = "claim"
  /\ ~ HasRoomAtClaim(slot[s].job)
  /\ processing' = processing \ OwnEntries(s)
  /\ queue' = <<slot[s].job>> \o queue
  /\ SweepTenantClaims
  /\ Leave(s)
  /\ UNCHANGED <<pending, pendingCount, inflight, dedupVars, recoveryVars, burst,
                 delayed, arrivalVars, faultVars>>

\* SET NX of the PR lease, and the tenant charge unless the job is unlimited.
Charge(j, k) ==
  IF TenantLimit > 0 /\ ~ j.unlimited
  THEN /\ tenantActive' = [SweptActive EXCEPT ![j.tenant] = @ + 1]
       /\ claimTenant' = [SweptClaims EXCEPT ![k] = j.tenant]
       /\ claimExpired' = SweptExpired \ {k}
  ELSE SweepTenantClaims

ClaimLease(s) ==
  LET j == slot[s].job IN
  /\ slot[s].pc = "claim"
  /\ HasRoomAtClaim(j)
  /\ LeaseFree(j.pr)
  /\ inflight' = [inflight EXCEPT ![j.pr] = slot[s].tok]
  /\ Charge(j, slot[s].tok)
  /\ jobState' = SetState(j, "claimed")
  /\ Goto(s, "stamp")
  /\ UNCHANGED <<listVars, processing, seen, done, recoveryVars, burst, delayed, lost,
                 arrivalVars, faultVars>>

\* The PR is held: a review replaces the pending review, anything else queues
\* up behind it.
ClaimPending(s) ==
  LET j == slot[s].job IN
  /\ slot[s].pc = "claim"
  /\ HasRoomAtClaim(j)
  /\ ~ LeaseFree(j.pr)
  /\ \/ /\ j.review
        /\ ReplacePending(j)
        /\ seen' = seen \ ClearedKeys(Superseded(j.pr))
        /\ jobState' = Cancelled(Superseded(j.pr))
     \/ /\ j.review => Replaceable(j.pr) = {}
        /\ AddPending(j)
        /\ UNCHANGED <<seen, jobState>>
  /\ SweepTenantClaims
  /\ Goto(s, "drop")
  /\ UNCHANGED <<queue, processing, inflight, done, recoveryVars, burst, delayed, lost,
                 arrivalVars, faultVars>>

Stamped(entries) == {[e EXCEPT !.meta = "fresh"] : e \in entries}

StampMeta(s) ==
  /\ slot[s].pc = "stamp"
  /\ processing' = (processing \ OwnEntries(s)) \cup Stamped(OwnEntries(s))
  /\ Goto(s, "held")
  /\ UNCHANGED <<listVars, inflight, dedupVars, recoveryVars, burst, tenantVars,
                 delayed, lost, arrivalVars, faultVars>>

-----------------------------------------------------------------------------
(* The lease of a claimed job.                                             *)

\* COMPARE_AND_EXTEND and REPLACE_CLAIM_PAYLOAD: a swept claim is charged
\* again, to the tenant of the job whatever its quota.
RebindTenant(j, k) ==
  /\ IF claimTenant[k] = NoTenant
     THEN /\ tenantActive' = [tenantActive EXCEPT ![j.tenant] = @ + 1]
          /\ claimTenant' = [claimTenant EXCEPT ![k] = j.tenant]
     ELSE UNCHANGED <<tenantActive, claimTenant>>
  /\ claimExpired' = claimExpired \ {k}

\* The heartbeat.  A renewal that finds another owner changes nothing.
RenewLease(s) ==
  /\ Executing(s) /\ TokenMatches(s)
  /\ RebindTenant(slot[s].job, slot[s].tok)
  /\ UNCHANGED <<listVars, processing, inflight, dedupVars, recoveryVars, burst,
                 delayed, slot, lost, arrivalVars, faultVars>>

\* Faulty variant: the state is set whoever holds the lease.
MarkRunningUnfenced(s) ==
  /\ slot[s].pc = "held"
  /\ jobState' = SetState(slot[s].job, "running")
  /\ Goto(s, "running")
  /\ UNCHANGED <<listVars, processing, inflight, seen, done, recoveryVars, burst,
                 tenantVars, delayed, lost, arrivalVars, faultVars>>

MarkRunning(s) ==
  /\ slot[s].pc = "held" /\ TokenMatches(s)
  /\ jobState' = SetState(slot[s].job, "running")
  /\ Goto(s, "running")
  /\ UNCHANGED <<listVars, processing, inflight, seen, done, recoveryVars, burst,
                 tenantVars, delayed, lost, arrivalVars, faultVars>>

\* A review stores its run id in the backup.
PersistJob(s) ==
  /\ slot[s].pc = "running" /\ slot[s].job.review
  /\ TokenMatches(s) /\ OwnEntries(s) # {}
  /\ RebindTenant(slot[s].job, slot[s].tok)
  /\ processing' = (processing \ OwnEntries(s))
                     \cup {[e EXCEPT !.meta = StampOnce(@)] : e \in OwnEntries(s)}
  /\ UNCHANGED <<listVars, inflight, dedupVars, recoveryVars, burst, delayed, slot,
                 lost, arrivalVars, faultVars>>

\* Lease or backup is gone: the worker forgets its claim, so that the failure
\* path finds none and leaves Redis as it is.
PersistJobFails(s) ==
  /\ slot[s].pc = "running" /\ slot[s].job.review
  /\ ~ TokenMatches(s) \/ OwnEntries(s) = {}
  /\ Leave(s)
  /\ UNCHANGED <<listVars, processing, inflight, dedupVars, recoveryVars, burst,
                 tenantVars, delayed, arrivalVars, faultVars>>

-----------------------------------------------------------------------------
(* The end of a claim.  Each script compares the token first.              *)

\* Owned: the PR lease, the backup and the tenant charge go together.
ReleaseOwned(s) ==
  /\ Executing(s) /\ TokenMatches(s)
  /\ ReleaseTenantClaim(slot[s].tok)
  /\ inflight' = [inflight EXCEPT ![slot[s].job.pr] = NoToken]
  /\ processing' = processing \ OwnEntries(s)

\* Not owned: completion, failure, dead-letter and return all only clear what
\* is the worker's own, and nothing is drained.
StaleRelease(s) ==
  /\ Executing(s) /\ ~ TokenMatches(s)
  /\ ReleaseTenantClaim(slot[s].tok)
  /\ processing' = processing \ OwnEntries(s)
  /\ Leave(s)
  /\ UNCHANGED <<listVars, inflight, dedupVars, recoveryVars, burst, delayed,
                 arrivalVars, faultVars>>

\* The run ended; a draft is skipped without a review of its SHA.
MarkCompleted(s) ==
  LET j == slot[s].job IN
  /\ slot[s].pc = "running"
  /\ ReleaseOwned(s)
  /\ \/ done' = done \cup CompletedKeys(j)
     \/ Automatic(j) /\ done' = done \cup {DraftOf(j)}
  /\ jobState' = SetState(j, "succeeded")
  /\ Goto(s, "drain")
  /\ UNCHANGED <<listVars, seen, recoveryVars, burst, delayed, lost, arrivalVars, faultVars>>

\* FINALIZE_OWNED_CLAIM with deleteSeen: the key may be delivered again.
MarkFailed(s, next) ==
  LET j == slot[s].job IN
  /\ ReleaseOwned(s)
  /\ seen' = ClearSeen(j)
  /\ jobState' = SetState(j, "failed")
  /\ Goto(s, next)
  /\ UNCHANGED <<listVars, done, recoveryVars, burst, delayed, lost, arrivalVars, faultVars>>

\* Closed, cancelled: the job ends.
FailTerminal(s) == slot[s].pc = "running" /\ MarkFailed(s, "drain")

\* A transient failure with attempts left is enqueued again before the drain.
FailTransient(s) ==
  /\ Executing(s)
  /\ Automatic(slot[s].job) /\ slot[s].job.attempts < MaxJobRetries
  /\ MarkFailed(s, "retry")

\* shouldReturnDequeuedJob: the worker stopped or drains for a deploy.
ReturnLate(s) ==
  /\ slot[s].pc = "held"
  /\ MarkFailed(s, "lateDrain")

\* DEAD_LETTER_OWNED_CLAIM; at shutdown (failInterruptedJobs) no drain follows.
DeadLetter(s) ==
  LET j == slot[s].job IN
  /\ ReleaseOwned(s)
  /\ deadLetters' = [deadLetters EXCEPT ![j] = @ + 1]
  /\ seen' = ClearSeen(j)
  /\ jobState' = SetState(j, "dead-lettered")
  /\ \/ Goto(s, "drain") /\ UNCHANGED lost
     \/ Leave(s)
  /\ UNCHANGED <<listVars, done, resumed, burst, delayed, arrivalVars, faultVars>>

\* RETURN_TO_QUEUE_LUA: no provider headroom, tenant concurrency or hourly
\* cap.  A pending job of the PR goes first and the returned one is dropped.
ReturnToQueue(s) ==
  LET j == slot[s].job
      waiting == pending[j.pr]
  IN
  /\ slot[s].pc = "running" => j.review
  /\ ReleaseOwned(s)
  /\ \/ /\ waiting # <<>>
        /\ pending' = [pending EXCEPT ![j.pr] = Tail(@)]
        /\ pendingCount' = Minus(pendingCount, 1)
        /\ queue' = Append(queue, Head(waiting))
        /\ jobState' = SetState(j, "cancelled")
        /\ UNCHANGED delayed
     \/ /\ waiting = <<>>
        /\ queue' = <<j>> \o queue
        /\ jobState' = SetState(j, "ready")
        /\ \/ delayed' = delayed \ {j}
           \/ slot[s].pc = "running" /\ delayed' = delayed \cup {j}
        /\ UNCHANGED <<pending, pendingCount>>
  /\ Goto(s, "drain")
  /\ UNCHANGED <<seen, done, recoveryVars, burst, lost, arrivalVars, faultVars>>

\* Faulty variant: the drained job is popped and not pushed.
DrainAway(p) ==
  /\ pending' = [pending EXCEPT ![p] = IF @ = <<>> THEN @ ELSE Tail(@)]
  /\ UNCHANGED <<queue, pendingCount>>

\* DRAIN_LUA moves one pending job of the PR, whoever holds the PR by now.
DrainPending(p) ==
  \/ /\ pending[p] = <<>>
     /\ UNCHANGED listVars
  \/ /\ pending[p] # <<>>
     /\ pending' = [pending EXCEPT ![p] = Tail(@)]
     /\ pendingCount' = Minus(pendingCount, 1)
     /\ queue' = Append(queue, Head(pending[p]))

ReleaseLockAndDrain(s) ==
  /\ slot[s].pc \in {"drain", "lateDrain"}
  /\ DrainPending(slot[s].job.pr)
  /\ IF slot[s].pc = "lateDrain" /\ pending[slot[s].job.pr] = <<>>
     THEN Goto(s, "late") /\ UNCHANGED lost
     ELSE Leave(s)
  /\ UNCHANGED <<processing, inflight, dedupVars, recoveryVars, burst, tenantVars,
                 delayed, arrivalVars, faultVars>>

\* The worker enqueues its job again: the DONE check of that enqueue ...
ResubmitCheck(s) ==
  /\ slot[s].pc \in {"retry", "late"}
  /\ IF IsCompleted(slot[s].job, done)
     THEN \/ slot[s].pc = "retry" /\ Goto(s, "drain") /\ UNCHANGED lost
          \/ slot[s].pc = "late" /\ Leave(s)
     ELSE /\ Goto(s, IF slot[s].pc = "retry" THEN "retrySubmit" ELSE "lateSubmit")
          /\ UNCHANGED lost
  /\ UNCHANGED <<listVars, processing, inflight, dedupVars, recoveryVars, burst,
                 tenantVars, delayed, arrivalVars, faultVars>>

\* ... and its script.
Resubmit(s) ==
  /\ \/ /\ slot[s].pc = "retrySubmit"
        /\ EnqueueScript(Retried(slot[s].job))
        /\ Goto(s, "drain")
        /\ UNCHANGED lost
     \/ /\ slot[s].pc = "lateSubmit"
        /\ EnqueueScript(slot[s].job)
        /\ Leave(s)
  /\ UNCHANGED <<processing, inflight, done, recoveryVars, burst, tenantVars, delayed,
                 arrivalVars, faultVars>>

-----------------------------------------------------------------------------
(* The recovery leader and the operator.                                   *)

\* RECOVER_PROCESSING_LUA on one entry e of the processing list.
RecoverSuperseded(e) ==
  /\ inflight[e.job.pr] \notin {NoToken, e.tok}
  /\ processing' = processing \ {e}
  /\ ReleaseTenantClaim(e.tok)
  /\ UNCHANGED <<listVars, inflight, dedupVars, recoveryVars, burst, delayed, slot,
                 lost, arrivalVars, faultVars>>

RecoverGrace(e) ==
  /\ LeaseFree(e.job.pr)
  /\ e.meta = "none"
  /\ processing' = (processing \ {e}) \cup {[e EXCEPT !.meta = StampOnce(@)]}
  /\ UNCHANGED <<listVars, inflight, dedupVars, recoveryVars, burst, tenantVars,
                 delayed, slot, lost, arrivalVars, faultVars>>

RecoverOrphan(e) ==
  LET j == e.job IN
  /\ LeaseFree(j.pr)
  /\ e.meta = "old"
  /\ processing' = processing \ {e}
  /\ ReleaseTenantClaim(e.tok)
  /\ \/ /\ IsCompleted(j, done)
        /\ UNCHANGED <<queue, seen, jobState, recoveryVars>>
     \/ /\ ~ IsCompleted(j, done)
        /\ resumed' = [resumed EXCEPT ![KeyOf(j)] = @ + 1]
        /\ seen' = ClearSeen(j)
        /\ \/ /\ resumed[KeyOf(j)] >= MaxResume
              /\ deadLetters' = [deadLetters EXCEPT ![j] = @ + 1]
              /\ jobState' = SetState(j, "dead-lettered")
              /\ UNCHANGED queue
           \/ /\ resumed[KeyOf(j)] < MaxResume
              /\ queue' = Append(queue, j)
              /\ jobState' = SetState(j, "ready")
              /\ UNCHANGED deadLetters
  /\ UNCHANGED <<pending, pendingCount, inflight, done, burst, delayed, slot, lost,
                 arrivalVars, faultVars>>

\* Faulty variant: the test for an owner inverted.
HeldByOwner(p) == inflight[p] # NoToken

\* RECOVER_PENDING_LUA: the head of a PR that nobody holds becomes ready.
Unattended(p) == inflight[p] = NoToken
RecoverPending(p) ==
  /\ Unattended(p)
  /\ pending[p] # <<>>
  /\ DrainPending(p)
  /\ seen' = seen \ {KeyOf(Head(pending[p]))}
  /\ UNCHANGED <<processing, inflight, done, jobState, recoveryVars, burst, tenantVars,
                 delayed, slot, lost, arrivalVars, faultVars>>

\* REPLAY_DEAD_LETTER_LUA refuses a job whose SHA is reviewed or whose key is
\* still SEEN.
Replayable(j) == BareOf(j) \notin done /\ KeyOf(j) \notin seen

\* Faulty variant: a replayed payload is pushed whether or not it is listed.
AlwaysListed(j) == TRUE

Listed(j) == deadLetters[j] > 0
ReplayDeadLetter(j) ==
  /\ Listed(j)
  /\ Replayable(j)
  /\ deadLetters' = [deadLetters EXCEPT ![j] = @ - 1]
  /\ seen' = seen \cup {KeyOf(j)}
  /\ queue' = Append(queue, j)
  /\ jobState' = SetState(j, "ready")
  /\ UNCHANGED <<pending, pendingCount, processing, inflight, done, resumed, burst,
                 tenantVars, delayed, slot, lost, arrivalVars, faultVars>>

-----------------------------------------------------------------------------
(* Time and failures.                                                      *)

CanCrash == crashes < MaxCrashes /\ crashes + stalls < MaxFaults
CanStall == stalls < MaxStalls /\ crashes + stalls < MaxFaults

\* The 30 s grace of an entry passes: freely if no worker is between DEQUEUE
\* and CLAIM with it, and only if that worker stalls otherwise.
GraceElapses(e) ==
  /\ e.meta = "fresh"
  /\ processing' = (processing \ {e}) \cup {[e EXCEPT !.meta = "old"]}
  /\ IF \E s \in Slot : slot[s].tok = e.tok /\ slot[s].pc \in {"check", "claim", "drop"}
     THEN CanStall /\ stalls' = stalls + 1
     ELSE UNCHANGED stalls
  /\ UNCHANGED <<listVars, inflight, dedupVars, recoveryVars, burst, tenantVars,
                 delayed, slot, lost, arrivalVars, crashes>>

DelayElapses(j) ==
  /\ j \in delayed
  /\ delayed' = delayed \ {j}
  /\ UNCHANGED <<listVars, processing, inflight, dedupVars, recoveryVars, burst,
                 tenantVars, slot, lost, arrivalVars, faultVars>>

\* A lease or a tenant charge runs out once nobody renews it: freely when its
\* owner is gone, and only if the owner stalls past the TTL otherwise.
Renewers(k) == {s \in Slot : slot[s].tok = k /\ Leased(s) /\ Owns(s)}

Unrenewed(k) ==
  \/ Renewers(k) = {} /\ UNCHANGED stalls
  \/ Renewers(k) # {} /\ CanStall /\ stalls' = stalls + 1

LeaseExpires(p) ==
  /\ inflight[p] # NoToken
  /\ Unrenewed(inflight[p])
  /\ inflight' = [inflight EXCEPT ![p] = NoToken]
  /\ lost' = lost \cup Renewers(inflight[p])
  /\ UNCHANGED <<listVars, processing, dedupVars, recoveryVars, burst, tenantVars,
                 delayed, slot, arrivalVars, crashes>>

TenantClaimExpires(k) ==
  /\ claimTenant[k] # NoTenant /\ k \notin claimExpired
  /\ Unrenewed(k)
  /\ claimExpired' = claimExpired \cup {k}
  /\ UNCHANGED <<listVars, processing, inflight, dedupVars, recoveryVars, burst,
                 tenantActive, claimTenant, delayed, slot, lost, arrivalVars, crashes>>

\* A worker process dies; what is in Redis stays.
Crash(s) ==
  /\ slot[s].pc # "idle"
  /\ CanCrash
  /\ crashes' = crashes + 1
  /\ Leave(s)
  /\ UNCHANGED <<listVars, processing, inflight, dedupVars, recoveryVars, burst,
                 tenantVars, delayed, arrivalVars, stalls>>

-----------------------------------------------------------------------------
Dequeue(s) ==
  \/ DequeueEmpty(s) \/ DequeueJob(s) \/ DequeueBlocked(s)
  \/ CheckDone(s) \/ DropEntry(s)
  \/ ClaimTenantFull(s) \/ ClaimLease(s) \/ ClaimPending(s) \/ StampMeta(s)

EndJob(s) ==
  \/ MarkCompleted(s) \/ FailTerminal(s) \/ FailTransient(s) \/ DeadLetter(s)
  \/ ReturnToQueue(s) \/ ReturnLate(s) \/ StaleRelease(s) \/ PersistJobFails(s)

Finish(s) == ReleaseLockAndDrain(s) \/ ResubmitCheck(s) \/ Resubmit(s)

Recover ==
  \/ \E e \in processing : RecoverSuperseded(e) \/ RecoverGrace(e) \/ RecoverOrphan(e)
  \/ \E p \in PR : RecoverPending(p)

Next ==
  \/ \E j \in Job : Arrive(j) \/ Enqueue(j) \/ ReplayDeadLetter(j) \/ DelayElapses(j)
  \/ \E s \in Slot : \/ Dequeue(s) \/ MarkRunning(s) \/ RenewLease(s) \/ PersistJob(s)
                     \/ EndJob(s) \/ Finish(s) \/ Crash(s)
  \/ Recover
  \/ \E e \in processing : GraceElapses(e)
  \/ \E p \in PR : LeaseExpires(p)
  \/ \E k \in Token : TenantClaimExpires(k)

Spec == Init /\ [][Next]_vars

-----------------------------------------------------------------------------
(* Fairness.  A worker's next Redis call is eventually made and every claimed *)
(* job ends one way or another (reviews run under deadlines); recovery runs   *)
(* every 30 s; time passes.  Producers, replays, renewals and faults are free. *)
Fairness ==
  /\ \A s \in Slot : /\ WF_vars(Dequeue(s))
                     /\ WF_vars(MarkRunning(s) \/ EndJob(s))
                     /\ WF_vars(Finish(s))
  /\ \A k \in Token :
       /\ WF_vars(\E e \in processing : e.tok = k /\ (RecoverSuperseded(e) \/ RecoverGrace(e) \/ RecoverOrphan(e)))
       /\ WF_vars(\E e \in processing : e.tok = k /\ GraceElapses(e))
  /\ \A p \in PR : WF_vars(RecoverPending(p)) /\ WF_vars(LeaseExpires(p))

FairSpec == Spec /\ Fairness

-----------------------------------------------------------------------------
(* Safety.                                                                 *)

\* Every charge of a tenant is released exactly once, on each of the many
\* paths (completion, failure, stale worker, recovery, sweep, rebind) that
\* release one: the counter is the number of charged claims.
TenantAccounting ==
  \A t \in Tenant : tenantActive[t] = Cardinality({k \in Token : claimTenant[k] = t})

\* A worker whose lease did not run out under it holds the lease of its PR:
\* no other worker, recovery pass or stale finisher takes it away.
OwnerHoldsLease == \A s \in Slot : Leased(s) /\ s \notin lost => Owns(s)

\* Two workers execute jobs of one PR only if the lease of one ran out.
PrExclusion ==
  \A s, r \in Slot :
    s # r /\ Executing(s) /\ Executing(r) /\ slot[s].job.pr = slot[r].job.pr
      => s \in lost \/ r \in lost

\* A worker that lost its lease can end its job only on its own account: no
\* DONE mark, no state change, no dead letter, no drain, no foreign backup.
LeaseFencing ==
  [][\A s \in Slot :
       Executing(s) /\ ~ Owns(s) /\ slot'[s] # slot[s] =>
         /\ UNCHANGED <<listVars, inflight, dedupVars, recoveryVars>>
         /\ processing \ processing' \subseteq OwnEntries(s)
         /\ \A k \in Token \ {slot[s].tok} : claimTenant'[k] = claimTenant[k]]_vars

\* Seen from outside the queue is a lock on pull requests: whatever else a
\* script does, it draws, acquires, releases, abandons or expires a lease as
\* PrLock says, or leaves the leases alone.
LockClaim(s) ==
  IF slot[s].pc \in {"check", "claim", "drop"}
  THEN [at |-> "waiting", pr |-> slot[s].job.pr, tok |-> slot[s].tok]
  ELSE IF Leased(s) THEN [at |-> "held", pr |-> slot[s].job.pr, tok |-> slot[s].tok]
  ELSE [at |-> "none"]

Claims == [s \in Slot |-> LockClaim(s)]
Losers == {s \in lost : Leased(s)}

Lock == INSTANCE PrLock WITH claim <- Claims, lease <- inflight, lost <- Losers

PrLockImplemented == Lock!Spec

\* The counter that the scripts move with every pending list, and that the
\* depth report reads, is the number of jobs that wait behind a PR.
Waiting == {p \in PR : pending[p] # <<>>}
PendingCountExact == pendingCount = SumFunctionOnSet([p \in PR |-> Len(pending[p])], Waiting)

\* Coalescing leaves at most one review waiting behind a PR, whether it got
\* there from a delivery or from a CLAIM that found the PR held.
OnePendingReview == \A p \in PR : \A i, k \in ReviewsIn(pending[p]) : i = k

\* A fix, ask or resolve command that waits behind a PR leaves the pending
\* list only for the ready queue.
CommandsKept ==
  [][\A p \in PR : \A i \in 1..Len(pending[p]) :
       LET c == pending[p][i] IN
         c.review \/ Contains(pending'[p], c) \/ Contains(queue', c)]_vars

\* Where a job with key k still is: stored in Redis, or in the hands of a worker.
Stored(k) ==
  \/ \E i \in 1..Len(queue) : KeyOf(queue[i]) = k
  \/ \E p \in PR : \E i \in 1..Len(pending[p]) : KeyOf(pending[p][i]) = k
  \/ \E e \in processing : KeyOf(e.job) = k
IsLive(k) == Stored(k) \/ \E s \in Slot : slot[s].pc # "idle" /\ KeyOf(slot[s].job) = k

\* An accepted job disappears before its end in two ways only: with a worker
\* that has no backup of it or no longer holds its lease, and when recovery
\* meets its backup while another claim holds the PR.  (A command review that
\* a newer review replaces is left out: it is replaced on purpose.)
Open(k) == jobState[k] \in {"ready", "claimed", "running"}

LostWithWorker(k) ==
  \E s \in Slot : /\ slot[s].pc # "idle" /\ slot'[s].pc = "idle"
                  /\ KeyOf(slot[s].job) = k
                  /\ OwnEntries(s) = {} \/ ~ Owns(s)
LostToRecovery(k) ==
  \E e \in processing \ processing' :
    KeyOf(e.job) = k /\ inflight[e.job.pr] \notin {NoToken, e.tok}

DroppedOnlyUnbacked ==
  [][\A j \in Job : LET k == KeyOf(j) IN
       /\ Automatic(j) \/ ~ j.review
       /\ IsLive(k) /\ ~ IsLive(k)' /\ Open(k)' /\ ~ IsCompleted(j, done)'
       => LostWithWorker(k) \/ LostToRecovery(k)]_vars

\* A transient failure is not the end of a job: when the retry has been
\* submitted, the job is stored in Redis, or another delivery of it has taken
\* its key over (and left the state that the failure set).
RetryNotLost ==
  [][\A s \in Slot : LET j == slot[s].job IN
       slot[s].pc = "retrySubmit" /\ slot'[s].pc = "drain"
         => Stored(KeyOf(j))' \/ jobState'[KeyOf(j)] # "failed"]_vars

\* The limited jobs of a tenant that run at a time are within its ceiling, as
\* long as no charge ran out under its worker.
TenantCeiling ==
  TenantLimit > 0 /\ stalls = 0 =>
    \A t \in Tenant :
      Cardinality({s \in Slot : /\ Leased(s) /\ s \notin lost
                                /\ slot[s].job.tenant = t /\ ~ slot[s].job.unlimited}) <= TenantLimit

-----------------------------------------------------------------------------
(* Liveness.                                                               *)

\* The backup of a job nobody works on is recovered.
Abandoned(k) ==
  /\ \E e \in processing : e.tok = k
  /\ \A s \in Slot : slot[s].tok # k
BackupsRecovered == \A k \in Token : Abandoned(k) ~> ~ Abandoned(k)

\* Work never strands behind a PR that nobody holds.
Stranded(p) == pending[p] # <<>> /\ inflight[p] = NoToken
PendingServed == \A p \in PR : Stranded(p) ~> ~ Stranded(p)

-----------------------------------------------------------------------------
(* What the repository says and the code does not do; each is the subject  *)
(* of one run that shows the counterexample.                               *)

\* A waiting review is not overwritten by a command.
ReviewKeptFromCommands ==
  [][\A p \in PR :
       ReviewsIn(pending[p]) # {} /\ ReviewsIn(pending'[p]) = {}
         => Len(pending'[p]) < Len(pending[p])]_vars

\* An accepted job whose lifecycle is not over is somewhere: queued, waiting,
\* backed up or in a worker.
NeverDropped ==
  \A j \in Job : Automatic(j) \/ ~ j.review =>
    (Open(KeyOf(j)) => IsLive(KeyOf(j)))

\* Unlimited jobs take none of their tenant's slots.
UnlimitedNotCharged ==
  \A s \in Slot : Leased(s) /\ slot[s].job.unlimited => claimTenant[slot[s].tok] = NoTenant

\* One SHA is not reviewed twice under different webhook actions.
NoDoubleReview ==
  \A s \in Slot : slot[s].pc = "running" /\ Automatic(slot[s].job) /\ s \notin lost
    => ~ IsCompleted(slot[s].job, done)

=============================================================================
