# Verification of the review service

The repository is a service that reviews pull requests.  GitHub webhooks and
comment commands become jobs of a durable queue in Redis; worker processes
claim them, reserve and bill a review run in SQLite, buy the passes of the
review from models under the admission control of the fleet, post the review to
GitHub, remember its findings and commit fixes.  Stripe's events keep plan,
revenue and prepaid credits.  This directory models the parts where several
actors work on shared state, checks them with TLC on small instances and proves
their main properties with TLAPS for all sizes.

Contents: 1 the system, 2 the modules, 3 how the models correspond to the code,
4 the runs, 5 fairness, 6 what is proved, 7 where the code departs from what
the repository says, 8 what is not modelled, 9 the plan.

## 1. The system

`PROJECT.json` lists every component with its sources.  The ones with state
that outlives a call:

| component | state | operations | talks to |
|---|---|---|---|
| Redis review queue (`packages/queue/src/redis-*.ts`) | ready list, a pending list per pull request and one counter for all, processing list (durable backups) with a meta key each, lease per pull request, SEEN and DONE keys, lifecycle state and resume counter per key, dead letters, FIFO-burst counter, tenant occupancy with a claim per token | `enqueue`, `dequeue` (DEQUEUE, DONE check, CLAIM, meta stamp), `renewLease`, `markRunning`, `persistJob`, `markCompleted`, `markFailed`, `deadLetter`, `returnToQueue`, `releaseLockAndDrain`, recovery of processing entries and of pending lists, replay | called by producers, workers, the recovery leader, operators |
| Worker loop (`apps/server/src/application/worker`) | the claimed job and its token, stop and drain flags, heartbeat timers | one job after another per slot; retry of transient failures; hand-back of a late dequeue; dead letters at shutdown | the queue; the run store; the review |
| Review run (`packages/store/.../review-lifecycle.ts`, `apps/.../admission-service.ts`, `finalization-service.ts`) | rows of `review_runs`: status, `worker_id`, heartbeat | reserve, resume, interrupt, complete, fail, declare stale runs interrupted | payload's `runId` in the queue; wallet; publication |
| Prepaid wallet (`billing/prepaid-wallet.ts`) | `tenant_credit_ledger`, balance | debit with the reservation, reconcile at completion, refund at failure | review run |
| Publication claim (`review-publication.ts`, `publication/claim-lifecycle.ts`) | rows of `review_publications`: status, claim token | claim, complete, release, operator's resolution | GitHub write |
| Provider admission (`redis-provider-admission.ts`, `packages/review/src/llm/provider-admission.ts`) | sorted sets of leases and of waiters, fleet cooldown; in each process: the gate, the parked calls, an own copy of the cooldown | acquire in fair order, renew, release, wait out a cooldown, park, publish a cooldown | model calls |
| Token-per-minute windows (`provider-tpm.ts`, `llm/tpm-window.ts`) | rolling reservations | reserve, commit, expire | model calls |
| Webhook intake (`webhook-delivery-service.ts`, `application/github`) | rows of `webhook_events` for deliveries and for payloads; installation, repository and pull request rows | claim both rows, dispatch to the handlers of pull requests, comments, checkboxes and installations, settle; prune | queue, findings |
| In-memory queue (`memory.ts`) | the queue of one process: ready list, pending lists, in-flight claim, states, seen and completed keys | the queue's interface, each call atomic | webhook intake and worker of the same process |
| Review stages (`review-executor.ts`, `review-stage-scheduler.ts`, `review-provider-execution.ts`) | lineup of calls, batch in flight, outcomes, cancellation flags of one attempt | select calls within the budget, run lanes, retry what is missing, judge coverage, verify, publish or throw | admission, publication, worker's retries |
| Findings and auto-fix (`merge.ts`, `review-state.ts`, `fix-service.ts`, `fixes.ts`, `pr-review-state.ts`) | the row of a pull request in `pr_reviews`, suppressions, `fix_locks`, the branch | merge a review's findings into the row, fix and commit, ignore, merge the base, push | queue, GitHub |
| Billing events (`packages/billing`, `stripe-revenue.ts`, `tenant-subscription.ts`, `revenue-reconciliation-service.ts`) | plan, subscription, revenue rows, credit ledger, event claims | apply each type of event, cancel a replaced subscription, claw back, reconcile with Stripe | Stripe, wallet |

Interactions.  A producer's `enqueue` races the workers' `dequeue`; every
operation is one Lua script, but a worker strings several together (DEQUEUE,
GET DONE, CLAIM, SET meta, SET state, ..., finalize, drain) and any other
process, the recovery leader and a TTL may act between two of them.  The run
store and the queue are two databases: a crash leaves one ahead of the other,
and the payload's `runId` is the only thread between them.  A GitHub write and
its record are two steps in two systems.  A model call passes a fleet lease in
Redis and a gate in its process, in that order, and must hold neither while it
waits for the other.  A delivery and its payload are claimed in two rows; a
handler gives way at every await.  A review and a fix job read the row of the
pull request when they start and write all of it when they end; the ignore
command writes it at once, from the webhook.  Stripe's events arrive in any
order and again, while Stripe itself moves on.

What is hard here, and which property it is the subject of, is the list
`hazards` of `PROJECT.json`, each at its line.  In one line per component:

- queue: a lease belongs to one worker; a worker without it changes nothing;
  coalescing loses no command; no accepted job vanishes; tenants are charged
  exactly; what a crash strands is recovered;
- run, wallet, publication: one review per run on GitHub; a run ends once, by
  its owner; a completed run is published and paid for;
- admission: capacity holds through crashes and lost replies; nobody waits on
  the gate with a lease in hand; every call that starts settles;
- intake and in-memory queue: a payload is handled by one request at a time,
  what is recorded as processed was handled, no job is lost between the lists;
- review stages: what is published is covered by an answer for every required
  pass and chunk, a retry buys only what is missing, every attempt ends;
- findings: a high finding closes on evidence only, an ignored one stays so, no
  change slips between reviews, a fix commits only itself on the tip it read;
- billing: the plan ends as Stripe has it, nobody is downgraded by an old
  subscription, refunds and credits count once.

## 2. The modules

| module | models | of |
|---|---|---|
| `QueueJobs` | payloads, their keys, lifecycle states | `packages/queue/src/types.ts`, `state-machine.ts` |
| `RedisQueue` | every script and round trip of the queue, the worker slots that make them, recovery, replay, time and crashes | `packages/queue/src/redis-*.ts`, `application/worker` |
| `PrLock` | abstract: what the queue promises about the lease of a pull request | the contract behind `redis-lease.ts` |
| `ReviewRun` | attempts at one job: admission, debit, publication claim, GitHub write, completion, failure, shutdown, crash, recovery, operator | `packages/store`, `application/review` |
| `ProviderAdmission` | model calls through the fleet lease and the gate of their process | `redis-provider-admission.ts`, `llm/provider-admission.ts` |
| `MemoryQueue` | the queue of one process and its worker | `packages/queue/src/memory.ts`, `worker/job-processor.ts` |
| `WebhookIntake` | claims of deliveries and payloads, the handlers of events, on top of `MemoryQueue` (EXTENDS) | `application/github`, `store/.../maintenance.ts`, `routes/webhook.ts` |
| `ReviewPasses` | the calls of one review: selection, lanes, outcomes, retry, coverage, cancellation, replay | `application/review/review-*.ts`, `llm/provider-admission.ts` |
| `Findings` | the row of a pull request and the branch under reviews, fixes, ignores, merges, pushes | `review/src/merge.ts`, `autofix`, `github/src/fixes.ts` |
| `ApplyButton` | the checkbox that applies one fix: webhook, queue, worker | `github-comment-command-service.ts`, `fix-service.ts`, `github-publication.ts` |
| `Billing` | Stripe's truth, its events, their handlers, the reconciliation | `packages/billing`, `repositories/billing` |
| `MCRedisQueue`, `MCReviewRun`, `MCProviderAdmission`, `MCWebhookIntake`, `MCReviewPasses`, `MCFindings`, `MCBilling` | values, layouts, scripts and symmetry of the small instances | |
| `DataTheorems` | facts about sums over finite sets, least elements and lists with keys, which the proofs below cite | |
| `RedisQueueProofs`, `ReviewRunProofs`, `ProviderAdmissionProofs`, `WebhookIntakeProofs`, `ReviewPassesProofs`, `FindingsProofs`, `BillingProofs` | theorems | |

`RedisQueue` composes with `PrLock` by refinement: `Lock == INSTANCE PrLock WITH
claim <- ..., lease <- inflight, lost <- ...`, and `PrLockImplemented` is
`Lock!Spec`.  `ReviewRun` stands on top of the queue; it keeps of it only the
lease (`holder`), the durable payload (`job`) and where that lies, as the
promises proved of the queue allow: one holder unless a lease ran out.
`Findings` stands on the same promise (`lease`), `ReviewPasses` is what happens
between `Prepare` and `CheckRun` of `ReviewRun`, and `WebhookIntake` hands its
jobs to the operators of `MemoryQueue` in the same step, as one process does.

Definitions marked "Faulty variant" are not part of the model.  Each is the
definition that follows it with a plausible mistake, and replacing the one by
the other makes some property fail (`mutants` in `PROJECT.json`), which shows
that the property speaks about that code.

## 3. Correspondence

### RedisQueue

One action is one Redis round trip.  A slot's record `[pc, job, tok]` is the
worker's place in its loop:

| `pc` | place in the code | next action |
|---|---|---|
| `idle` | `workerLoop` calls `dequeue` | `DequeueJob`, `DequeueEmpty`, `DequeueBlocked` |
| `check` | DEQUEUE_LUA answered | `CheckDone` |
| `claim` | not DONE | `ClaimLease`, `ClaimPending`, `ClaimTenantFull` |
| `drop` | DONE, or put behind the pull request | `DropEntry` |
| `stamp` | CLAIM_LUA answered `claimed` | `StampMeta` |
| `held` | `processWorkerJob` begins | `MarkRunning`, `ReturnLate`, `ReturnToQueue`, `FailTransient`, ... |
| `running` | the job runs | `PersistJob`, `RenewLease`, and one of the ends of a job |
| `drain` | `releaseLockAndDrain` | `ReleaseLockAndDrain` |
| `retry`, `retrySubmit` | `requeueTransientFailure` | `ResubmitCheck`, `Resubmit` |
| `lateDrain`, `late`, `lateSubmit` | `returnLateDequeuedJob` | `ReleaseLockAndDrain`, `ResubmitCheck`, `Resubmit` |

Every end of a job compares the token first; a worker that no longer holds the
lease takes `StaleRelease`, whatever it wanted to do.  `EnqueueScript` is
ENQUEUE_LUA with its four outcomes and is shared by producers and by both kinds
of resubmission.  A delivery is two steps (`Arrive`: the DONE check; `Enqueue`:
the script), so that a completion may fall in between.

Time is events: a lease or tenant claim runs out (`LeaseExpires`,
`TenantClaimExpires`), the 30 s grace of a backup passes (`GraceElapses`), a
delayed job becomes available (`DelayElapses`).  A lease with a live owner runs
out only as a stall, of which there are at most `MaxStalls`; one whose owner is
gone runs out freely.  `Crash` frees a slot and leaves Redis as it is.

Abstracted: keys are records, not strings; a payload carries its pull request,
SHA, webhook variant, kind, tenant, quota, priority and attempts.  The
clocks, the 24 h TTLs of SEEN, DONE and state keys, the caps of lists and of
the expiry sweep (256), the paging of recovery, alerts and the registry of
capacities are left out.  Two identical deliveries between DONE check and
script collapse (`arriving` is a set); the second would be refused by SEEN.

### ReviewRun

One job, attempts by `Slot`, each in the process `WorkerOf[s]`.  A process never
comes back (a restart draws a new `workerId`, `store/src/database.ts:77`); slots
of the same process share the id, and with it the fence of `review_runs`.
`Slow` slots may stop for minutes, outlive their lease and their heartbeat, and
go on.  The program counter follows `admit` -> (`capped`) -> `prepare` -> `review`
-> `lease` -> `claim` -> `write` -> `record` -> `close` -> `ok`, with `fail` and
`refund` on the way out.  `Dequeue` merges the queue's DEQUEUE, CLAIM and
mark-running, `RecoverOrphan` the expiry of a lease and the recovery that
follows it; both are separate in `RedisQueue`.  `Interrupt` is the shutdown of a
worker (`failInterruptedJobs`, the runs' interruption), after which its attempt
may still run its failure path.  A GitHub write succeeds, fails, or succeeds and
is reported failed.

Abstracted: the tenant's plan is a concurrency limit and it pays for every run
from the prepaid overage (the case in which a debit exists); `net` is the
difference of debits and refunds of a run; the head does not move; of the
artifacts of a review only the main one is kept, the others use the same claim.

### ProviderAdmission

A caller is one paid call inside a worker process.  It goes `idle` ->
`cooldown` -> `wait` -> `leased` or `hot` -> `calling` -> `release`, or back
through `backOff` (a cooldown was published meanwhile) or `toPark` -> `parked`
(its process's gate is full), and through `publish` when it meets a rate limit.
`leases` and `waiters` are the sorted sets; `leaked` counts live leases whose
caller is gone, `waiters` entries of dead processes stay until they are an hour
old.  Every worker job runs under the same priority bias
(`worker/job-processor.ts:102`), so that the order of waiters is the order of
arrival; the bias orders nobody.  (`llm/provider-admission.ts:22` speaks of up
to one hour, the value given is one minute; neither matters as long as all have
the same.)  Wake keys only shorten the pause between polls and are left out.

### MemoryQueue and WebhookIntake

A method of `MemoryReviewQueue` has no await, so each is an operator from the
queue's record `mq` to its next value (`Enqueued`, `Dequeued`, `Completed`,
`Failed`, `Returned`, `Drained`, `Replayed`); it refuses an illegal transition of
a key's state as `assertJobTransition` does (`Throws`).  A worker's `stage` is its
place between two calls: `claimed`, `running`, `applied` (an automatic fix was
enqueued), `retry`, `drain`.

A request goes `Receive` (both claims) -> `dispatch` -> the handler of its event ->
`done` or `failed` -> `Settle`.  Handlers stop at their awaits: `confirm` asks
GitHub whether a closed pull request is closed, `permit` whether the commenter may
write, `reply` posts the answer after the job is enqueued, `list` pages through the
repositories of an installation.  `Stale` is the stale window of a claim passing
under a request that goes on, `Forget` the pruning of rows whose replay window is
over, `Edit` a repository or setting changed in the dashboard, `Crash` the end of
the process at any point, between the two rows included; it empties the queue.
Events are what GitHub may say (an opened, pushed, reopened or closed pull request,
commands, a tick, installations coming and going); a `Script` fixes three payloads,
which deliveries carry them (twins of one payload among them) and how much of the
faults the instance uses.

Abstracted: signatures and bodies, the text of commands, who may command what
beyond yes or no, the wording of replies.

### ReviewPasses

A plan is a lineup of passes (kind, tag, mode, best effort, provider), the number
of chunks of the diff, of samples, and the call budget.
`selectScheduledReviewCalls` chunks, samples and cuts it as the scheduler does;
`interleaveProviderLane`, `LaneOpen` and `Ahead` order the lanes.  `todo`,
`running` and `ended` are the batch; `CallSteps` starts, ends or skips a call,
with every answer (`ok`, `degraded`, `transient`, `capacity`, `failed`).  The
phases are those of `executeReviewCore`: `setup` -> `batch` -> (`wait` ->
`retry`) -> `judge` -> `verify` -> `publish` -> `over`, or `queued` when the
error sends the job back (`Throw`, which reads the error as the worker does:
whether it says "refusing to publish", whether it is for want of capacity or
transient).  A close (`cancelClosedReview`) and the loss of the run
(`cancelForOwnershipLoss`) set their flags at any moment; the calls see them where
the code looks.  `Publish` is one step over the awaits of `publishReview`: the
executor returns its promise without awaiting it, so that the `finally` stops the
heartbeat and the listener of closes at the first of them, and only a poll already
under way could still set a flag.

Abstracted: what a model says; a unit is the position of its pass and its chunk;
`maxCalls` stands for the larger of the budget and the number of discovery calls;
a capacity error always starts with "429" and is therefore transient as well; the
merge of samples by a model and the disclosures in the review are left out.  Two
readings that look odd and are the code's: a sweep's answer counts for "some
required pass succeeded", and all samples of a missing unit are bought again.

### Findings

A site is the place of one finding, in a file of its own; a commit is its number
on the branch and maps sites to the text there: flagged, fixed, other, gone.  A
finding of an audit rule (`Audited`) closes when the audit of the file is clean, and
needs no recorded fix: any text that passes the audit is its "fixed".  `row`
is the row of `pr_reviews`.  A job goes `head` -> `reading` -> `publishing` ->
`posting` -> `posted` (a review) or `gates` -> `locked` -> `ready` -> `committing` ->
`saving` (a fix); `read` is the copy of the row it took at its start, `out` the
copy it will write.  `leaseValid` is the check of the queue's lease before a write
and `Stall` the lease's end after it, which a transient Redis failure resembles.
`commitFilesAtomic` moves the branch only from the tip that was read;
`CommitUnheard` is the answer that gets lost.  `acquireFixLock` and
`FixLockExpires` are the five-minute lock, which nobody renews: what protects the
branch is the compare-and-set, and the property says so with the lock expiring at
any time.  A failure to save after the post is `Abandon` at `posted`.

Abstracted: rows written by hand, severity upgrades, the cap on targets of a fix,
files that leave the diff, forced pushes, a head that lags behind the branch, the
free-form commit of the ask job, the generation and validation of a fix (its
outcome is any subset).

### ApplyButton

`line` is what the checkbox shows.  The delivery of a tick enqueues the job, then
writes "Applying" with the body it was delivered; the worker takes the job, skips
at its gates, or commits, and puts back a retry box or "applied".  `known` are the
keys the queue has seen or done: the key of a tick at the same head is the same,
and the queue drops the job without telling the webhook.

### Billing

Stripe's side is a `Story` of acts (subscriptions that start, lapse, recover and
end, a top-up, an invoice, refunds, a dispute) which create events in order.
`claim` are the rows of `webhook_events` of Stripe's events.  `Writes` gives, for an
event, the list of states of the database after each statement of its handler;
`Process` runs all of them, `Crash` any prefix.  The checkout handler has two calls
to Stripe between its statements (`StartCheckout`, `CancelSubscription`,
`GetSubscription`), each of which may fail.  An unordered story delivers any event
created so far.  `ListInvoices`, `ListCharges` and `ListRefunds` are the pages of the
operator's reconciliation, with webhooks in between; `NewRows` and `RestRow` are
its rows.

Abstracted: amounts are a few units, one customer, one tenant; prices, portal
sessions, quotas and tax.

## 4. The runs

"Distinct" is the number of distinct states TLC visits.

| run | instance | checks | distinct |
|---|---|---|---|
| `redis_coalesce` | two slots, one pull request with two pushes and a fix command, three deliveries, no fault | `TypeOK`, `PendingCountExact`, `OnePendingReview`, `CommandsKept` | 863 k |
| `redis_faults` | two slots, two tokens, a review and an unlimited fix command of one pull request and a review of another of the same tenant, ceiling one; a crash or a stall at any point | `PrExclusion`, `LeaseFencing`, `DroppedOnlyUnbacked`, `PrLockImplemented`, `TenantAccounting`, `TenantCeiling` | 677 k |
| `redis_live` | two pushes and a fix command, two deliveries, one slot, two tokens, one retry, one crash, fairness | `BackupsRecovered`, `PendingServed`, `RetryNotLost` | 165 k |
| `run_fences` | three slots in two processes, one slow, two run ids, two units, one return, replay, resolution and lost reply | `TypeOK`, `OneWritePerRun`, `CompletedWasPublished`, `PaidUnlessDisowned`, `EndedByOwner`, `EndedStays`, `ClaimFenced` | 2.1 M |
| `provider_admission` | three callers in two processes, capacity two, gate one, five calls, one rate limit, two faults, fairness | `FleetCeiling`, `GateExact`, `ParkedWithoutLease`, `CallsSettle` | 138 k |
| `webhook_intake` | six scripts of three deliveries, two requests at a time, one worker, one retry and one deferral; three of the scripts with a slow request, a replay window, a change in the dashboard or a crash | `OwnsUnlessLate`, `ProcessedWasHandled`, `JobsAccounted`, `CommandsKeptBehind` | 1.1 M |
| `billing` | five stories of two subscriptions and a top-up, two crashes or failed calls at any statement; two stories unordered and reconciled meanwhile | `SettledTruth`, `RevenueExact`, `WalletExact`, `DowngradedOnOwnWord` | 301 k |
| `review_passes` | five lineups of up to three calls (chunked, over budget, with a sweep and an investigation, sampled, empty), every answer, two starts, fairness | `PublishedCovered`, `RetryBuysMissing`, `AttemptEnds` | 385 k |
| `findings` | a high finding with a recorded fix, a low one of an audit rule, three commits, two jobs, one of which may outlive its lease, ignores, merges and pushes at any time | `HighFixedOnEvidence`, `CoveredUpTo`, `OnlyFixesCommitted`, `NoFlipFlop`, `IgnoredKept` | 2.1 M |
| `run_unpaid_delivery`, `findings_ignored_reported`, `button_stuck` | as small as shows the case | one property each, refuted: section 7 | |

Why the bounds are enough.  The queue's scripts look at one pull request and
one token at a time, and what they compare is "mine, another's, none": two
slots and one token more than holders give all three.  A second pull request
matters only to the tenant counter, where it is present.  `Window` and
`BurstLimit` are 1 or 2: the window then is smaller than the queue, and the
burst limit is reached.  A token is reused once nothing in Redis or in a worker
names it, so the number of tokens bounds the claims that coexist, not those of
a behaviour.  Two run ids are what a job needs to be billed twice; the second
slot of a process is what tells the process's fence from the attempt's; the
slow slot is what tells a lease from an attempt.  Three callers and capacity two
give a waiter behind a full fleet and a parked call behind a full gate at once.
Two requests and twins of one payload give every race of the two claims; a third
request would meet the same rows.  Three calls make a lane with one call waiting
behind another lane, a chunk without its sibling's answer, and a sample of two.
Two jobs are a job that reads and one that writes meanwhile, three commits a
commit under a job that reads the one before; a finding that is fixed, reopened
and met again takes three jobs, which `MCFindings_Thrice.cfg` covers with two
commits and a low finding without a fix (83 k states, same properties).  Two subscriptions are the one that a
tenant has and the one it had; two faults are a crash and the crash of the
handler that repeats it.  The theorems of section 6 remove the bounds for the
properties they cover.

Permutations of slots, tokens, requests and run ids are symmetries where TLC is
told so (never in a run with a temporal property other than an action property
or a refinement without fairness).

`CHECK_DEADLOCK FALSE`: producers stop at `MaxArrivals`, dead workers of
`ReviewRun` do not come back, calls stop at `MaxStarts`, deliveries at `MaxClaims`,
jobs at `MaxJobs`, stories end; the system then rests.

The other `.cfg` files belong to section 7.

## 5. Fairness

Only `redis_live`, `provider_admission` and `review_passes` use it.

`RedisQueue!FairSpec`: weak fairness, per slot, of the loop up to the claim, of
the running job (which ends one way or another: reviews run under deadlines) and
of what follows it; per token, of the recovery of its backup and of the backup's
grace (recovery runs every 30 s and visits each entry); per pull request, of the
recovery of its pending list and of its lease's TTL.  Producers, delays,
replays, heartbeats and faults are free.  `RetryNotLost` is an action property and needs none of it.

`ProviderAdmission!FairSpec`: weak fairness of the next call of each caller (a
poll, a reply, the end of a model call, a release), of the expiry of leaked
leases and stale waiters, and of the passing of cooldowns.  Nothing makes a
caller start or give up: `CallsSettle` does not rest on the ten-minute timeout
of the wait.  It does rest on the eviction of dead waiters after an hour, which
is how long a crash may block a lane.

`ReviewPasses!FairSpec`: weak fairness of the steps of the batch's calls
(`CallSteps`: each call has a wall clock, and a lane starts the next when one
ends) and of the stages (`StageSteps`: each wait has a deadline).  Closing,
losing the run and starting the job again are free; `AttemptEnds` does not rest on
them.

## 6. What is proved

All theorems are about the unbounded modules: any set of payloads, slots,
tokens, runs, callers, processes, scripts, stories, lineups, sites and bounds,
under the named assumptions of the constants in each module and nothing else.
Besides the shapes of payloads and bounds these say four things of the code:
`RetryAssumption` (a retried payload is a payload), `KeyAssumption`
(`jobIdempotencyKey` writes the kind of every job but an automatic review into its
key, so that jobs with one key are reviews both or neither), `IsEvent` (an event
whose handler may enqueue says which job) and `SubAssumption` (a customer has
finitely many subscriptions and sessions).  One theorem, `NothingLost`, has a
hypothesis of its own; it is discussed there.

**Data (`DataTheorems`).**  What a sum over a finite set is, in whichever order it
is taken, and how it follows its set and its values; and what adding, removing
and replacing an entry does to the keys of a list.  The library's induction
rules take an operator as a parameter and cannot be used; `FiniteInduction` states
the same of a set of subsets, from the well-founded order of `Nat`, and every
induction of the project is an instance of it.

**The lock (`RedisQueueProofs`).**  `LockSafe`: slots have tokens of their own, an
unlost holder's token is in the lease, and so two unlost holders of one pull
request do not exist.  The invariant is inductive because a token is drawn
unused.

**The queue (`RedisQueueProofs`).**
- `TypeCorrect`: `TypeOK`, by the invariant `SlotInv` = `TypeOK`, `RetriesLeft`
  (a slot in the retry path has attempts left, so that the payload it submits
  is one) and `LostAfterClaim` (only a slot past its CLAIM can have lost a lease).
- `LockImplemented`: `Spec => Lock!Spec`.  Each action is shown to draw, acquire,
  release, abandon or expire a claim as `PrLock` says, or to leave claims and
  leases alone.
- `OwnerKeepsLease` and `PrExcludes` follow from the refinement and `LockSafe`.
- `StaleWorkerFenced`: the action property `LeaseFencing`; of all actions of a
  slot whose token is not the holder's, only the ones that clear its own records
  are enabled.
- `TenantCounterExact`: by `TenantInv` = `TypeOK`, `TenantAccounting` and
  `UnchargedBeforeClaim` (a token that has not claimed yet is not charged).  The
  last is what makes a charge at CLAIM add one claim, and the proof is an
  argument about cardinalities for each way a claim leaves.
- `ReviewsCoalesce` (`OnePendingReview`) and `WaitingCommandsKept`
  (`CommandsKept`): `PendingStep` names the four things a step may do to the list
  behind a pull request (nothing, hand its head on, replace a waiting review, add
  a job, a review only where none waits), and both follow from it.
- `CeilingHeld` (`TenantCeiling`): `LimitedCharged` (the limited job of an unlost
  worker is charged to its tenant and the charge has not expired) injects the
  running jobs into the charges that the sweep of the next CLAIM leaves, which
  are fewer than the limit.  It needs `BackupMatches` (a backup and the slot that
  took it agree on the job): recovery finds the charge to release by the backup.
- `DropsExplained` (`DroppedOnlyUnbacked`): a case for each place a job may be in
  (`InQueue`, `InPending`, `InBackup`, `InSlot`).  A backup is found by its token,
  so it needs `TokensDistinct` (also after the claim has ended) and
  `OwnsOnlyLeased` (a slot that is not between claim and end owns nothing).
- `RetriesStored` (`RetryNotLost`): by `FailedUnseen`: the SEEN key of a job whose
  state is failed is free, on every path that writes that state, so the enqueue of
  a retry is refused only if another delivery has changed the state since.
- `PendingCounted` (`PendingCountExact`): the counter, which `depth()` reports
  (`redis-diagnostics.ts:56`) and no script decides by, is the sum, over pull requests,
  of the lengths of the lists behind them.  Each script changes one list by one
  entry or none (`PendingStep`), which moves the sum as it moves the counter.

**The run (`ReviewRunProofs`).**
- `RunTypeCorrect`: `TypeOK`, by `Typed`, which adds that every attempt past
  admission works for a run.
- `EndedForGood` (`EndedStays`) and `OnlyOwnerEnds` (`EndedByOwner`).
- `ClaimsFenced` (`ClaimFenced`).
- `CompletedPublished` (`CompletedWasPublished`): an attempt that is about to
  close its run has the claim published (`CloseBacked`).
- `DeliveredPaid` (`PaidUnlessDisowned`): a run that is running, interrupted or
  completed keeps its debit unless it was disowned (`Debited`).
- `OneWrite` (`OneWritePerRun`): by `WriteBudget`.  What a run has posted, plus
  the write that the holder of its claim may still make, is within one plus the
  decisions of the operator plus the lost replies, counted over the attempts
  that hold the claim.

**Admission (`ProviderAdmissionProofs`).**
- `CapacityHolds` (`FleetCeiling`) and `TwoPhase` (`ParkedWithoutLease`): by
  `Books`: the shape of the variables, what each place in the call holds, no
  caller both with a lease and lost, and the leases, leaked ones included, within
  the limit.
- `GatesExact` (`GateExact`): by `Gates`: shape, and the gate's count.

**Intake (`WebhookIntakeProofs`).**  `ClaimsOwned` (`OwnsUnlessLate`),
`RecordedWasHandled` (`ProcessedWasHandled`) and `HandledOnce`: two requests have
the same payload in hand only if one of them outlived the stale window.  The
invariant is `Rows` (shape of the rows and requests), `Fresh` (claim numbers in use
are at most the last one drawn, and no two requests share one), `Owning` (a request
in time holds both rows and they are not old) and `Recorded`.  `Fresh` is what
keeps a reclaimed row from being taken for one's own.

The queue under the requests has two theorems of its own, over every step of the
composition: requests, workers, time and crashes.
- `CommandsWait` (`CommandsKeptBehind`): each operation of the queue keeps the
  commands behind every claim or moves one to the line (`Lets`); it needs of the
  state only its shape and that a busy worker has a job (`AtWork`).
- `NothingLost` (`JobsAccounted`): the invariant `Accounts` says where a key is.  It is
  in one place, once: the line, behind the claim of its pull request, or in flight
  (`Apart`); there it is in `seen`, and ready if it waits (`KnownReady`); what is ready
  waits or was done meanwhile (`ReadyWaits`), and what is claimed flies (`ClaimedFlies`).
  `Hands` ties what flies to the one worker that has it.  Between taking a job from
  one place and putting it into the next its key is nowhere (`Loose`), which is how
  the operations that move jobs are taken apart.  That `dequeue` looks several times
  needs an induction on the number of looks: the sets `Looked1` and `Looked2` of good
  results are closed under one look (`LooksOn`).
  The hypothesis is `RoomForAll`: the capacity of the key sets (20 000 by default) is
  not exceeded, so that nothing is trimmed from them.  Without it the statement is
  false: see `MCWebhookIntake_Trimmed` in section 7.  It holds in the run.

**Review stages (`ReviewPassesProofs`).**
- `PassesTypeCorrect`: `Typed`, with `Selected` (the batch lies in the lineup).  The
  width of a lane needs the arithmetic of `ParallelismBounds`.
- `RequiredKept`, a theorem about the selection alone: neither budget nor samples
  nor chunks drop a required unit.
- `ReviewsAreCovered` (`PublishedCovered`) and `RetriesBuyMissing`
  (`RetryBuysMissing`): by `Backed` (an outcome that is ok names a unit that was
  answered), `Covered` (past judgement every required unit is answered), `Decided`
  (a published review was neither closed nor lost) and `Missing` (in the retry, the
  calls in hand are of units without an answer).

**Findings (`FindingsProofs`).**  Copies of the row are written back long after
they were read, so the invariant must speak of them.  `JobSound` says that the copy
a job read and the copy it will write are sound (`RowSound`: their fixed high
findings have evidence, their last commit is covered by what was read or will be
once the job saves); it stays true because the branch and `covered` only grow
(`Grown`, `JobKept`): a stale copy was true once and is still true.  `Alone` says
that, unless a job outlived its lease, one job is at work and its copy of
`lastSha` and of open findings is the row's, up to ignores.
- `HighCloseOnEvidence`, `NothingSlips`: from `JobSound` and `RowSound`.
- `FixesOnly`: from `JobSound` (the commit read is on the branch) and the
  compare-and-set.
- `IgnoredUnlessStale`: from the writers of the row.
- `NoFlipFlops`: from `Alone`.
- `FindingsTyped`.

**Billing (`BillingProofs`).**  `OnlyOwnWordDowngrades` (`DowngradedOnOwnWord`): for
each list of statements an event leads through, every state is compared with the
first (`OwnWord`); a crash is any of them.  The invariant ties what events say to
what was true at Stripe (`Truthful`).  `MovesOnce`: no two entries of the ledger
have one key.
- `RefundsExact` (`RevenueExact`) and `WalletKept` (`WalletExact`): by `MoneyInv`, which
  is `Sales` (Stripe refunds of a charge only grow, and what its events say was
  sold or refunded was), `Covered`, `Asks` and `AllDone` (an event that is done has left
  what it is to leave).  `Covered` speaks of the database after each single statement,
  so that a crash between two is covered by it: the refund rows of a charge sum up
  to no more than Stripe refunded unless a webhook raced the reconciliation
  (`Bounded`), the wallet is not overdrawn, an entry of a session is its price, and what
  refunds took from the wallet is within what their events recorded (`WalletOk`).
  `Asks` is what the reconciliation may hold on to while it waits for Stripe: what
  it read is what the rows say, but for what webhooks recorded since.  Its rows
  telescope: each adds what the refunds up to it exceed those before it by.
- `UpgradeSettles` (`SettledTruth`): by `Ordered`, which says what may still be wrong while
  an event is open, and that a later one will mend it: the row's status is
  Stripe's or the event of the change is to come (`RowKnown`), an active row has the
  plan of its subscription or its event is being handled (`PlanKept`), the row's
  subscription is the one of the last checkout handled (`LastBought`), and another
  live one will be cancelled by its successor's checkout (`OneLive`).

**Only model-checked.**  Liveness under fairness (`BackupsRecovered`, `PendingServed`,
`CallsSettle`, `AttemptEnds`) is out of the prover's reach.  Every invariant and every
action property of the runs that pass is stated by a theorem; the three properties
that a run refutes are theorems of nothing.

## 7. Where the code departs from what the repository says

Three runs end in a counterexample to a sentence of the repository; `findings` in
`PROJECT.json` quotes it.

1. `DeliveredIsPaid` (`finalization-service.ts:102`).  The failure path refunds by
   run id even if the run is no longer its own: an attempt left behind by a
   shutdown refunds the run that is resumed and delivered later.
   `PaidUnlessDisowned` is what holds.
2. `IgnoredNotReported` (`fix-service.ts:494`).  A job that read the row before an
   ignore writes its copy back, and the suppression list keeps a finding out of
   what is posted as new only: the next review lists the ignored finding as still
   open.  `IgnoredKept` is what holds.
3. `ButtonNotStuck` (`github-comment-command-service.ts:369`).  The webhook writes
   "Applying" after it has queued the job: late, over the worker's retry box; or
   for a job the queue dropped as a duplicate of one done at the same head.

More counterexamples, with a configuration each that is not among the runs (each
names one property, which TLC refutes):

| configuration | property | what it shows |
|---|---|---|
| `MCRedisQueue_RecoveryDrops` | `NeverDropped` | Recovery takes a processing entry for superseded whenever another token holds the pull request, also while its worker is between DEQUEUE and CLAIM (`redis-scripts.ts:30`). If the pull request is freed before that CLAIM, the worker claims without a backup; `persistJob` then fails and the job is gone. `DroppedOnlyUnbacked` is what holds. |
| `MCRedisQueue_CommandOverReview` | `ReviewKeptFromCommands` | ENQUEUE_LUA does not read the kind of the incoming job: a command replaces a waiting review (`redis-scripts.ts:95`). |
| `MCRedisQueue_DoubleReview` | `NoDoubleReview` | DONE is read before CLAIM and not again: `opened` and `ready_for_review` of one SHA may both run (`redis-enqueue.ts:103`). |
| `MCRedisQueue_UnlimitedCharged` | `UnlimitedNotCharged` | The first renewal charges an unlimited job to its tenant (`redis-transitions.ts:17`). |
| `MCReviewRun_BilledTwice` | `OneBilledRun` | A crashed run is still `running` when the job is recovered or replayed, and is debited under a second run (`admission-service.ts:137`). |
| `MCWebhookIntake_BackAgain` | `EnqueueIsLegal` | A branch that is pushed back to a commit whose review was superseded: the key is `cancelled`, the enqueue throws, the delivery fails (`memory.ts:153`). |
| `MCWebhookIntake_Trimmed` | `ClaimsHeld` | "Dropping an ancient dedup key at worst allows a very old SHA to be re-reviewed, which is harmless" (`memory.ts:47`). `trimSet` counts entries, not age, and the states of keys are not trimmed with them: with room for one key, a delivery that comes again is enqueued while its first job is at work, and when that has succeeded `dequeue` claims the pull request and then throws on the transition (`memory.ts:202-203`); the pull request stays in flight under no worker. |
| `MCReviewPasses_ReplaysUncapped` | `ReplaysCapped` | The worker asks `shouldRequeueAdmissionFailure(message, 0)` (`job-processor.ts:134`): the cap of eight (`llm/provider-admission.ts:618`) is never reached. |
| `MCReviewPasses_PaidReplayed` | `PaidNeverReplayed` | "incomplete reviews after paid work are not whole-job retried" (`job-processor.test.ts:99`): one that fails for want of capacity after its first answers is put back. |
| `MCBilling_RefundTakesCredits` | `ClawsOnlyTopUps` | A refund of a subscription's charge takes prepaid credits, where `apps/server/refunds.html:81` speaks of the original top-up. |
| `MCBilling_RefundTwice` | `RefundsCountedOnce` | The reconciliation reads what is recorded of a charge before it awaits Stripe's list of refunds; a webhook in between is counted again (`revenue-reconciliation-service.ts:66`). |

Smaller observations, without a configuration:

- `resumedAfterRestart` is read at `admission-service.ts:158` and set nowhere.
- `failStaleRunningRuns` is called when a scheduler starts
  (`bootstrap/lifecycle.ts:84`) and at no other time; until then a dead worker's
  run counts against its tenant's concurrency.
- `AUDIT_FINDINGS.md:87` gives two recoveries of an orphan as default; the code
  (`config/src/queue.ts:26`) and `docs/CONFIGURATION.md:154` give none: an orphan
  is dead-lettered at its first recovery.
- `AUDIT_FINDINGS.md:62` (P1 and P2 findings are never closed deterministically) and
  `:77` (`created` is exempt from the guard on subscriptions) tell of an earlier
  state of the code; its comments and tests agree with the models.
- CLAIM_LUA may put an older push over the review of a newer one that waits
  (`redis-scripts.ts:164`); the review reads the head when it starts, so the code
  it looks at is current.
- A finding that was fixed and opens again loses its comment id
  (`review-state.ts:28-38`), so commands in its thread no longer find it.  One that
  the head proves fixed and a model reports again is posted, and stored as fixed.
- A fix job that finds a fix already made marks the finding fixed without a commit.
- `fetchPrHeadInfo` (`fix-service.ts:100`) throws outside the block that puts the
  button back.
- A crash between the revenue row of a refund and its clawback: the event comes
  again, the row is there, nothing is clawed back.  The same holds when the
  reconciliation recorded the refund first, or the customer is linked later.
- Replaying a dead letter whose key was cancelled meanwhile throws after the
  record was taken out and the key noted (`memory.ts:320-334`): the record is gone,
  and the key is refused from then on.
- A checkout delivered again after a newer one cancels the newer subscription; a
  failed read of the subscription leaves the plan locked until the next event
  (`blind` in the model); a stale `updated` after `deleted` restores the plan.

## 8. Not modelled

- Token-per-minute windows: sums over a rolling window under the admission that
  is modelled.  Planned.
- The meter outbox: nothing enqueues a row any more.
- The in-memory provider admission: a counter of one process.
- The leader lease of the recovery service: `RedisQueue` lets any process
  recover at any time, which covers two leaders.
- Prompts and the parsing and filtering of what models answer: computation
  without shared state.
- Throttling, pacing and pagination of the GitHub client; sandboxes and runtime
  verification: I/O with the outside.
- Identity, tenants, workspaces, administration, configuration, rules, CLI,
  evaluation, user interface: one database statement per request, or
  presentation.

These last two groups are the larger part of the repository's lines.

## 9. Plan

Done: queue, lock, run with wallet and publication, admission, intake with the
in-memory queue, review stages, findings and fixes, billing.  In order of weight,
what is left:

1. `TokenWindow`: reserve, commit and expiry of a rolling window on several
   processes, the window never above its budget.
2. The in-memory queue as a second implementation of `PrLock`.
3. A `reopened` payload in the runs of the Redis queue, whose key the coalescing
   scripts do not clear.
4. The artifacts of inline comments and fixed replies in `ReviewRun`.
