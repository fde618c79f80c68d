-------------------------- MODULE ProviderAdmission --------------------------
(***************************************************************************)
(* Admission of paid model calls to one provider lane: the fleet lease in  *)
(* Redis (packages/queue/src/redis-provider-admission.ts), the gate of     *)
(* each worker process and the call that passes both                       *)
(* (packages/review/src/llm/provider-admission.ts, withProviderCallSlot).  *)
(*                                                                         *)
(* One action is one Redis round trip together with the synchronous code   *)
(* that runs on its reply.  Every worker job runs under the same priority  *)
(* bias (worker/job-processor.ts:102), so the waiting set is a queue in    *)
(* the order of arrival.  Wake-ups only shorten the pause between polls    *)
(* and are not modelled; nor are the clocks of the processes.              *)
(***************************************************************************)
EXTENDS Naturals, FiniteSets, Sequences

CONSTANTS
  Caller,       \* concurrent paid calls of the fleet
  ProcessOf,    \* per caller: the worker process it runs in
  Nobody,       \* the owner of a waiter entry whose caller is gone
  Limit,        \* fleet capacity of the provider (ProviderCapacityPlan.limits)
  LocalLimit,   \* providerConcurrency of a process
  MaxStarts,    \* bound: calls that start
  MaxCooldowns, \* bound: calls that fail with a rate limit
  MaxFaults     \* bound: crashes, lost replies, failed writes, unrenewed leases

Process == {ProcessOf[c] : c \in Caller}

ASSUME CallerAssumption ==
  IsFiniteSet(Caller) /\ Nobody \notin Caller /\ ProcessOf \in [Caller -> Process]
ASSUME LimitAssumption == Limit \in Nat \ {0} /\ LocalLimit \in Nat \ {0}
ASSUME BoundAssumption ==
  MaxStarts \in Nat /\ MaxCooldowns \in Nat /\ MaxFaults \in Nat

VARIABLES
  pc,        \* per caller: where it is in withProviderCallSlot
  leases,    \* callers whose lease token is in the sorted set of leases
  leaked,    \* live leases that belong to no caller any more
  waiters,   \* the sorted set of waiters, oldest first
  gate,      \* per process: ProviderGate.active
  coolHere,  \* processes whose own copy of the cooldown has not passed
  coolFleet, \* the cooldown in Redis has not passed
  lost,      \* callers whose lease ran out while they held it (history)
  starts, cooldowns, faults

leaseVars == <<leases, leaked, lost>>
coolVars == <<coolHere, coolFleet>>
budget == <<starts, cooldowns, faults>>
vars == <<pc, leaseVars, waiters, gate, coolVars, budget>>

\* idle; waiting out a cooldown; polling for a lease; holding a lease and
\* asking for the cooldown, with the own copy passed ("leased") or not ("hot");
\* giving the lease back for a cooldown or for want of a local slot; parked on
\* the gate; calling the model; publishing a cooldown; giving the lease back.
Where == {"idle", "cooldown", "wait", "leased", "hot", "backOff", "toPark",
          "parked", "calling", "publish", "release"}

\* Age of a waiter: entries go stale after an hour.  A caller waits at most
\* ten minutes (ORVEX_PROVIDER_LEASE_WAIT_MS), so only an abandoned one does.
Waiter == [who : Caller \cup {Nobody}, stale : BOOLEAN]

Init ==
  /\ pc = [c \in Caller |-> "idle"]
  /\ leases = {} /\ leaked = 0 /\ waiters = <<>> /\ lost = {}
  /\ gate = [p \in Process |-> 0]
  /\ coolHere = {} /\ coolFleet = FALSE
  /\ starts = 0 /\ cooldowns = 0 /\ faults = 0

Fault == faults < MaxFaults /\ faults' = faults + 1

-----------------------------------------------------------------------------
(* The waiting set and the leases.                                         *)

Without(ws, c) == SelectSeq(ws, LAMBDA w : w.who # c)

\* Faulty variant: waiters of dead processes stay.
KeptAll(ws) == ws

Evicted(ws) == SelectSeq(ws, LAMBDA w : ~w.stale)

Joined(ws, c) ==
  IF \E i \in 1..Len(ws) : ws[i].who = c
  THEN ws ELSE Append(ws, [who |-> c, stale |-> FALSE])

\* An entry that REMOVE_WAITER never reaches stays in its place.
Orphaned(ws, gone) ==
  [i \in 1..Len(ws) |->
     IF ws[i].who \in gone THEN [ws[i] EXCEPT !.who = Nobody] ELSE ws[i]]

Rank(ws, c) == Cardinality({i \in 1..Len(ws) : \E j \in 1..Len(ws) : i < j /\ ws[j].who = c})

Free == IF Cardinality(leases) + leaked >= Limit
        THEN 0 ELSE Limit - (Cardinality(leases) + leaked)

\* Faulty variant: takes no account of the leases that are out.
AmongFirst(ws, c) == Rank(ws, c) < Limit

Granted(ws, c) == Free > 0 /\ Rank(ws, c) < Free

\* The token of caller c leaves its hands without leaving Redis.
Leak(c) ==
  /\ leases' = leases \ {c}
  /\ leaked' = IF c \in leases THEN leaked + 1 ELSE leaked
  /\ lost' = lost \ {c}

GiveBack(c) == leases' = leases \ {c} /\ lost' = lost \ {c} /\ UNCHANGED leaked

-----------------------------------------------------------------------------
(* The gate of a process.                                                  *)

\* Faulty variant: one too many.
HasRoomFor(p) == gate[p] <= LocalLimit

HasRoom(p) == gate[p] < LocalLimit

Parked(p) == {c \in Caller : pc[c] = "parked" /\ ProcessOf[c] = p}

\* Faulty variant: the callers that a release wakes keep the slot.
HandedOn(p) == IF Parked(p) = {} THEN [gate EXCEPT ![p] = @ - 1] ELSE gate

\* release(): the slot goes to the first parked caller, which lets it go to
\* the next, and so on: all of them return to the fleet's queue and the last
\* one gives the slot back.
Emptied(p) == [gate EXCEPT ![p] = @ - 1]

\* Caller c moves on to place to and wakes the callers parked in its process.
WakeAll(c, to) ==
  [d \in Caller |->
     IF d = c THEN to ELSE IF d \in Parked(ProcessOf[c]) THEN "cooldown" ELSE pc[d]]

-----------------------------------------------------------------------------
(* withProviderCallSlot.                                                   *)

At(c, place) == pc[c] = place
Go(c, place) == pc' = [pc EXCEPT ![c] = place]

Start(c) ==
  /\ At(c, "idle") /\ starts < MaxStarts
  /\ starts' = starts + 1
  /\ Go(c, "cooldown")
  /\ UNCHANGED <<leaseVars, waiters, gate, coolVars, cooldowns, faults>>

WaitOutCooldown(c) ==
  /\ At(c, "cooldown") /\ ProcessOf[c] \notin coolHere /\ ~coolFleet
  /\ Go(c, "wait")
  /\ UNCHANGED <<leaseVars, waiters, gate, coolVars, budget>>

\* ACQUIRE_FAIR_LEASE.  On the reply of a grant the process reads its own copy
\* of the cooldown and then asks Redis for the fleet's.
Acquire(c) ==
  /\ At(c, "wait")
  /\ LET ws == Joined(Evicted(waiters), c) IN
       /\ Granted(ws, c)
       /\ waiters' = Without(ws, c)
  /\ leases' = leases \cup {c}
  /\ Go(c, IF ProcessOf[c] \in coolHere THEN "hot" ELSE "leased")
  /\ UNCHANGED <<leaked, lost, gate, coolVars, budget>>

\* The script grants the lease and the reply is lost: the call fails.
AcquireLost(c) ==
  /\ At(c, "wait") /\ Fault
  /\ LET ws == Joined(Evicted(waiters), c) IN
       /\ Granted(ws, c)
       /\ waiters' = Without(ws, c)
  /\ leaked' = leaked + 1
  /\ Go(c, "idle")
  /\ UNCHANGED <<leases, lost, gate, coolVars, starts, cooldowns>>

Queue(c) ==
  /\ At(c, "wait")
  /\ LET ws == Joined(Evicted(waiters), c) IN ~Granted(ws, c) /\ waiters' = ws
  /\ UNCHANGED <<pc, leaseVars, gate, coolVars, budget>>

\* Faulty variant: parks on the gate with the lease in hand.
ParksAtOnce(c) ==
  IF At(c, "hot") \/ coolFleet THEN "backOff"
  ELSE IF HasRoom(ProcessOf[c]) THEN "calling" ELSE "parked"

\* After the reply on the cooldown: back off, call, or give the lease back
\* before parking on the gate.
Verdict(c) ==
  IF At(c, "hot") \/ coolFleet THEN "backOff"
  ELSE IF HasRoom(ProcessOf[c]) THEN "calling" ELSE "toPark"

CheckCooldown(c) ==
  /\ pc[c] \in {"hot", "leased"}
  /\ Go(c, Verdict(c))
  /\ gate' = IF Verdict(c) = "calling" THEN [gate EXCEPT ![ProcessOf[c]] = @ + 1] ELSE gate
  /\ UNCHANGED <<leaseVars, waiters, coolVars, budget>>

\* The cooldown could not be read: the call fails and gives its lease back.
CheckFails(c) ==
  /\ pc[c] \in {"hot", "leased"} /\ Fault
  /\ Go(c, "release")
  /\ UNCHANGED <<leaseVars, waiters, gate, coolVars, starts, cooldowns>>

\* Where a caller goes once its lease is released.  A slot that is free when it
\* would park proves capacity: it is let go at once.
NextPlace(c) ==
  CASE At(c, "backOff") -> "cooldown"
    [] At(c, "toPark") -> IF HasRoom(ProcessOf[c]) THEN "cooldown" ELSE "parked"
    [] OTHER -> "idle"

Releasing(c) == pc[c] \in {"backOff", "toPark", "release"}

ReleaseLease(c) ==
  /\ Releasing(c) /\ GiveBack(c)
  /\ Go(c, NextPlace(c))
  /\ UNCHANGED <<waiters, gate, coolVars, budget>>

\* The error of a failed release is swallowed: the lease stays until its TTL.
ReleaseFails(c) ==
  /\ Releasing(c) /\ Fault /\ Leak(c)
  /\ Go(c, NextPlace(c))
  /\ UNCHANGED <<waiters, gate, coolVars, starts, cooldowns>>

\* The call returns, or fails with something else than a rate limit.
EndCall(c) ==
  /\ At(c, "calling")
  /\ pc' = WakeAll(c, "release") /\ gate' = Emptied(ProcessOf[c])
  /\ UNCHANGED <<leaseVars, waiters, coolVars, budget>>

\* The provider answers with a rate limit: the own copy of the cooldown is set
\* before it is published, and slot and lease are held until that is answered.
RateLimited(c) ==
  /\ At(c, "calling") /\ cooldowns < MaxCooldowns
  /\ cooldowns' = cooldowns + 1
  /\ coolHere' = coolHere \cup {ProcessOf[c]}
  /\ Go(c, "publish")
  /\ UNCHANGED <<leaseVars, waiters, gate, coolFleet, starts, faults>>

PublishCooldown(c) ==
  /\ At(c, "publish")
  /\ \/ coolFleet' = TRUE /\ UNCHANGED faults
     \/ Fault /\ UNCHANGED coolFleet
  /\ pc' = WakeAll(c, "release") /\ gate' = Emptied(ProcessOf[c])
  /\ UNCHANGED <<leaseVars, waiters, coolHere, starts, cooldowns>>

\* The admission deadline or a cancellation ends the wait.  REMOVE_WAITER may
\* fail; its error is swallowed.
GiveUp(c) ==
  /\ pc[c] \in {"cooldown", "wait", "parked"}
  /\ \/ waiters' = Without(waiters, c) /\ UNCHANGED faults
     \/ At(c, "wait") /\ Fault /\ waiters' = Orphaned(waiters, {c})
  /\ Go(c, "idle")
  /\ UNCHANGED <<leaseVars, gate, coolVars, starts, cooldowns>>

-----------------------------------------------------------------------------
(* Time and failures.                                                      *)

\* The process could not renew the lease for sixteen minutes and the call goes on.
LeaseLost(c) ==
  /\ c \in leases /\ Fault
  /\ leases' = leases \ {c} /\ lost' = lost \cup {c}
  /\ UNCHANGED <<pc, leaked, waiters, gate, coolVars, starts, cooldowns>>

LeakExpires ==
  /\ leaked > 0 /\ leaked' = leaked - 1
  /\ UNCHANGED <<pc, leases, lost, waiters, gate, coolVars, budget>>

\* An hour passes over the entries nobody waits for.
WaitersGoStale ==
  /\ \E i \in 1..Len(waiters) : waiters[i].who = Nobody /\ ~waiters[i].stale
  /\ waiters' = [i \in 1..Len(waiters) |->
                   [waiters[i] EXCEPT !.stale = (waiters[i].who = Nobody)]]
  /\ UNCHANGED <<pc, leaseVars, gate, coolVars, budget>>

CooldownPasses ==
  /\ coolFleet /\ coolFleet' = FALSE
  /\ UNCHANGED <<pc, leaseVars, waiters, gate, coolHere, budget>>

CooldownPassesHere(p) ==
  /\ p \in coolHere /\ coolHere' = coolHere \ {p}
  /\ UNCHANGED <<pc, leaseVars, waiters, gate, coolFleet, budget>>

\* A worker process dies and comes back empty; what it left in Redis stays.
Crash(p) ==
  LET gone == {c \in Caller : ProcessOf[c] = p} IN
  /\ \E c \in gone : pc[c] # "idle"
  /\ Fault
  /\ pc' = [c \in Caller |-> IF c \in gone THEN "idle" ELSE pc[c]]
  /\ leases' = leases \ gone /\ lost' = lost \ gone
  /\ leaked' = leaked + Cardinality(leases \cap gone)
  /\ waiters' = Orphaned(waiters, gone)
  /\ gate' = [gate EXCEPT ![p] = 0] /\ coolHere' = coolHere \ {p}
  /\ UNCHANGED <<coolFleet, starts, cooldowns>>

-----------------------------------------------------------------------------

Call(c) ==
  \/ Start(c) \/ WaitOutCooldown(c) \/ Acquire(c) \/ AcquireLost(c) \/ Queue(c)
  \/ CheckCooldown(c) \/ CheckFails(c) \/ ReleaseLease(c) \/ ReleaseFails(c)
  \/ EndCall(c) \/ RateLimited(c) \/ PublishCooldown(c) \/ GiveUp(c)

Next ==
  \/ \E c \in Caller : Call(c) \/ LeaseLost(c)
  \/ \E p \in Process : Crash(p) \/ CooldownPassesHere(p)
  \/ LeakExpires \/ WaitersGoStale \/ CooldownPasses

Spec == Init /\ [][Next]_vars

\* The next call of a process that is not stuck: a poll, a release, a reply, the
\* end of a model call.
NextCall(c) ==
  \/ WaitOutCooldown(c) \/ Acquire(c) \/ Queue(c) \/ CheckCooldown(c)
  \/ ReleaseLease(c) \/ EndCall(c) \/ PublishCooldown(c)

\* Processes make their next call; TTLs and cooldowns run out.  Nothing makes a
\* caller give up, start, or meet a fault.
Fairness ==
  /\ \A c \in Caller : WF_vars(NextCall(c))
  /\ \A p \in Process : WF_vars(CooldownPassesHere(p))
  /\ WF_vars(LeakExpires) /\ WF_vars(WaitersGoStale) /\ WF_vars(CooldownPasses)

FairSpec == Spec /\ Fairness

-----------------------------------------------------------------------------

\* Type invariant of the callers, the leases and the gates.
TypeOK ==
  /\ pc \in [Caller -> Where]
  /\ leases \subseteq Caller /\ lost \subseteq Caller /\ leaked \in Nat
  /\ waiters \in Seq(Waiter)
  /\ gate \in [Process -> 0..LocalLimit]
  /\ coolHere \subseteq Process /\ coolFleet \in BOOLEAN
  /\ starts \in 0..MaxStarts /\ cooldowns \in 0..MaxCooldowns /\ faults \in 0..MaxFaults

\* Callers that are inside the model call, or in its failure handler.
InCall == {c \in Caller : pc[c] \in {"calling", "publish"}}

\* Never more model calls than the fleet's capacity, but for those whose lease
\* ran out under them; a lease that was leaked is not available to anybody.
FleetCeiling == Cardinality(InCall \ lost) + leaked <= Limit

\* The count of a gate is the number of its process's calls, and a caller is
\* parked only behind a full gate: none is left behind by a wake-up.
GateExact ==
  \A p \in Process :
    /\ gate[p] = Cardinality({c \in InCall : ProcessOf[c] = p})
    /\ Parked(p) # {} => gate[p] = LocalLimit

\* Two phases: a caller parked on the gate of its process holds no lease.
ParkedWithoutLease == \A c \in Caller : pc[c] = "parked" => c \notin leases

\* Every call that starts is served or ends: abandoned leases and waiters of
\* dead processes and lost replies block nobody for good.
CallsSettle == \A c \in Caller : pc[c] # "idle" ~> pc[c] = "idle"

=============================================================================
