----------------------- MODULE ProviderAdmissionProofs -----------------------
(***************************************************************************)
(* Proofs about ProviderAdmission, for any number of callers and processes *)
(* and for all capacities and bounds.  The fleet capacity follows from the *)
(* books of the leases (Books), the exactness of a gate from the count of  *)
(* its calls (GateCounts).  Both stand on the shape of the state (Shaped), *)
(* which leaves out the queue of waiters: no count depends on it.          *)
(***************************************************************************)
EXTENDS ProviderAdmission, FiniteSetTheorems, TLAPS

USE CallerAssumption, LimitAssumption, BoundAssumption

\* Places in which a caller has a lease, in Redis or lost.
Holding == {"leased", "hot", "backOff", "toPark", "calling", "publish", "release"}

Shaped ==
  /\ pc \in [Caller -> Where]
  /\ leases \subseteq Caller /\ lost \subseteq Caller /\ leaked \in Nat

\* Every lease in Redis belongs to a caller that will give it back or is
\* leaked, every holder has one or lost it, and together they fit.
Held == \A c \in Caller : pc[c] \in Holding <=> c \in leases \cup lost
Fits == Cardinality(leases) + leaked <= Limit
Books == Shaped /\ Held /\ leases \cap lost = {} /\ Fits

CallsOf(p) == {c \in InCall : ProcessOf[c] = p}
GateCounts ==
  /\ \A p \in Process : gate[p] = Cardinality(CallsOf(p)) /\ gate[p] <= LocalLimit
  /\ \A c \in Caller : pc[c] = "parked" => gate[ProcessOf[c]] = LocalLimit

LEMMA FiniteParts ==
  ASSUME NEW S \in SUBSET Caller
  PROVE  IsFiniteSet(S) /\ Cardinality(S) \in Nat
BY FS_Subset, FS_CardinalityType

\* What a grant, a release, a leak and a lost lease do to the books.
LEMMA CountIn ==
  ASSUME NEW S \in SUBSET Caller, NEW c \in Caller, c \notin S
  PROVE  Cardinality(S \cup {c}) = Cardinality(S) + 1
BY FiniteParts, FS_AddElement

LEMMA CountOut ==
  ASSUME NEW S \in SUBSET Caller, NEW c \in S
  PROVE  Cardinality(S \ {c}) = Cardinality(S) - 1 /\ Cardinality(S) >= 1
<1>1. Cardinality(S \ {c}) = Cardinality(S) - 1
  BY FiniteParts, FS_RemoveElement
<1>2. Cardinality(S \ {c}) \in Nat /\ Cardinality(S) \in Nat
  BY FiniteParts
<1> QED BY <1>1, <1>2

LEMMA GrantFits ==
  ASSUME Books, NEW ws, NEW c \in Caller, Granted(ws, c)
  PROVE  Cardinality(leases) + leaked + 1 <= Limit
BY FiniteParts DEF Granted, Free, Books, Shaped

-----------------------------------------------------------------------------
(* The books of the leases.                                                *)

LEMMA InitBooks == Init => Books
BY FS_EmptySet DEF Init, Books, Shaped, Held, Holding, Fits, Where

\* A step that moves caller c and touches no lease.
LEMMA MoveBooks ==
  ASSUME Books, NEW pcNew, pcNew \in [Caller -> Where], pc' = pcNew,
         \A c \in Caller : pcNew[c] \in Holding <=> pc[c] \in Holding,
         UNCHANGED leaseVars
  PROVE  Books'
BY DEF Books, Shaped, Held, Fits, leaseVars

LEMMA GrantBooks ==
  ASSUME Books, NEW c \in Caller, pc[c] = "wait",
         Cardinality(leases) + leaked + 1 <= Limit,
         leases' = leases \cup {c}, UNCHANGED <<leaked, lost>>,
         NEW to \in Holding, pc' = [pc EXCEPT ![c] = to]
  PROVE  Books'
<1>1. c \notin leases \cup lost
  BY DEF Books, Held, Holding
<1>2. Cardinality(leases') + leaked' <= Limit
  <2>1. Cardinality(leases') = Cardinality(leases) + 1
    BY <1>1, CountIn DEF Books, Shaped
  <2> QED BY <2>1, FiniteParts DEF Books, Shaped
<1>3. Shaped'
  BY DEF Books, Shaped, Where, Holding
<1>4. Held' /\ (leases \cap lost = {})'
  BY <1>1 DEF Books, Held, Shaped
<1> QED BY <1>2, <1>3, <1>4 DEF Books, Fits

\* A holder gives its lease back, or its token leaves its hands.
LEMMA BackBooks ==
  ASSUME Books, NEW c \in Caller, Releasing(c), GiveBack(c) \/ Leak(c),
         NEW to \in Where \ Holding, pc' = [pc EXCEPT ![c] = to]
  PROVE  Books'
<1>1. leases' = leases \ {c} /\ lost' = lost \ {c}
  BY DEF GiveBack, Leak
<1>2. leaked' \in Nat /\ Cardinality(leases') + leaked' <= Limit
  <2>1. CASE c \in leases
    <3>1. Cardinality(leases') = Cardinality(leases) - 1
      BY <2>1, <1>1, CountOut DEF Books, Shaped
    <3> QED BY <2>1, <3>1, FiniteParts DEF Books, Shaped, Fits, GiveBack, Leak
  <2>2. CASE c \notin leases
    <3>1. leases' = leases /\ leaked' = leaked
      BY <2>2, <1>1 DEF GiveBack, Leak
    <3> QED BY <3>1 DEF Books, Shaped, Fits
  <2> QED BY <2>1, <2>2
<1>3. Shaped'
  BY <1>1, <1>2 DEF Books, Shaped
<1>4. Held' /\ (leases \cap lost = {})'
  BY <1>1 DEF Books, Held, Shaped
<1> QED BY <1>2, <1>3, <1>4 DEF Books, Fits

\* The woken callers are parked ones; none of them has a lease.
LEMMA WakeShape ==
  ASSUME pc \in [Caller -> Where], NEW c \in Caller, NEW to \in Where
  PROVE  /\ WakeAll(c, to) \in [Caller -> Where]
         /\ \A d \in Caller : WakeAll(c, to)[d] =
              IF d = c THEN to ELSE IF d \in Parked(ProcessOf[c]) THEN "cooldown" ELSE pc[d]
BY DEF WakeAll, Where

LEMMA WakeBooks ==
  ASSUME Books, NEW c \in Caller, pc[c] \in {"calling", "publish"},
         pc' = WakeAll(c, "release"), UNCHANGED leaseVars
  PROVE  Books'
<1>1. WakeAll(c, "release") \in [Caller -> Where]
  BY WakeShape DEF Books, Shaped, Where
<1>2. \A d \in Caller : WakeAll(c, "release")[d] \in Holding <=> pc[d] \in Holding
  BY WakeShape DEF Books, Shaped, Where, Holding, Parked
<1> QED BY <1>1, <1>2, MoveBooks

LEMMA CrashBooks ==
  ASSUME Books, NEW p \in Process, Crash(p)
  PROVE  Books'
<1> DEFINE gone == {c \in Caller : ProcessOf[c] = p}
<1>1. leases \cap gone \in SUBSET Caller /\ leases \ gone \in SUBSET Caller
  BY DEF Books, Shaped
<1>2. Cardinality(leases) = Cardinality(leases \ gone) + Cardinality(leases \cap gone)
  <2>1. IsFiniteSet(leases) /\ IsFiniteSet(gone)
    BY FiniteParts DEF Books, Shaped
  <2>2. Cardinality(leases \ gone) = Cardinality(leases) - Cardinality(leases \cap gone)
    BY <2>1, FS_Difference
  <2> QED BY <1>1, <2>2, FiniteParts DEF Books, Shaped
<1>3. leaked' \in Nat /\ Cardinality(leases') + leaked' <= Limit
  BY <1>1, <1>2, FiniteParts DEF Crash, Books, Shaped, Fits
<1>4. Shaped'
  BY <1>3 DEF Crash, Books, Shaped, Where
<1>5. Held' /\ (leases \cap lost = {})'
  BY DEF Crash, Books, Shaped, Held, Holding
<1> QED BY <1>3, <1>4, <1>5 DEF Books, Fits

LEMMA LostBooks ==
  ASSUME Books, NEW c \in Caller, LeaseLost(c)
  PROVE  Books'
<1>1. Cardinality(leases') = Cardinality(leases) - 1
  BY CountOut DEF LeaseLost, Books, Shaped
<1>2. Fits'
  BY <1>1, FiniteParts DEF LeaseLost, Books, Shaped, Fits
<1> QED BY <1>2 DEF LeaseLost, Books, Shaped, Held

LEMMA LeakedBooks ==
  ASSUME Books, LeakExpires \/ (\E c \in Caller : AcquireLost(c))
  PROVE  Books'
<1>1. CASE LeakExpires
  <2>1. Cardinality(leases) \in Nat
    BY FiniteParts DEF Books, Shaped
  <2> QED BY <1>1, <2>1 DEF LeakExpires, Books, Shaped, Held, Fits
<1>2. ASSUME NEW c \in Caller, AcquireLost(c) PROVE Books'
  <2>1. Cardinality(leases) + leaked + 1 <= Limit
    BY <1>2, GrantFits DEF AcquireLost
  <2>2. Fits' /\ leaked' \in Nat
    BY <1>2, <2>1, FiniteParts DEF AcquireLost, Books, Shaped, Fits
  <2>3. Shaped' /\ Held'
    BY <1>2, <2>2 DEF AcquireLost, Books, Shaped, Held, Holding, At, Go, Where
  <2> QED BY <1>2, <2>2, <2>3 DEF AcquireLost, Books
<1> QED BY <1>1, <1>2

LEMMA StepBooks ==
  ASSUME Books, [Next]_vars
  PROVE  Books'
<1> USE DEF Books
<1>1. ASSUME NEW c \in Caller, NEW at \in Where, NEW to \in Where, At(c, at), Go(c, to),
             UNCHANGED leaseVars, at \in Holding <=> to \in Holding
      PROVE  Books'
  <2>1. [pc EXCEPT ![c] = to] \in [Caller -> Where]
    BY DEF Shaped
  <2>2. \A d \in Caller : [pc EXCEPT ![c] = to][d] \in Holding <=> pc[d] \in Holding
    BY <1>1 DEF Shaped, At
  <2> QED BY <1>1, <2>1, <2>2, MoveBooks DEF Go
<1>2. ASSUME NEW c \in Caller, Call(c) PROVE Books'
  <2>1. CASE Start(c) \/ WaitOutCooldown(c)
    BY <1>1, <2>1 DEF Start, WaitOutCooldown, Holding, Where
  <2>2. CASE Acquire(c)
    <3>1. PICK to \in {"hot", "leased"} : pc' = [pc EXCEPT ![c] = to]
      BY <2>2 DEF Acquire, Go
    <3> QED BY <2>2, <3>1, GrantFits, GrantBooks DEF Acquire, At, Holding
  <2>3. CASE AcquireLost(c)
    BY <2>3, LeakedBooks
  <2>4. CASE Queue(c)
    BY <2>4, MoveBooks DEF Queue, Shaped
  <2>5. CASE CheckCooldown(c) \/ CheckFails(c) \/ RateLimited(c)
    <3>1. PICK at \in {"hot", "leased", "calling"},
               to \in {"backOff", "calling", "toPark", "release", "publish"} :
            At(c, at) /\ Go(c, to) /\ UNCHANGED leaseVars
      BY <2>5 DEF CheckCooldown, CheckFails, RateLimited, Verdict, At
    <3> QED BY <1>1, <3>1 DEF Holding, Where
  <2>6. CASE ReleaseLease(c) \/ ReleaseFails(c)
    <3>1. NextPlace(c) \in {"cooldown", "parked", "idle"}
      BY DEF NextPlace, At, Shaped, Where
    <3>2. NextPlace(c) \in Where \ Holding
      BY <3>1 DEF Where, Holding
    <3> QED BY <2>6, <3>2, BackBooks DEF ReleaseLease, ReleaseFails, Go
  <2>7. CASE EndCall(c) \/ PublishCooldown(c)
    BY <2>7, WakeBooks DEF EndCall, PublishCooldown, At
  <2>8. CASE GiveUp(c)
    <3>1. PICK at \in {"cooldown", "wait", "parked"} : At(c, at)
      BY <2>8 DEF GiveUp, At
    <3> QED BY <1>1, <2>8, <3>1 DEF GiveUp, Holding, Where
  <2> QED BY <1>2, <2>1, <2>2, <2>3, <2>4, <2>5, <2>6, <2>7, <2>8 DEF Call
<1>3. ASSUME UNCHANGED <<pc, leaseVars>> PROVE Books'
  BY <1>3, MoveBooks DEF Shaped
<1>4. CASE WaitersGoStale \/ CooldownPasses \/ (\E p \in Process : CooldownPassesHere(p))
    \/ UNCHANGED vars
  BY <1>3, <1>4 DEF WaitersGoStale, CooldownPasses, CooldownPassesHere, vars
<1> QED BY <1>2, <1>4, CrashBooks, LostBooks, LeakedBooks DEF Next

-----------------------------------------------------------------------------

THEOREM BooksKept == Spec => []Books
<1>1. Init => Books
  BY InitBooks
<1>2. Books /\ [Next]_vars => Books'
  BY StepBooks
<1> QED BY <1>1, <1>2, PTL DEF Spec

\* The fleet never makes more model calls than the registered capacity, apart
\* from calls whose lease ran out under them; leases that nobody will give back
\* count until they expire (ACQUIRE_FAIR_LEASE).
THEOREM CapacityHolds == Spec => []FleetCeiling
<1>1. Books => FleetCeiling
  <2> SUFFICES ASSUME Books PROVE FleetCeiling
    OBVIOUS
  <2>1. InCall \ lost \subseteq leases
    BY DEF Books, Held, Holding, InCall
  <2>2. Cardinality(InCall \ lost) <= Cardinality(leases)
    BY <2>1, FiniteParts, FS_Subset DEF Books, Shaped
  <2>3. Cardinality(InCall \ lost) \in Nat /\ Cardinality(leases) \in Nat
    BY <2>1, FiniteParts DEF Books, Shaped, InCall
  <2> QED BY <2>2, <2>3 DEF FleetCeiling, Books, Shaped, Fits
<1> QED BY <1>1, BooksKept, PTL

\* A caller parked on the gate of its process keeps no fleet lease from others
\* (withProviderCallSlot, two phases).
THEOREM TwoPhase == Spec => []ParkedWithoutLease
<1>1. Books => ParkedWithoutLease
  BY DEF Books, Held, Holding, ParkedWithoutLease
<1> QED BY <1>1, BooksKept, PTL

-----------------------------------------------------------------------------
(* The gates.                                                              *)

Gates == Shaped /\ gate \in [Process -> Nat] /\ GateCounts

LEMMA InitGates == Init => Gates
<1> SUFFICES ASSUME Init PROVE Gates
  OBVIOUS
<1>1. \A p \in Process : CallsOf(p) = {}
  BY DEF Init, CallsOf, InCall
<1>2. \A p \in Process : gate[p] = 0 /\ Cardinality(CallsOf(p)) = 0
  BY <1>1, FS_EmptySet DEF Init
<1>3. \A c \in Caller : pc[c] # "parked"
  BY DEF Init
<1>4. GateCounts
  BY <1>2, <1>3 DEF GateCounts
<1> QED BY <1>4 DEF Init, Gates, Shaped, Where

\* A step that starts and ends no call.  Whoever parks in it finds a full gate.
LEMMA SameCalls ==
  ASSUME Gates, Shaped', InCall' = InCall, UNCHANGED gate,
         \A c \in Caller : pc'[c] = "parked" => pc[c] = "parked" \/ ~HasRoom(ProcessOf[c])
  PROVE  Gates'
<1>1. \A p \in Process : CallsOf(p)' = CallsOf(p)
  BY DEF CallsOf
<1>2. \A c \in Caller : ProcessOf[c] \in Process /\ gate[ProcessOf[c]] <= LocalLimit
  BY DEF Gates, GateCounts
<1> QED BY <1>1, <1>2 DEF Gates, GateCounts, HasRoom

\* No count depends on the shape of the leases; it is kept by StepBooks.
LEMMA BeginGates ==
  ASSUME Gates, Shaped', NEW c \in Caller, pc[c] = "leased", HasRoom(ProcessOf[c]),
         Go(c, "calling"), gate' = [gate EXCEPT ![ProcessOf[c]] = @ + 1]
  PROVE  Gates'
<1> DEFINE q == ProcessOf[c]
<1>1. q \in Process /\ CallsOf(q) \in SUBSET Caller /\ c \notin CallsOf(q)
  BY DEF CallsOf, InCall
<1>2. InCall' = InCall \cup {c}
  BY DEF Go, InCall, Gates, Shaped
<1>3. CallsOf(q)' = CallsOf(q) \cup {c} /\ \A p \in Process \ {q} : CallsOf(p)' = CallsOf(p)
  BY <1>2 DEF CallsOf
<1>4. Cardinality(CallsOf(q)') = Cardinality(CallsOf(q)) + 1
  BY <1>1, <1>3, CountIn
<1>5. \A p \in Process : gate'[p] = Cardinality(CallsOf(p)') /\ gate'[p] <= LocalLimit
  <2>1. gate'[q] = gate[q] + 1 /\ gate'[q] <= LocalLimit
    BY <1>1 DEF Gates, GateCounts, HasRoom
  <2>2. \A p \in Process \ {q} : gate'[p] = gate[p]
    BY DEF Gates
  <2>3. gate[q] = Cardinality(CallsOf(q))
    BY <1>1 DEF Gates, GateCounts
  <2>4. gate'[q] = Cardinality(CallsOf(q)')
    BY <1>4, <2>1, <2>3
  <2> QED BY <1>3, <2>1, <2>2, <2>4 DEF Gates, GateCounts
<1>6. ASSUME NEW d \in Caller, pc'[d] = "parked" PROVE gate'[ProcessOf[d]] = LocalLimit
  <2>1. pc[d] = "parked" /\ ProcessOf[d] \in Process
    BY <1>6 DEF Go, Gates, Shaped
  <2>2. ProcessOf[d] # q
    BY <1>1, <2>1 DEF Gates, GateCounts, HasRoom
  <2> QED BY <2>1, <2>2 DEF Gates, GateCounts
<1>7. gate' \in [Process -> Nat]
  BY <1>1 DEF Gates
<1> QED BY <1>5, <1>6, <1>7 DEF Gates, GateCounts

LEMMA EndGates ==
  ASSUME Gates, Shaped', NEW c \in Caller, pc[c] \in {"calling", "publish"},
         pc' = WakeAll(c, "release"), gate' = Emptied(ProcessOf[c])
  PROVE  Gates'
<1> DEFINE q == ProcessOf[c]
<1>1. q \in Process /\ CallsOf(q) \in SUBSET Caller /\ c \in CallsOf(q)
  BY DEF CallsOf, InCall
<1>2. \A d \in Caller : pc'[d] =
        IF d = c THEN "release" ELSE IF d \in Parked(q) THEN "cooldown" ELSE pc[d]
  BY WakeShape DEF Gates, Shaped, Where
<1>3. InCall' = InCall \ {c}
  BY <1>2 DEF InCall, Parked
<1>4. CallsOf(q)' = CallsOf(q) \ {c} /\ \A p \in Process \ {q} : CallsOf(p)' = CallsOf(p)
  BY <1>3 DEF CallsOf
<1>5. Cardinality(CallsOf(q)') = Cardinality(CallsOf(q)) - 1 /\ Cardinality(CallsOf(q)) >= 1
  BY <1>1, <1>4, CountOut
<1>6. gate' \in [Process -> Nat]
  BY <1>1, <1>5 DEF Gates, GateCounts, Emptied
<1>7. \A p \in Process : gate'[p] = Cardinality(CallsOf(p)') /\ gate'[p] <= LocalLimit
  <2>1. gate'[q] = gate[q] - 1 /\ \A p \in Process \ {q} : gate'[p] = gate[p]
    BY <1>1 DEF Gates, Emptied
  <2>2. gate[q] = Cardinality(CallsOf(q)) /\ gate[q] <= LocalLimit /\ gate[q] \in Nat
    BY <1>1 DEF Gates, GateCounts
  <2>3. gate'[q] = Cardinality(CallsOf(q)') /\ gate'[q] <= LocalLimit
    BY <1>5, <2>1, <2>2
  <2> QED BY <1>4, <2>1, <2>3 DEF Gates, GateCounts
<1>8. ASSUME NEW d \in Caller, pc'[d] = "parked" PROVE gate'[ProcessOf[d]] = LocalLimit
  <2>1. pc[d] = "parked" /\ ProcessOf[d] # q /\ ProcessOf[d] \in Process
    BY <1>2, <1>8 DEF Parked
  <2> QED BY <2>1 DEF Gates, GateCounts, Emptied
<1> QED BY <1>6, <1>7, <1>8 DEF Gates, GateCounts

LEMMA CrashGates ==
  ASSUME Gates, Shaped', NEW q \in Process, Crash(q)
  PROVE  Gates'
<1>1. \A d \in Caller : pc'[d] = IF ProcessOf[d] = q THEN "idle" ELSE pc[d]
  BY DEF Crash
<1>2. CallsOf(q)' = {} /\ \A p \in Process \ {q} : CallsOf(p)' = CallsOf(p)
  BY <1>1 DEF CallsOf, InCall
<1>3. gate' = [gate EXCEPT ![q] = 0] /\ Cardinality({}) = 0
  BY FS_EmptySet DEF Crash
<1>4. \A p \in Process : gate'[p] = Cardinality(CallsOf(p)') /\ gate'[p] <= LocalLimit
  BY <1>2, <1>3 DEF Gates, GateCounts
<1>5. ASSUME NEW d \in Caller, pc'[d] = "parked" PROVE gate'[ProcessOf[d]] = LocalLimit
  <2>1. pc[d] = "parked" /\ ProcessOf[d] # q /\ ProcessOf[d] \in Process
    BY <1>1, <1>5
  <2> QED BY <1>3, <2>1 DEF Gates, GateCounts
<1> QED BY <1>3, <1>4, <1>5 DEF Gates, GateCounts

LEMMA StepGates ==
  ASSUME Gates, Shaped', [Next]_vars
  PROVE  Gates'
<1>1. ASSUME NEW c \in Caller, NEW at \in Where, NEW to \in Where, At(c, at), Go(c, to),
             UNCHANGED gate, at \in {"calling", "publish"} <=> to \in {"calling", "publish"},
             to = "parked" => ~HasRoom(ProcessOf[c])
      PROVE  Gates'
  <2>1. InCall' = InCall
    BY <1>1 DEF At, Go, InCall, Gates, Shaped
  <2> QED BY <1>1, <2>1, SameCalls DEF Go, Gates, Shaped
<1>2. ASSUME UNCHANGED <<pc, gate>> PROVE Gates'
  BY <1>2, SameCalls DEF InCall
<1>3. ASSUME NEW c \in Caller, Call(c) PROVE Gates'
  <2>1. CASE Start(c) \/ WaitOutCooldown(c)
    BY <1>1, <2>1 DEF Start, WaitOutCooldown, Where
  <2>2. CASE Acquire(c)
    <3>1. PICK to \in {"hot", "leased"} : Go(c, to)
      BY <2>2 DEF Acquire
    <3> QED BY <1>1, <2>2, <3>1 DEF Acquire, Where
  <2>3. CASE AcquireLost(c) \/ CheckFails(c) \/ RateLimited(c)
    <3>1. PICK at \in Where, to \in Where :
            /\ At(c, at) /\ Go(c, to) /\ UNCHANGED gate /\ to # "parked"
            /\ at \in {"calling", "publish"} <=> to \in {"calling", "publish"}
      <4>1. CASE AcquireLost(c)
        BY <4>1 DEF AcquireLost, At, Where
      <4>2. CASE CheckFails(c)
        BY <4>2 DEF CheckFails, At, Where
      <4>3. CASE RateLimited(c)
        BY <4>3 DEF RateLimited, At, Where
      <4> QED BY <2>3, <4>1, <4>2, <4>3
    <3> QED BY <1>1, <3>1
  <2>4. CASE Queue(c)
    BY <1>2, <2>4 DEF Queue
  <2>5. CASE CheckCooldown(c)
    <3>1. CASE Verdict(c) = "calling"
      <4>1. pc[c] = "leased" /\ HasRoom(ProcessOf[c])
        BY <2>5, <3>1 DEF CheckCooldown, Verdict, At
      <4> QED BY <2>5, <3>1, <4>1, BeginGates DEF CheckCooldown
    <3>2. CASE Verdict(c) # "calling"
      <4>1. Verdict(c) \in {"backOff", "toPark"}
        BY <3>2 DEF Verdict
      <4>2. PICK at \in {"hot", "leased"} : At(c, at)
        BY <2>5 DEF CheckCooldown, At
      <4> QED BY <1>1, <2>5, <3>2, <4>1, <4>2 DEF CheckCooldown, Where
    <3> QED BY <3>1, <3>2
  <2>6. CASE ReleaseLease(c) \/ ReleaseFails(c)
    <3>1. /\ NextPlace(c) \in {"cooldown", "parked", "idle"}
          /\ NextPlace(c) = "parked" => ~HasRoom(ProcessOf[c])
      BY DEF NextPlace, At
    <3>2. PICK at \in {"backOff", "toPark", "release"} : At(c, at)
      BY <2>6 DEF ReleaseLease, ReleaseFails, Releasing, At
    <3> QED BY <1>1, <2>6, <3>1, <3>2 DEF ReleaseLease, ReleaseFails, Where
  <2>7. CASE EndCall(c) \/ PublishCooldown(c)
    BY <2>7, EndGates DEF EndCall, PublishCooldown, At
  <2>8. CASE GiveUp(c)
    <3>1. PICK at \in {"cooldown", "wait", "parked"} : At(c, at)
      BY <2>8 DEF GiveUp, At
    <3> QED BY <1>1, <2>8, <3>1 DEF GiveUp, Where
  <2> QED BY <1>3, <2>1, <2>2, <2>3, <2>4, <2>5, <2>6, <2>7, <2>8 DEF Call
<1>4. CASE \/ LeakExpires \/ WaitersGoStale \/ CooldownPasses \/ UNCHANGED vars
           \/ (\E p \in Process : CooldownPassesHere(p)) \/ (\E c \in Caller : LeaseLost(c))
  BY <1>2, <1>4
  DEF LeakExpires, WaitersGoStale, CooldownPasses, CooldownPassesHere, LeaseLost, vars
<1> QED BY <1>3, <1>4, CrashGates DEF Next

\* The gate of a process counts its calls exactly, and a caller is parked only
\* behind a full gate, whatever releases, wake-ups, time-outs and crashes did
\* (tryAcquireLocal, acquire, release).
THEOREM GatesExact == Spec => []GateExact
<1>1. Init => Gates
  BY InitGates
<1>2. Books' => Shaped'
  BY DEF Books
<1>3. Gates /\ Books' /\ [Next]_vars => Gates'
  BY <1>2, StepGates
<1>4. Gates => GateExact
  BY DEF Gates, GateCounts, CallsOf, GateExact, Parked
<1> QED BY <1>1, <1>3, <1>4, BooksKept, PTL DEF Spec

=============================================================================
