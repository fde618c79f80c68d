-------------------------- MODULE RedisQueueProofs --------------------------
(***************************************************************************)
(* What holds of RedisQueue for every set of payloads, slots and tokens.   *)
(***************************************************************************)
EXTENDS RedisQueue, DataTheorems

-----------------------------------------------------------------------------
(* Payloads.                                                               *)

\* The parts of a payload that the queue reads are of their types.
LEMMA PayloadTypes ==
  ASSUME NEW j \in Job
  PROVE  /\ j.pr \in PR /\ j.tenant \in Tenant /\ j.priority \in Nat
         /\ j.review \in BOOLEAN /\ j.unlimited \in BOOLEAN
         /\ KeyOf(j) \in Key /\ BareOf(j) \in Key /\ ReadyOf(j) \in Key
         /\ DraftOf(j) \in Key /\ CompletedKeys(j) \subseteq Key
BY PayloadAssumption, SMT DEF IsPayload, PR, Tenant, Key, CompletedKeys

\* The job that a worker submits after a transient failure is a payload of
\* the same pull request.
LEMMA RetriedIsJob ==
  ASSUME NEW j \in Job, j.attempts < MaxJobRetries
  PROVE  Retried(j) \in Job
BY RetryAssumption

-----------------------------------------------------------------------------
(* Positions in a list.                                                    *)

\* The selected position is one of the eligible ones.
LEMMA SelectedIsEligible ==
  ASSUME queue \in Seq(Job), Eligible # {}
  PROVE  Selected \in Eligible /\ Selected \in 1..Len(queue)
<1>1. Eligible \subseteq 1..Len(queue) /\ Len(queue) \in Nat
  BY WindowAssumption DEF Eligible, Inspected
<1>2. Eligible \subseteq Nat
  BY <1>1
<1>3. Min(Eligible) \in Eligible
  BY <1>2, MinInSet
<1>4. \E i \in Eligible :
        \A k \in Eligible : \/ queue[k].priority < queue[i].priority
                            \/ queue[k].priority = queue[i].priority /\ i <= k
  <2> DEFINE rank == [i \in Eligible |-> queue[i].priority]
  <2>1. rank \in [Eligible -> Nat]
    BY <1>1, ElementOfSeq, PayloadTypes
  <2>2. \E i \in Eligible : \A k \in Eligible :
          rank[k] < rank[i] \/ (rank[k] = rank[i] /\ i <= k)
    <3> HIDE DEF rank
    <3> QED
      BY <1>1, <2>1, FirstExists
  <2> QED
    BY <2>2
<1>5. Selected \in Eligible
  BY <1>3, <1>4 DEF Selected
<1> QED
  BY <1>1, <1>5

-----------------------------------------------------------------------------
(* Typing of the parts from which the actions are built.                   *)

Busy == [pc : PC \ {"idle"}, job : Job, tok : Token]
SlotTyped == slot \in [Slot -> Busy \cup {Idle}]
ListsTyped == queue \in Seq(Job) /\ pending \in [PR -> Seq(Job)] /\ pendingCount \in Nat
DedupTyped == seen \in SUBSET Key /\ done \in SUBSET Key /\ jobState \in [Key -> JobState]
TenantTyped ==
  /\ tenantActive \in [Tenant -> Nat]
  /\ claimTenant \in [Token -> Tenant \cup {NoTenant}]
  /\ claimExpired \in SUBSET Token

\* A slot that is not idle holds a payload and a token.
LEMMA BusySlot ==
  ASSUME SlotTyped, NEW s \in Slot
  PROVE  /\ slot[s].pc # "idle" => slot[s] \in Busy /\ slot[s].job \in Job /\ slot[s].tok \in Token
         /\ slot[s].pc = "idle" => slot[s] = Idle
BY DEF SlotTyped, Busy, Idle

\* Moving a busy slot on keeps its job and its token.
LEMMA GotoKeeps ==
  ASSUME SlotTyped, NEW s \in Slot, slot[s].pc # "idle",
         NEW pc \in PC \ {"idle"}, Goto(s, pc)
  PROVE  /\ SlotTyped'
         /\ slot'[s].pc = pc /\ slot'[s].job = slot[s].job /\ slot'[s].tok = slot[s].tok
         /\ \A r \in Slot \ {s} : slot'[r] = slot[r]
BY BusySlot DEF SlotTyped, Busy, Goto

\* A slot that leaves its job is idle.
LEMMA LeaveKeeps ==
  ASSUME SlotTyped, NEW s \in Slot, Leave(s)
  PROVE  /\ SlotTyped' /\ slot'[s] = Idle
         /\ \A r \in Slot \ {s} : slot'[r] = slot[r]
         /\ lost' = lost \ {s}
BY DEF SlotTyped, Leave

\* Pending jobs are payloads, also the one that is replaced.
LEMMA ReplacedIsJob ==
  ASSUME ListsTyped, NEW p \in PR, Replaceable(p) # {}
  PROVE  /\ ReplacedAt(p) \in Replaceable(p) /\ ReplacedAt(p) \in 1..Len(pending[p])
         /\ Superseded(p) \in Job
<1>1. Replaceable(p) \subseteq 1..Len(pending[p]) /\ Len(pending[p]) \in Nat
  BY DEF ListsTyped, Replaceable, ReviewsIn
<1>2. ReplacedAt(p) \in Replaceable(p)
  BY <1>1, MaxInSet DEF ReplacedAt
<1> QED
  BY <1>1, <1>2, ElementOfSeq DEF ListsTyped, Superseded

LEMMA ReplaceKeepsType ==
  ASSUME ListsTyped, NEW j \in Job, ReplacePending(j)
  PROVE  pending' \in [PR -> Seq(Job)] /\ pendingCount' \in Nat
<1>1. [pending[j.pr] EXCEPT ![ReplacedAt(j.pr)] = j] \in Seq(Job)
  BY PayloadTypes, ReplacedIsJob, ExceptSeq DEF ListsTyped, ReplacePending
<1> QED
  BY <1>1, PayloadTypes DEF ListsTyped, ReplacePending

LEMMA AddKeepsType ==
  ASSUME ListsTyped, NEW j \in Job, AddPending(j)
  PROVE  pending' \in [PR -> Seq(Job)] /\ pendingCount' \in Nat
BY PayloadTypes, AppendProperties DEF ListsTyped, AddPending

\* The states and SEEN keys that a superseded job leaves.
LEMMA SupersedeKeepsType ==
  ASSUME DedupTyped, NEW old \in Job
  PROVE  Cancelled(old) \in [Key -> JobState] /\ ClearedKeys(old) \subseteq Key
BY PayloadTypes DEF DedupTyped, Cancelled, ClearedKeys, SetState, JobState

LEMMA SetStateType ==
  ASSUME DedupTyped, NEW j \in Job, NEW st \in JobState
  PROVE  SetState(j, st) \in [Key -> JobState]
BY DEF DedupTyped, SetState

LEMMA EnqueueKeepsType ==
  ASSUME ListsTyped, DedupTyped, NEW j \in Job, EnqueueScript(j)
  PROVE  /\ queue' \in Seq(Job) /\ pending' \in [PR -> Seq(Job)] /\ pendingCount' \in Nat
         /\ seen' \in SUBSET Key /\ jobState' \in [Key -> JobState]
<1>0. KeyOf(j) \in Key /\ j.pr \in PR /\ "ready" \in JobState
  BY PayloadTypes DEF JobState
<1>1. CASE KeyOf(j) \in seen /\ UNCHANGED <<listVars, seen, jobState>>
  BY <1>1 DEF listVars, ListsTyped, DedupTyped
<1>2. CASE /\ ReplacePending(j)
           /\ seen' = (seen \cup {KeyOf(j)}) \ ClearedKeys(Superseded(j.pr))
           /\ jobState' = [Cancelled(Superseded(j.pr)) EXCEPT ![KeyOf(j)] = "ready"]
           /\ UNCHANGED queue
  <2>1. Superseded(j.pr) \in Job
    BY <1>0, <1>2, ReplacedIsJob DEF ReplacePending
  <2>2. jobState' \in [Key -> JobState]
    BY <1>0, <1>2, <2>1, SupersedeKeepsType
  <2> QED
    BY <1>0, <1>2, <2>2, ReplaceKeepsType DEF ListsTyped, DedupTyped
<1>3. CASE AddPending(j) /\ seen' = seen \cup {KeyOf(j)} /\ jobState' = SetState(j, "ready")
           /\ UNCHANGED queue
  BY <1>0, <1>3, AddKeepsType, SetStateType DEF ListsTyped, DedupTyped
<1>4. CASE queue' = Append(queue, j) /\ seen' = seen \cup {KeyOf(j)}
           /\ jobState' = SetState(j, "ready") /\ UNCHANGED <<pending, pendingCount>>
  BY <1>0, <1>4, SetStateType, AppendProperties DEF ListsTyped, DedupTyped
<1> QED
  BY <1>1, <1>2, <1>3, <1>4 DEF EnqueueScript

LEMMA DrainKeepsType ==
  ASSUME ListsTyped, NEW p \in PR, DrainPending(p)
  PROVE  queue' \in Seq(Job) /\ pending' \in [PR -> Seq(Job)] /\ pendingCount' \in Nat
<1>1. CASE pending[p] = <<>> /\ UNCHANGED listVars
  BY <1>1 DEF listVars, ListsTyped
<1>2. CASE /\ pending[p] # <<>>
           /\ pending' = [pending EXCEPT ![p] = Tail(@)]
           /\ pendingCount' = Minus(pendingCount, 1)
           /\ queue' = Append(queue, Head(pending[p]))
  <2>1. Head(pending[p]) \in Job /\ Tail(pending[p]) \in Seq(Job)
    BY <1>2, HeadTailProperties DEF ListsTyped
  <2> QED
    BY <1>2, <2>1, AppendProperties DEF ListsTyped, Minus
<1> QED
  BY <1>1, <1>2 DEF DrainPending

LEMMA ReleaseTenantKeepsType ==
  ASSUME TenantTyped, NEW k \in Token, ReleaseTenantClaim(k)
  PROVE  TenantTyped'
BY DEF TenantTyped, ReleaseTenantClaim, Minus

\* The expired claims of a tenant can be counted: tokens are finitely many.
LEMMA SweptTypes ==
  ASSUME TenantTyped
  PROVE  /\ SweptActive \in [Tenant -> Nat]
         /\ SweptClaims \in [Token -> Tenant \cup {NoTenant}]
         /\ SweptExpired \in SUBSET Token
<1>1. \A t : Cardinality({k \in claimExpired : claimTenant[k] = t}) \in Nat
  BY TokenAssumption, FS_Subset, FS_CardinalityType DEF TenantTyped
<1>2. \A n, k \in Nat : Minus(n, k) \in Nat
  BY DEF Minus
<1>3. SweptActive \in [Tenant -> Nat]
  BY <1>1, <1>2 DEF TenantTyped, SweptActive
<1> QED
  BY <1>3 DEF TenantTyped, SweptClaims, SweptExpired

LEMMA SweepKeepsType ==
  ASSUME TenantTyped, SweepTenantClaims
  PROVE  TenantTyped'
BY SweptTypes DEF TenantTyped, SweepTenantClaims

LEMMA ChargeKeepsType ==
  ASSUME TenantTyped, NEW j \in Job, NEW k \in Token, Charge(j, k)
  PROVE  TenantTyped'
BY SweptTypes, PayloadTypes DEF TenantTyped, SweepTenantClaims, Charge

LEMMA RebindKeepsType ==
  ASSUME TenantTyped, NEW j \in Job, NEW k \in Token, RebindTenant(j, k)
  PROVE  TenantTyped'
BY PayloadTypes DEF TenantTyped, RebindTenant

\* The whole state, in the parts above.
LEMMA TypeParts ==
  TypeOK <=>
    /\ ListsTyped /\ DedupTyped /\ TenantTyped /\ SlotTyped
    /\ processing \in SUBSET Entry
    /\ inflight \in [PR -> Token \cup {NoToken}]
    /\ resumed \in [Key -> Nat] /\ deadLetters \in [Job -> Nat]
    /\ burst \in Nat /\ delayed \in SUBSET Job
    /\ lost \in SUBSET Slot /\ arriving \in SUBSET Job
    /\ arrivals \in Nat /\ crashes \in Nat /\ stalls \in Nat
BY DEF TypeOK, ListsTyped, DedupTyped, TenantTyped, SlotTyped, Busy

LEMMA TypeInit == Init => TypeOK
BY DEF Init, TypeOK, JobState

\* Entries whose recovery clock was set are entries.
LEMMA MetaKeepsType ==
  ASSUME NEW e \in Entry, NEW m \in Meta
  PROVE  [e EXCEPT !.meta = m] \in Entry
BY DEF Entry

\* A worker that enqueues its job again has attempts left: without it a step
\* from a well-typed state could enqueue a payload beyond the retry limit.
RetriesLeft ==
  \A s \in Slot : slot[s].pc \in {"retry", "retrySubmit"} => slot[s].job.attempts < MaxJobRetries

\* Ending an owned claim keeps the types of what it releases.
LEMMA ReleaseKeepsType ==
  ASSUME TypeOK, NEW s \in Slot, ReleaseOwned(s)
  PROVE  /\ slot[s].pc \in {"held", "running"}
         /\ slot[s].job \in Job /\ slot[s].tok \in Token
         /\ TenantTyped' /\ processing' \in SUBSET Entry
         /\ inflight' \in [PR -> Token \cup {NoToken}]
<1>1. slot[s].pc # "idle" /\ slot[s].job \in Job /\ slot[s].tok \in Token
  BY BusySlot, TypeParts DEF ReleaseOwned, Executing
<1>2. TenantTyped'
  BY <1>1, TypeParts, ReleaseTenantKeepsType DEF ReleaseOwned
<1> QED
  BY <1>1, <1>2 DEF TypeOK, ReleaseOwned, Executing


LEMMA TypeStep == TypeOK /\ RetriesLeft /\ [Next]_vars => TypeOK'
<1> SUFFICES ASSUME TypeOK, RetriesLeft, [Next]_vars
             PROVE  TypeOK'
  OBVIOUS
<1> USE DEF listVars, dedupVars, tenantVars, recoveryVars, arrivalVars, faultVars
<1>0. ListsTyped /\ DedupTyped /\ TenantTyped /\ SlotTyped
  BY TypeParts
<1>Arrive. ASSUME NEW j \in Job, Arrive(j)
      PROVE  TypeOK'
  BY <1>0, <1>Arrive
  DEF Arrive, TypeOK, ListsTyped, DedupTyped, TenantTyped, SlotTyped, Busy
<1>Enqueue. ASSUME NEW j \in Job, Enqueue(j)
      PROVE  TypeOK'
  BY <1>0, <1>Enqueue, EnqueueKeepsType
  DEF Enqueue, TypeOK, ListsTyped, DedupTyped, TenantTyped, SlotTyped, Busy
<1>Delay. ASSUME NEW j \in Job, DelayElapses(j)
      PROVE  TypeOK'
  BY <1>0, <1>Delay
  DEF DelayElapses, TypeOK, ListsTyped, DedupTyped, TenantTyped, SlotTyped, Busy
<1>DequeueEmpty. ASSUME NEW s \in Slot, DequeueEmpty(s)
      PROVE  TypeOK'
  BY <1>0, <1>DequeueEmpty
  DEF DequeueEmpty, TypeOK, ListsTyped, DedupTyped, TenantTyped, SlotTyped, Busy
<1>CheckDone. ASSUME NEW s \in Slot, CheckDone(s)
      PROVE  TypeOK'
  BY <1>0, <1>CheckDone, GotoKeeps
  DEF CheckDone, PC, TypeOK, ListsTyped, DedupTyped, TenantTyped, SlotTyped, Busy
<1>DropEntry. ASSUME NEW s \in Slot, DropEntry(s)
      PROVE  TypeOK'
  BY <1>0, <1>DropEntry, LeaveKeeps
  DEF DropEntry, OwnEntries, TypeOK, ListsTyped, DedupTyped, TenantTyped, SlotTyped, Busy
<1>ClaimLease. ASSUME NEW s \in Slot, ClaimLease(s)
      PROVE  TypeOK'
  BY <1>0, <1>ClaimLease, BusySlot, GotoKeeps, PayloadTypes, SetStateType, ChargeKeepsType
  DEF ClaimLease, PC, JobState, TypeOK, ListsTyped, DedupTyped, TenantTyped, SlotTyped, Busy
<1>RenewLease. ASSUME NEW s \in Slot, RenewLease(s)
      PROVE  TypeOK'
  BY <1>0, <1>RenewLease, BusySlot, RebindKeepsType
  DEF RenewLease, Executing, TypeOK, ListsTyped, DedupTyped, TenantTyped, SlotTyped, Busy
<1>MarkRunning. ASSUME NEW s \in Slot, MarkRunning(s)
      PROVE  TypeOK'
  BY <1>0, <1>MarkRunning, BusySlot, GotoKeeps, SetStateType
  DEF MarkRunning, PC, JobState, TypeOK, ListsTyped, DedupTyped, TenantTyped, SlotTyped, Busy
<1>PersistJobFails. ASSUME NEW s \in Slot, PersistJobFails(s)
      PROVE  TypeOK'
  BY <1>0, <1>PersistJobFails, LeaveKeeps
  DEF PersistJobFails, TypeOK, ListsTyped, DedupTyped, TenantTyped, SlotTyped, Busy
<1>ReleaseLockAndDrain. ASSUME NEW s \in Slot, ReleaseLockAndDrain(s)
      PROVE  TypeOK'
  BY <1>0, <1>ReleaseLockAndDrain, BusySlot, GotoKeeps, LeaveKeeps, DrainKeepsType, PayloadTypes
  DEF ReleaseLockAndDrain, PC, TypeOK, ListsTyped, DedupTyped, TenantTyped, SlotTyped, Busy
<1>ResubmitCheck. ASSUME NEW s \in Slot, ResubmitCheck(s)
      PROVE  TypeOK'
  BY <1>0, <1>ResubmitCheck, BusySlot, GotoKeeps, LeaveKeeps
  DEF ResubmitCheck, PC, TypeOK, ListsTyped, DedupTyped, TenantTyped, SlotTyped, Busy
<1>Crash. ASSUME NEW s \in Slot, Crash(s)
      PROVE  TypeOK'
  BY <1>0, <1>Crash, LeaveKeeps
  DEF Crash, TypeOK, ListsTyped, DedupTyped, TenantTyped, SlotTyped, Busy
<1>RecoverSuperseded. ASSUME NEW e \in processing, RecoverSuperseded(e)
      PROVE  TypeOK'
  BY <1>0, <1>RecoverSuperseded, ReleaseTenantKeepsType
  DEF RecoverSuperseded, Entry, TypeOK, ListsTyped, DedupTyped, TenantTyped, SlotTyped, Busy
<1>RecoverGrace. ASSUME NEW e \in processing, RecoverGrace(e)
      PROVE  TypeOK'
  BY <1>0, <1>RecoverGrace
  DEF RecoverGrace, Entry, Meta, StampOnce, TypeOK, ListsTyped, DedupTyped, TenantTyped, SlotTyped, Busy
<1>RecoverPending. ASSUME NEW p \in PR, RecoverPending(p)
      PROVE  TypeOK'
  BY <1>0, <1>RecoverPending, DrainKeepsType
  DEF RecoverPending, TypeOK, ListsTyped, DedupTyped, TenantTyped, SlotTyped, Busy
<1>LeaseExpires. ASSUME NEW p \in PR, LeaseExpires(p)
      PROVE  TypeOK'
  BY <1>0, <1>LeaseExpires
  DEF LeaseExpires, Unrenewed, Renewers, TypeOK, ListsTyped, DedupTyped, TenantTyped, SlotTyped, Busy
<1>TenantClaimExpires. ASSUME NEW k \in Token, TenantClaimExpires(k)
      PROVE  TypeOK'
  BY <1>0, <1>TenantClaimExpires
  DEF TenantClaimExpires, Unrenewed, Renewers, TypeOK, ListsTyped, DedupTyped, TenantTyped, SlotTyped, Busy
<1>StaleRelease. ASSUME NEW s \in Slot, StaleRelease(s)
      PROVE  TypeOK'
  BY <1>0, <1>StaleRelease, BusySlot, LeaveKeeps, ReleaseTenantKeepsType
  DEF StaleRelease, OwnEntries, Executing, TypeOK, ListsTyped, DedupTyped, TenantTyped, SlotTyped, Busy
<1>Replay. ASSUME NEW j \in Job, ReplayDeadLetter(j)
      PROVE  TypeOK'
  <2>1. SetState(j, "ready") \in [Key -> JobState] /\ KeyOf(j) \in Key
    BY <1>0, SetStateType, PayloadTypes DEF JobState
  <2>2. Append(queue, j) \in Seq(Job)
    BY AppendProperties DEF TypeOK
  <2> QED
    BY <1>Replay, <2>1, <2>2 DEF ReplayDeadLetter, Listed, TypeOK
<1>DequeueJob. ASSUME NEW s \in Slot, DequeueJob(s)
      PROVE  TypeOK'
  <2>1. Selected \in 1..Len(queue) /\ queue[Selected] \in Job
    BY <1>0, <1>DequeueJob, SelectedIsEligible, ElementOfSeq DEF DequeueJob, ListsTyped
  <2>2. RemoveAt(queue, Selected) \in Seq(Job)
    <3>1. SubSeq(queue, 1, Selected - 1) \in Seq(Job) /\ SubSeq(queue, Selected + 1, Len(queue)) \in Seq(Job)
      BY <2>1 DEF TypeOK
    <3> QED
      BY <3>1, ConcatProperties DEF RemoveAt
  <2>3. PICK k \in Token :
          /\ processing' = processing \cup {[tok |-> k, job |-> queue[Selected], meta |-> "none"]}
          /\ slot' = [slot EXCEPT ![s] = [pc |-> "check", job |-> queue[Selected], tok |-> k]]
    BY <1>DequeueJob DEF DequeueJob
  <2>4. processing' \in SUBSET Entry
    BY <2>1, <2>3 DEF TypeOK, Entry, Meta
  <2>5. slot' \in [Slot -> Busy \cup {Idle}]
    BY <2>1, <2>3 DEF TypeOK, Busy, PC
  <2>6. TenantTyped'
    BY <1>0, <1>DequeueJob, SweepKeepsType DEF DequeueJob
  <2>7. burst' \in Nat
    BY <1>DequeueJob, WindowAssumption DEF DequeueJob, TypeOK
  <2> QED
    BY <1>DequeueJob, <2>2, <2>4, <2>5, <2>6, <2>7 DEF DequeueJob, TypeOK, TenantTyped, Busy
<1>DequeueBlocked. ASSUME NEW s \in Slot, DequeueBlocked(s)
      PROVE  TypeOK'
  <2>1. queue' \in Seq(Job)
    <3>0. Len(queue) \in Nat \ {0}
      BY <1>DequeueBlocked, EmptySeq DEF DequeueBlocked, TypeOK
    <3>1. Inspected \subseteq 1..Len(queue) /\ 1 \in Inspected
      BY <3>0, WindowAssumption DEF Inspected
    <3>2. Max(Inspected) \in 1..Len(queue)
      BY <3>1, MaxInSet, LenProperties DEF TypeOK
    <3>3. /\ SubSeq(queue, Max(Inspected) + 1, Len(queue)) \in Seq(Job)
          /\ SubSeq(queue, 1, Max(Inspected)) \in Seq(Job)
      BY <3>2 DEF TypeOK
    <3> QED
      BY <1>DequeueBlocked, <3>3, ConcatProperties DEF DequeueBlocked, TypeOK
  <2>2. TenantTyped'
    BY <1>0, <1>DequeueBlocked, SweepKeepsType DEF DequeueBlocked
  <2> QED
    BY <1>DequeueBlocked, <2>1, <2>2 DEF DequeueBlocked, TypeOK, TenantTyped
<1>ClaimTenantFull. ASSUME NEW s \in Slot, ClaimTenantFull(s)
      PROVE  TypeOK'
  <2>1. TenantTyped' /\ SlotTyped' /\ lost' = lost \ {s} /\ slot[s].job \in Job
    BY <1>0, <1>ClaimTenantFull, BusySlot, LeaveKeeps, SweepKeepsType DEF ClaimTenantFull
  <2>2. queue' \in Seq(Job)
    BY <1>ClaimTenantFull, <2>1, ConcatProperties DEF ClaimTenantFull, TypeOK
  <2> QED
    BY <1>ClaimTenantFull, <2>1, <2>2 DEF ClaimTenantFull, TypeOK, TenantTyped, SlotTyped, Busy
<1>ClaimPending. ASSUME NEW s \in Slot, ClaimPending(s)
      PROVE  TypeOK'
  <2> DEFINE j == slot[s].job
  <2>1. j \in Job /\ j.pr \in PR /\ SlotTyped' /\ TenantTyped'
    BY <1>0, <1>ClaimPending, BusySlot, PayloadTypes, GotoKeeps, SweepKeepsType DEF ClaimPending, PC
  <2>2. /\ pending' \in [PR -> Seq(Job)] /\ pendingCount' \in Nat
        /\ seen' \in SUBSET Key /\ jobState' \in [Key -> JobState]
    <3>1. CASE /\ ReplacePending(j)
               /\ seen' = seen \ ClearedKeys(Superseded(j.pr))
               /\ jobState' = Cancelled(Superseded(j.pr))
      <4>1. Superseded(j.pr) \in Job
        BY <1>0, <2>1, <3>1, ReplacedIsJob DEF ReplacePending
      <4> QED
        BY <1>0, <2>1, <3>1, <4>1, SupersedeKeepsType, ReplaceKeepsType DEF DedupTyped
    <3>2. CASE AddPending(j) /\ UNCHANGED <<seen, jobState>>
      BY <1>0, <2>1, <3>2, AddKeepsType DEF DedupTyped
    <3> QED
      BY <1>ClaimPending, <3>1, <3>2 DEF ClaimPending
  <2> QED
    BY <1>ClaimPending, <2>1, <2>2 DEF ClaimPending, TypeOK, TenantTyped, SlotTyped, Busy
<1>StampMeta. ASSUME NEW s \in Slot, StampMeta(s)
      PROVE  TypeOK'
  <2>1. SlotTyped'
    BY <1>0, <1>StampMeta, GotoKeeps DEF StampMeta, PC
  <2>2. Stamped(OwnEntries(s)) \subseteq Entry
    BY MetaKeepsType DEF Stamped, OwnEntries, TypeOK, Meta
  <2> QED
    BY <1>StampMeta, <2>1, <2>2 DEF StampMeta, TypeOK, SlotTyped, Busy
<1>PersistJob. ASSUME NEW s \in Slot, PersistJob(s)
      PROVE  TypeOK'
  <2>1. TenantTyped'
    BY <1>0, <1>PersistJob, BusySlot, RebindKeepsType DEF PersistJob
  <2>2. \A m \in Meta : StampOnce(m) \in Meta
    BY DEF StampOnce, Meta
  <2>3. \A e \in Entry : [e EXCEPT !.meta = StampOnce(@)] \in Entry
    BY <2>2 DEF Entry
  <2>4. processing' \subseteq Entry
    BY <1>PersistJob, <2>3 DEF PersistJob, OwnEntries, TypeOK
  <2> QED
    BY <1>PersistJob, <2>1, <2>4 DEF PersistJob, TypeOK, TenantTyped
<1>GraceElapses. ASSUME NEW e \in processing, GraceElapses(e)
      PROVE  TypeOK'
  <2>1. [e EXCEPT !.meta = "old"] \in Entry
    BY MetaKeepsType DEF TypeOK, Meta
  <2>2. processing' \subseteq Entry
    BY <1>GraceElapses, <2>1 DEF GraceElapses, TypeOK
  <2>3. stalls' \in Nat
    BY <1>GraceElapses DEF GraceElapses, TypeOK
  <2> QED
    BY <1>GraceElapses, <2>2, <2>3 DEF GraceElapses, TypeOK
<1>MarkCompleted. ASSUME NEW s \in Slot, MarkCompleted(s)
      PROVE  TypeOK'
  <2>1. SlotTyped' /\ slot[s].job \in Job
    BY <1>0, <1>MarkCompleted, BusySlot, GotoKeeps DEF MarkCompleted, PC
  <2>2. done' \in SUBSET Key /\ jobState' \in [Key -> JobState]
    BY <1>0, <1>MarkCompleted, <2>1, PayloadTypes, SetStateType DEF MarkCompleted, DedupTyped, JobState
  <2> QED
    BY <1>MarkCompleted, <2>1, <2>2, ReleaseKeepsType DEF MarkCompleted, TypeOK, TenantTyped, SlotTyped, Busy
<1>Failed. ASSUME NEW s \in Slot, NEW next \in PC \ {"idle"}, MarkFailed(s, next)
      PROVE  TypeOK'
  <2>1. slot[s].pc # "idle" /\ slot[s].job \in Job
    BY <1>Failed, ReleaseKeepsType DEF MarkFailed
  <2>2. SlotTyped'
    BY <1>0, <1>Failed, <2>1, GotoKeeps DEF MarkFailed
  <2>3. seen' \in SUBSET Key /\ jobState' \in [Key -> JobState]
    BY <1>0, <1>Failed, <2>1, SetStateType DEF MarkFailed, DedupTyped, JobState, ClearSeen
  <2> QED
    BY <1>Failed, <2>2, <2>3, ReleaseKeepsType DEF MarkFailed, TypeOK, TenantTyped, SlotTyped, Busy
<1>DeadLetter. ASSUME NEW s \in Slot, DeadLetter(s)
      PROVE  TypeOK'
  <2>1. slot[s].pc # "idle" /\ slot[s].job \in Job
    BY <1>DeadLetter, ReleaseKeepsType DEF DeadLetter
  <2>2. SlotTyped' /\ lost' \in SUBSET Slot
    BY <1>0, <1>DeadLetter, <2>1, GotoKeeps, LeaveKeeps DEF DeadLetter, PC, TypeOK
  <2>3. seen' \in SUBSET Key /\ jobState' \in [Key -> JobState]
    BY <1>0, <1>DeadLetter, <2>1, SetStateType DEF DeadLetter, DedupTyped, JobState, ClearSeen
  <2>4. deadLetters' \in [Job -> Nat]
    BY <1>DeadLetter, <2>1 DEF DeadLetter, TypeOK
  <2> QED
    BY <1>DeadLetter, <2>2, <2>3, <2>4, ReleaseKeepsType DEF DeadLetter, TypeOK, TenantTyped, SlotTyped, Busy
<1>ReturnToQueue. ASSUME NEW s \in Slot, ReturnToQueue(s)
      PROVE  TypeOK'
  <2> DEFINE j == slot[s].job
  <2>1. slot[s].pc # "idle" /\ j \in Job /\ j.pr \in PR
    BY <1>ReturnToQueue, ReleaseKeepsType, PayloadTypes DEF ReturnToQueue
  <2>2. SlotTyped'
    BY <1>0, <1>ReturnToQueue, <2>1, GotoKeeps DEF ReturnToQueue, PC
  <2>3. /\ queue' \in Seq(Job) /\ pending' \in [PR -> Seq(Job)] /\ pendingCount' \in Nat
        /\ jobState' \in [Key -> JobState] /\ delayed' \in SUBSET Job
    <3>1. CASE /\ pending[j.pr] # <<>>
               /\ pending' = [pending EXCEPT ![j.pr] = Tail(@)]
               /\ pendingCount' = Minus(pendingCount, 1)
               /\ queue' = Append(queue, Head(pending[j.pr]))
               /\ jobState' = SetState(j, "cancelled")
               /\ UNCHANGED delayed
      <4>1. DrainPending(j.pr)
        BY <3>1 DEF DrainPending
      <4> QED
        BY <1>0, <2>1, <3>1, <4>1, DrainKeepsType, SetStateType DEF JobState, TypeOK
    <3>2. CASE /\ queue' = <<j>> \o queue
               /\ jobState' = SetState(j, "ready")
               /\ delayed' = delayed \ {j} \/ delayed' = delayed \cup {j}
               /\ UNCHANGED <<pending, pendingCount>>
      <4>1. queue' \in Seq(Job)
        BY <2>1, <3>2, ConcatProperties DEF TypeOK
      <4> QED
        BY <1>0, <2>1, <3>2, <4>1, SetStateType DEF JobState, TypeOK
    <3> QED
      BY <1>ReturnToQueue, <3>1, <3>2 DEF ReturnToQueue
  <2> QED
    BY <1>ReturnToQueue, <2>2, <2>3, ReleaseKeepsType DEF ReturnToQueue, TypeOK, TenantTyped, SlotTyped, Busy
<1>Resubmit. ASSUME NEW s \in Slot, Resubmit(s)
      PROVE  TypeOK'
  <2>1. slot[s].pc # "idle" /\ slot[s].job \in Job
    BY <1>0, <1>Resubmit, BusySlot DEF Resubmit
  <2>2. SlotTyped' /\ lost' \in SUBSET Slot
    BY <1>0, <1>Resubmit, <2>1, GotoKeeps, LeaveKeeps DEF Resubmit, PC, TypeOK
  <2>3. PICK j \in Job : EnqueueScript(j)
    BY <1>Resubmit, <2>1, RetriedIsJob DEF Resubmit, RetriesLeft
  <2>4. /\ queue' \in Seq(Job) /\ pending' \in [PR -> Seq(Job)] /\ pendingCount' \in Nat
        /\ seen' \in SUBSET Key /\ jobState' \in [Key -> JobState]
    BY <1>0, <2>3, EnqueueKeepsType
  <2> QED
    BY <1>Resubmit, <2>2, <2>4 DEF Resubmit, TypeOK, SlotTyped, Busy
<1>RecoverOrphan. ASSUME NEW e \in processing, RecoverOrphan(e)
      PROVE  TypeOK'
  <2> DEFINE j == e.job
  <2>1. j \in Job /\ e.tok \in Token /\ KeyOf(j) \in Key
    BY PayloadTypes DEF TypeOK, Entry
  <2>2. TenantTyped'
    BY <1>0, <1>RecoverOrphan, <2>1, ReleaseTenantKeepsType DEF RecoverOrphan
  <2>3. queue' \in Seq(Job)
    <3>1. queue' = queue \/ queue' = Append(queue, j)
      BY <1>RecoverOrphan DEF RecoverOrphan
    <3>2. queue \in Seq(Job)
      BY DEF TypeOK
    <3> HIDE DEF j
    <3> QED
      BY <2>1, <3>1, <3>2, AppendProperties
  <2>4. seen' \in SUBSET Key /\ jobState' \in [Key -> JobState]
    BY <1>0, <1>RecoverOrphan, <2>1, SetStateType DEF RecoverOrphan, JobState, ClearSeen, DedupTyped
  <2>5. resumed' \in [Key -> Nat] /\ deadLetters' \in [Job -> Nat]
    <3>1. resumed' = resumed \/ resumed' = [resumed EXCEPT ![KeyOf(j)] = @ + 1]
      BY <1>RecoverOrphan DEF RecoverOrphan
    <3>2. deadLetters' = deadLetters \/ deadLetters' = [deadLetters EXCEPT ![j] = @ + 1]
      BY <1>RecoverOrphan DEF RecoverOrphan
    <3>3. resumed \in [Key -> Nat] /\ deadLetters \in [Job -> Nat]
      BY DEF TypeOK
    <3> HIDE DEF j
    <3> QED
      BY <2>1, <3>1, <3>2, <3>3
  <2> QED
    BY <1>RecoverOrphan, <2>2, <2>3, <2>4, <2>5 DEF RecoverOrphan, TypeOK, TenantTyped
<1>Fail. ASSUME NEW s \in Slot, FailTerminal(s) \/ FailTransient(s) \/ ReturnLate(s)
      PROVE  TypeOK'
  BY <1>Fail, <1>Failed DEF FailTerminal, FailTransient, ReturnLate, PC
<1>Idle. CASE UNCHANGED vars
  BY <1>Idle DEF vars, TypeOK
<1> QED
  BY <1>Arrive, <1>Enqueue, <1>Replay, <1>Delay, <1>DequeueEmpty,
     <1>DequeueJob, <1>DequeueBlocked, <1>CheckDone, <1>DropEntry,
     <1>ClaimTenantFull, <1>ClaimLease, <1>ClaimPending, <1>StampMeta,
     <1>RenewLease, <1>MarkRunning, <1>PersistJob, <1>PersistJobFails,
     <1>StaleRelease, <1>MarkCompleted, <1>Fail, <1>DeadLetter,
     <1>ReturnToQueue, <1>ReleaseLockAndDrain, <1>ResubmitCheck,
     <1>Resubmit, <1>Crash, <1>RecoverSuperseded, <1>RecoverGrace,
     <1>RecoverOrphan, <1>RecoverPending, <1>GraceElapses,
     <1>LeaseExpires, <1>TenantClaimExpires, <1>Idle
  DEF Next, Dequeue, EndJob, Finish, Recover

-----------------------------------------------------------------------------
(* The slots: what keeps the lock of a pull request safe.                  *)

\* A slot is lost only after it claimed a lease.
LostAfterClaim == \A s \in lost : slot[s].pc \notin {"idle", "check", "claim", "drop"}

SlotInv == TypeOK /\ RetriesLeft /\ LostAfterClaim

\* The three ways in which a step changes a slot: it moves on, it leaves, or
\* it takes a job from the queue.
Moves(s) ==
  \E pc \in PC \ {"idle"} :
    /\ slot[s].pc # "idle" /\ Goto(s, pc) /\ UNCHANGED lost
    /\ pc \in {"check", "claim", "drop"} => slot[s].pc \in {"check", "claim"}
    /\ pc = "retry" => slot[s].job.attempts < MaxJobRetries
    /\ pc = "retrySubmit" => slot[s].pc = "retry"
Takes(s) ==
  \E j \in Job, k \in Token :
    /\ slot[s].pc = "idle" /\ ~ InUse(k) /\ UNCHANGED lost
    /\ slot' = [slot EXCEPT ![s] = [pc |-> "check", job |-> j, tok |-> k]]
Loses(p) ==
  lost' = lost \cup Renewers(inflight[p]) /\ UNCHANGED slot

LEMMA SlotChanges ==
  ASSUME TypeOK, Next
  PROVE  \/ UNCHANGED <<slot, lost>>
         \/ \E s \in Slot : Moves(s) \/ Leave(s) \/ Takes(s)
         \/ \E p \in PR : Loses(p)
<1> USE DEF listVars, dedupVars, tenantVars, recoveryVars, arrivalVars, faultVars
<1>1. ASSUME NEW j \in Job, Arrive(j) \/ Enqueue(j) \/ ReplayDeadLetter(j) \/ DelayElapses(j)
      PROVE  UNCHANGED <<slot, lost>>
  BY <1>1 DEF Arrive, Enqueue, ReplayDeadLetter, DelayElapses
<1>2. ASSUME NEW s \in Slot, Dequeue(s)
      PROVE  UNCHANGED <<slot, lost>> \/ Moves(s) \/ Leave(s) \/ Takes(s)
  <2>1. ASSUME DequeueJob(s)
        PROVE  Takes(s)
    <3>1. queue[Selected] \in Job
      BY <2>1, SelectedIsEligible, ElementOfSeq DEF DequeueJob, TypeOK
    <3> QED
      BY <2>1, <3>1 DEF DequeueJob, Takes
  <2>2. ASSUME DequeueEmpty(s) \/ DequeueBlocked(s)
        PROVE  UNCHANGED <<slot, lost>>
    BY <2>2 DEF DequeueEmpty, DequeueBlocked
  <2>3. ASSUME CheckDone(s)
        PROVE  Moves(s)
    BY <2>3 DEF CheckDone, Moves, PC
  <2>4. ASSUME DropEntry(s) \/ ClaimTenantFull(s)
        PROVE  Leave(s)
    BY <2>4 DEF DropEntry, ClaimTenantFull
  <2>5. ASSUME ClaimLease(s) \/ StampMeta(s)
        PROVE  Moves(s)
    BY <2>5 DEF ClaimLease, StampMeta, Moves, PC
  <2>6. ASSUME ClaimPending(s)
        PROVE  Moves(s)
    BY <2>6 DEF ClaimPending, Moves, PC
  <2> QED
    BY <1>2, <2>1, <2>2, <2>3, <2>4, <2>5, <2>6 DEF Dequeue
<1>3. ASSUME NEW s \in Slot, MarkRunning(s) \/ RenewLease(s) \/ PersistJob(s)
      PROVE  UNCHANGED <<slot, lost>> \/ Moves(s)
  BY <1>3 DEF MarkRunning, RenewLease, PersistJob, Moves, PC
<1>4. ASSUME NEW s \in Slot, EndJob(s)
      PROVE  Moves(s) \/ Leave(s)
  <2>1. ASSUME NEW next \in {"drain", "lateDrain"}, MarkFailed(s, next)
        PROVE  Moves(s)
    BY <2>1 DEF MarkFailed, ReleaseOwned, Executing, Moves, PC
  <2>2. ASSUME FailTransient(s)
        PROVE  Moves(s)
    BY <2>2 DEF FailTransient, MarkFailed, Executing, Moves, PC
  <2>3. ASSUME MarkCompleted(s) \/ ReturnToQueue(s)
        PROVE  Moves(s)
    BY <2>3 DEF MarkCompleted, ReturnToQueue, ReleaseOwned, Executing, Moves, PC
  <2>4. ASSUME DeadLetter(s)
        PROVE  Moves(s) \/ Leave(s)
    BY <2>4 DEF DeadLetter, ReleaseOwned, Executing, Moves, PC
  <2>5. ASSUME StaleRelease(s) \/ PersistJobFails(s)
        PROVE  Leave(s)
    BY <2>5 DEF StaleRelease, PersistJobFails
  <2> QED
    BY <1>4, <2>1, <2>2, <2>3, <2>4, <2>5 DEF EndJob, FailTerminal, ReturnLate
<1>5. ASSUME NEW s \in Slot, Finish(s)
      PROVE  Moves(s) \/ Leave(s)
  BY <1>5 DEF Finish, ReleaseLockAndDrain, ResubmitCheck, Resubmit, Moves, PC
<1>6. ASSUME NEW s \in Slot, Crash(s)
      PROVE  Leave(s)
  BY <1>6 DEF Crash
<1>7. ASSUME Recover
      PROVE  UNCHANGED <<slot, lost>>
  BY <1>7 DEF Recover, RecoverSuperseded, RecoverGrace, RecoverOrphan, RecoverPending
<1>8. ASSUME NEW e \in processing, GraceElapses(e)
      PROVE  UNCHANGED <<slot, lost>>
  BY <1>8 DEF GraceElapses
<1>9. ASSUME NEW p \in PR, LeaseExpires(p)
      PROVE  Loses(p)
  BY <1>9 DEF LeaseExpires, Loses
<1>10. ASSUME NEW k \in Token, TenantClaimExpires(k)
       PROVE  UNCHANGED <<slot, lost>>
  BY <1>10 DEF TenantClaimExpires
<1> QED
  BY <1>1, <1>2, <1>3, <1>4, <1>5, <1>6, <1>7, <1>8, <1>9, <1>10 DEF Next

LEMMA SlotInvInit == Init => SlotInv
BY TypeInit DEF Init, SlotInv, RetriesLeft, LostAfterClaim, Idle

LEMMA SlotInvStep == SlotInv /\ [Next]_vars => SlotInv'
<1> SUFFICES ASSUME SlotInv, [Next]_vars
             PROVE  SlotInv'
  OBVIOUS
<1>1. TypeOK /\ SlotTyped /\ TypeOK'
  BY TypeStep, TypeParts DEF SlotInv
<1>2. CASE UNCHANGED <<slot, lost>>
  BY <1>1, <1>2 DEF SlotInv, RetriesLeft, LostAfterClaim
<1>3. ASSUME NEW s \in Slot, Moves(s)
      PROVE  RetriesLeft' /\ LostAfterClaim'
  <2>1. PICK pc \in PC \ {"idle"} :
          /\ slot[s].pc # "idle" /\ Goto(s, pc) /\ UNCHANGED lost
          /\ pc \in {"check", "claim", "drop"} => slot[s].pc \in {"check", "claim"}
          /\ pc = "retry" => slot[s].job.attempts < MaxJobRetries
          /\ pc = "retrySubmit" => slot[s].pc = "retry"
    BY <1>3 DEF Moves
  <2>2. /\ slot'[s].pc = pc /\ slot'[s].job = slot[s].job
        /\ \A r \in Slot \ {s} : slot'[r] = slot[r]
    BY <1>1, <2>1, GotoKeeps
  <2>3. lost \subseteq Slot
    BY <1>1 DEF TypeOK
  <2> QED
    BY <2>1, <2>2, <2>3 DEF SlotInv, RetriesLeft, LostAfterClaim
<1>4. ASSUME NEW s \in Slot, Leave(s)
      PROVE  RetriesLeft' /\ LostAfterClaim'
  <2>1. slot'[s].pc = "idle" /\ (\A r \in Slot \ {s} : slot'[r] = slot[r]) /\ lost' = lost \ {s}
    BY <1>1, <1>4, LeaveKeeps DEF Idle
  <2>2. lost \subseteq Slot
    BY <1>1 DEF TypeOK
  <2> QED
    BY <2>1, <2>2 DEF SlotInv, RetriesLeft, LostAfterClaim
<1>5. ASSUME NEW s \in Slot, Takes(s)
      PROVE  RetriesLeft' /\ LostAfterClaim'
  BY <1>1, <1>5 DEF Takes, SlotInv, RetriesLeft, LostAfterClaim, TypeOK
<1>6. ASSUME NEW p \in PR, Loses(p)
      PROVE  RetriesLeft' /\ LostAfterClaim'
  BY <1>6 DEF Loses, Renewers, Leased, SlotInv, RetriesLeft, LostAfterClaim
<1>7. UNCHANGED vars => UNCHANGED <<slot, lost>>
  BY DEF vars
<1> QED
  BY <1>1, <1>2, <1>3, <1>4, <1>5, <1>6, <1>7, SlotChanges DEF SlotInv

\* Every reachable state is well typed, tokens and jobs included; with it,
\* what a worker holds between two Redis calls stays consistent.
THEOREM TypeCorrect == Spec => []TypeOK
<1>1. Spec => []SlotInv
  BY SlotInvInit, SlotInvStep, PTL DEF Spec
<1>2. SlotInv => TypeOK
  BY DEF SlotInv
<1> QED
  BY <1>1, <1>2, PTL

-----------------------------------------------------------------------------
(* The queue implements the pull request lock.                             *)

\* A step that changes one slot changes the claim of that slot at most.
LEMMA OneClaimChanges ==
  ASSUME NEW s \in Slot, \A r \in Slot \ {s} : slot'[r] = slot[r], lost' \cup {s} = lost \cup {s},
         lost \subseteq Slot
  PROVE  /\ Claims' = [Claims EXCEPT ![s] = LockClaim(s)']
         /\ Losers' \ {s} = Losers \ {s}
BY DEF Claims, Losers, LockClaim, Leased

\* A move that leaves the claim and the leases as they are is a stutter, ...
LEMMA MoveStutters ==
  ASSUME TypeOK, NEW s \in Slot, slot[s].pc # "idle", NEW pc \in PC \ {"idle"},
         Goto(s, pc), UNCHANGED <<lost, inflight>>,
         \/ slot[s].pc \in {"check", "claim"} /\ pc \in {"check", "claim", "drop"}
         \/ Leased(s) /\ pc \in {"stamp", "held", "running"}
         \/ /\ slot[s].pc \in {"drain", "retry", "retrySubmit", "lateDrain", "late", "lateSubmit"}
            /\ pc \in {"drain", "retry", "retrySubmit", "lateDrain", "late", "lateSubmit"}
  PROVE  UNCHANGED Lock!vars
<1>1. SlotTyped /\ lost \subseteq Slot
  BY TypeParts
<1>2. /\ slot'[s].pc = pc /\ slot'[s].job = slot[s].job /\ slot'[s].tok = slot[s].tok
      /\ \A r \in Slot \ {s} : slot'[r] = slot[r]
  BY <1>1, GotoKeeps
<1>3. LockClaim(s)' = LockClaim(s) /\ (Leased(s)' <=> Leased(s))
  BY <1>2 DEF LockClaim, Leased
<1>4. \A r \in Slot : LockClaim(r)' = LockClaim(r) /\ (Leased(r)' <=> Leased(r))
  BY <1>2, <1>3 DEF LockClaim, Leased
<1> QED
  BY <1>1, <1>4 DEF Lock!vars, Claims, Losers

\* ... one that leaves abandons the claim if there is one, ...
LEMMA LeaveAbandons ==
  ASSUME TypeOK, NEW s \in Slot, Leave(s), UNCHANGED inflight
  PROVE  [Lock!Abandon(s)]_(Lock!vars)
<1>1. SlotTyped /\ lost \subseteq Slot
  BY TypeParts
<1>2. slot'[s] = Idle /\ (\A r \in Slot \ {s} : slot'[r] = slot[r]) /\ lost' = lost \ {s}
  BY <1>1, LeaveKeeps
<1>3. Claims' = [Claims EXCEPT ![s] = [at |-> "none"]] /\ Losers' = Losers \ {s}
  BY <1>1, <1>2, OneClaimChanges DEF LockClaim, Leased, Idle, Losers
<1>4. CASE LockClaim(s) = [at |-> "none"]
  <2>1. ~ Leased(s)
    BY <1>4 DEF LockClaim
  <2>2. Claims' = Claims /\ Losers' = Losers
    BY <1>3, <1>4, <2>1 DEF Claims, Losers
  <2> QED
    BY <2>2 DEF Lock!vars, Claims, Losers
<1>5. CASE LockClaim(s) # [at |-> "none"]
  BY <1>3, <1>5 DEF Lock!Abandon, Lock!None, Claims, Losers
<1> QED
  BY <1>4, <1>5

\* ... and one that ends an owned claim releases it.
LEMMA EndReleases ==
  ASSUME TypeOK, NEW s \in Slot, ReleaseOwned(s),
         \/ Leave(s)
         \/ /\ UNCHANGED lost
            /\ \E pc \in {"drain", "retry", "lateDrain"} : Goto(s, pc)
  PROVE  Lock!Release(s)
<1>1. SlotTyped /\ lost \subseteq Slot /\ slot[s].pc # "idle"
  BY TypeParts, ReleaseKeepsType
<1>2. /\ slot'[s].pc \in {"idle", "drain", "retry", "lateDrain"}
      /\ \A r \in Slot \ {s} : slot'[r] = slot[r]
      /\ lost' = lost \/ lost' = lost \ {s}
  BY <1>1, LeaveKeeps, GotoKeeps DEF Idle, PC
<1>3. Claims' = [Claims EXCEPT ![s] = [at |-> "none"]] /\ Losers' = Losers \ {s}
  BY <1>1, <1>2, OneClaimChanges DEF LockClaim, Leased, Losers
<1>4. /\ LockClaim(s) = [at |-> "held", pr |-> slot[s].job.pr, tok |-> slot[s].tok]
      /\ inflight[slot[s].job.pr] = slot[s].tok
      /\ inflight' = [inflight EXCEPT ![slot[s].job.pr] = NoToken]
  BY DEF ReleaseOwned, Executing, TokenMatches, Owns, LockClaim, Leased
<1>5. Claims[s] = [at |-> "held", pr |-> slot[s].job.pr, tok |-> slot[s].tok]
  BY <1>4 DEF Claims
<1>6. Lock!Holds(s)
  BY <1>4, <1>5 DEF Lock!Holds, Lock!Held, Claims
<1>7. inflight' = [inflight EXCEPT ![Claims[s].pr] = NoToken]
  BY <1>4, <1>5
<1> QED
  BY <1>3, <1>6, <1>7 DEF Lock!Release, Lock!None, Claims, Losers

LEMMA LockStep ==
  ASSUME SlotInv, [Next]_vars
  PROVE  [Lock!Next]_(Lock!vars)
<1> USE DEF listVars, dedupVars, tenantVars, recoveryVars, arrivalVars, faultVars
<1>0. TypeOK /\ SlotTyped /\ lost \subseteq Slot
  BY TypeParts DEF SlotInv
<1>1. ASSUME UNCHANGED <<slot, inflight, lost>>
      PROVE  UNCHANGED Lock!vars
  BY <1>1 DEF Lock!vars, Claims, Losers, LockClaim, Leased
<1>2. ASSUME NEW j \in Job, Arrive(j) \/ Enqueue(j) \/ ReplayDeadLetter(j) \/ DelayElapses(j)
      PROVE  UNCHANGED <<slot, inflight, lost>>
  BY <1>2 DEF Arrive, Enqueue, ReplayDeadLetter, DelayElapses
<1>3. ASSUME NEW s \in Slot,
             \/ DequeueEmpty(s) \/ DequeueBlocked(s) \/ RenewLease(s) \/ PersistJob(s)
      PROVE  UNCHANGED <<slot, inflight, lost>>
  BY <1>3 DEF DequeueEmpty, DequeueBlocked, RenewLease, PersistJob
<1>4. ASSUME Recover \/ (\E e \in processing : GraceElapses(e)) \/ (\E k \in Token : TenantClaimExpires(k))
      PROVE  UNCHANGED <<slot, inflight, lost>>
  BY <1>4 DEF Recover, RecoverSuperseded, RecoverGrace, RecoverOrphan, RecoverPending,
              GraceElapses, TenantClaimExpires
<1>5. ASSUME NEW s \in Slot, DequeueJob(s)
      PROVE  Lock!Draw(s)
  <2>1. queue[Selected] \in Job /\ queue[Selected].pr \in PR
    BY <1>0, <1>5, SelectedIsEligible, ElementOfSeq, PayloadTypes DEF DequeueJob, TypeOK
  <2>2. PICK k \in Token :
          /\ ~ InUse(k)
          /\ slot' = [slot EXCEPT ![s] = [pc |-> "check", job |-> queue[Selected], tok |-> k]]
    BY <1>5 DEF DequeueJob
  <2>3. /\ slot[s].pc = "idle" /\ slot'[s] = [pc |-> "check", job |-> queue[Selected], tok |-> k]
        /\ \A r \in Slot \ {s} : slot'[r] = slot[r]
        /\ UNCHANGED <<inflight, lost>>
    BY <1>0, <1>5, <2>2 DEF DequeueJob, SlotTyped
  <2>4. /\ LockClaim(s) = [at |-> "none"]
        /\ LockClaim(s)' = [at |-> "waiting", pr |-> queue[Selected].pr, tok |-> k]
    BY <2>3 DEF LockClaim, Leased
  <2>5. Claims' = [Claims EXCEPT ![s] = [at |-> "waiting", pr |-> queue[Selected].pr, tok |-> k]]
    BY <1>0, <2>3, <2>4, OneClaimChanges
  <2>6. Losers' = Losers
    BY <1>0, <2>3 DEF Losers, Leased
  <2>7. Lock!Unused(k)
    BY <2>2 DEF InUse, Lock!Unused, Lock!None, Claims, LockClaim
  <2> QED
    BY <2>1, <2>3, <2>4, <2>5, <2>6, <2>7 DEF Lock!Draw, Lock!None, Claims, Losers
<1>6. ASSUME NEW s \in Slot, CheckDone(s) \/ ClaimPending(s) \/ StampMeta(s) \/ MarkRunning(s)
      PROVE  UNCHANGED Lock!vars
  <2>1. CASE CheckDone(s)
    BY <1>0, <2>1, MoveStutters DEF CheckDone, PC
  <2>2. CASE ClaimPending(s)
    BY <1>0, <2>2, MoveStutters DEF ClaimPending, PC
  <2>3. CASE StampMeta(s) \/ MarkRunning(s)
    BY <1>0, <2>3, MoveStutters DEF StampMeta, MarkRunning, PC, Leased
  <2> QED
    BY <1>6, <2>1, <2>2, <2>3
<1>7. ASSUME NEW s \in Slot,
             \/ DropEntry(s) \/ ClaimTenantFull(s) \/ StaleRelease(s) \/ PersistJobFails(s) \/ Crash(s)
      PROVE  [Lock!Abandon(s)]_(Lock!vars)
  BY <1>0, <1>7, LeaveAbandons DEF DropEntry, ClaimTenantFull, StaleRelease, PersistJobFails, Crash
<1>8. ASSUME NEW s \in Slot, ClaimLease(s)
      PROVE  Lock!Acquire(s)
  <2>1. slot[s].pc = "claim" /\ slot[s].tok \in Token /\ slot[s].job.pr \in PR
    BY <1>0, <1>8, BusySlot, PayloadTypes DEF ClaimLease
  <2>2. /\ slot'[s].pc = "stamp" /\ slot'[s].job = slot[s].job /\ slot'[s].tok = slot[s].tok
        /\ \A r \in Slot \ {s} : slot'[r] = slot[r]
    BY <1>0, <1>8, <2>1, GotoKeeps DEF ClaimLease, PC
  <2>3. LockClaim(s) = [at |-> "waiting", pr |-> slot[s].job.pr, tok |-> slot[s].tok]
    BY <2>1 DEF LockClaim
  <2>4. LockClaim(s)' = [at |-> "held", pr |-> slot[s].job.pr, tok |-> slot[s].tok]
    BY <2>2 DEF LockClaim, Leased
  <2>5. UNCHANGED lost /\ s \notin lost
    BY <1>8, <2>1 DEF ClaimLease, SlotInv, LostAfterClaim
  <2>6. Losers' = Losers
    BY <1>0, <2>2, <2>5 DEF Losers, Leased
  <2>7. Claims' = [Claims EXCEPT ![s] = LockClaim(s)']
    BY <1>0, <2>2, <2>5, OneClaimChanges
  <2>8. Claims' = [Claims EXCEPT ![s].at = "held"]
    <3>1. Claims[s] = LockClaim(s)
      BY DEF Claims
    <3>2. LockClaim(s)' = [LockClaim(s) EXCEPT !.at = "held"]
      BY <2>3, <2>4
    <3> QED
      BY <2>7, <3>1, <3>2, Zenon
  <2>9. /\ Claims[s].at = "waiting" /\ inflight[Claims[s].pr] = NoToken
        /\ inflight' = [inflight EXCEPT ![Claims[s].pr] = Claims[s].tok]
    <3>1. /\ inflight[slot[s].job.pr] = NoToken
          /\ inflight' = [inflight EXCEPT ![slot[s].job.pr] = slot[s].tok]
      BY <1>8 DEF ClaimLease, LeaseFree
    <3>2. Claims[s] = [at |-> "waiting", pr |-> slot[s].job.pr, tok |-> slot[s].tok]
      BY <2>3 DEF Claims
    <3> QED
      BY <3>1, <3>2
  <2> QED
    BY <2>6, <2>8, <2>9, Zenon DEF Lock!Acquire, Claims, Losers
<1>9. ASSUME NEW s \in Slot,
             \/ MarkCompleted(s) \/ FailTerminal(s) \/ FailTransient(s) \/ ReturnLate(s)
             \/ DeadLetter(s) \/ ReturnToQueue(s)
      PROVE  Lock!Release(s)
  <2>1. CASE MarkCompleted(s) \/ DeadLetter(s) \/ ReturnToQueue(s)
    BY <1>0, <2>1, EndReleases DEF MarkCompleted, DeadLetter, ReturnToQueue
  <2>2. CASE FailTerminal(s) \/ FailTransient(s) \/ ReturnLate(s)
    BY <1>0, <2>2, EndReleases DEF FailTerminal, FailTransient, ReturnLate, MarkFailed
  <2> QED
    BY <1>9, <2>1, <2>2
<1>10. ASSUME NEW s \in Slot, Finish(s)
       PROVE  [Lock!Abandon(s)]_(Lock!vars)
  <2>1. slot[s].pc \in {"drain", "retry", "retrySubmit", "lateDrain", "late", "lateSubmit"} /\ UNCHANGED inflight
    BY <1>10 DEF Finish, ReleaseLockAndDrain, ResubmitCheck, Resubmit
  <2>2. \/ Leave(s)
        \/ \E pc \in {"drain", "late", "retrySubmit", "lateSubmit"} : Goto(s, pc) /\ UNCHANGED lost
    BY <1>10 DEF Finish, ReleaseLockAndDrain, ResubmitCheck, Resubmit
  <2> QED
    BY <1>0, <2>1, <2>2, LeaveAbandons, MoveStutters DEF PC
<1>11. ASSUME NEW p \in PR, LeaseExpires(p)
       PROVE  Lock!Expire(p)
  <2>1. /\ inflight[p] # NoToken /\ inflight' = [inflight EXCEPT ![p] = NoToken]
        /\ lost' = lost \cup Renewers(inflight[p]) /\ UNCHANGED slot
    BY <1>11 DEF LeaseExpires
  <2>2. Claims' = Claims
    BY <2>1 DEF Claims, LockClaim, Leased
  <2>3. Renewers(inflight[p]) = {s \in Slot : Lock!Holds(s) /\ Claims[s].tok = inflight[p]}
    BY DEF Renewers, Lock!Holds, Lock!Held, Claims, LockClaim, Leased, Owns
  <2>4. Losers' = Losers \cup Renewers(inflight[p])
    BY <2>1 DEF Losers, Renewers, Leased
  <2> QED
    BY <2>1, <2>2, <2>3, <2>4 DEF Lock!Expire, Claims, Losers
<1>12. CASE UNCHANGED vars
  BY <1>1, <1>12 DEF vars
<1> QED
  BY <1>1, <1>2, <1>3, <1>4, <1>5, <1>6, <1>7, <1>8, <1>9, <1>10, <1>11, <1>12
  DEF Next, Dequeue, EndJob, Lock!Next

\* The review queue implements the lock on pull requests: each of its steps is
\* a step of PrLock or leaves the leases alone, whatever the bounds.
THEOREM LockImplemented == Spec => PrLockImplemented
<1>1. Init => Lock!Init
  BY DEF Init, Lock!Init, Lock!None, Claims, Losers, LockClaim, Leased, Idle
<1>2. Init => SlotInv
  BY SlotInvInit
<1>3. SlotInv /\ [Next]_vars => SlotInv'
  BY SlotInvStep
<1>4. SlotInv /\ [Next]_vars => [Lock!Next]_(Lock!vars)
  BY LockStep
<1> QED
  BY <1>1, <1>2, <1>3, <1>4, PTL DEF Spec, PrLockImplemented, Lock!Spec

\* The invariant of the lock that is inductive: a holder's token is its own, so
\* that a release, which compares tokens, never frees the lease of another.
LockInv == Lock!TypeOK /\ Lock!OwnTokens /\ Lock!HolderKeepsLease

LEMMA LockInvInit == Lock!Init => LockInv
BY TokenAssumption DEF Lock!Init, LockInv, Lock!TypeOK, Lock!OwnTokens, Lock!HolderKeepsLease, Lock!Held, Lock!None

LEMMA LockInvStep == LockInv /\ [Lock!Next]_(Lock!vars) => LockInv'
<1> SUFFICES ASSUME LockInv, [Lock!Next]_(Lock!vars)
             PROVE  LockInv'
  OBVIOUS
<1> USE TokenAssumption
    DEF LockInv, Lock!TypeOK, Lock!OwnTokens, Lock!HolderKeepsLease, Lock!Held, Lock!Holds, Lock!Claim, Lock!None
<1>1. ASSUME NEW s \in Slot, Lock!Draw(s)
      PROVE  LockInv'
  BY <1>1 DEF Lock!Draw, Lock!Unused
<1>2. ASSUME NEW s \in Slot, Lock!Acquire(s)
      PROVE  LockInv'
  BY <1>2 DEF Lock!Acquire
<1>3. ASSUME NEW s \in Slot, Lock!Release(s)
      PROVE  LockInv'
  BY <1>3 DEF Lock!Release
<1>4. ASSUME NEW s \in Slot, Lock!Abandon(s)
      PROVE  LockInv'
  BY <1>4 DEF Lock!Abandon
<1>5. ASSUME NEW p \in PR, Lock!Expire(p)
      PROVE  LockInv'
  BY <1>5 DEF Lock!Expire
<1>6. CASE UNCHANGED Lock!vars
  BY <1>6 DEF Lock!vars
<1> QED
  BY <1>1, <1>2, <1>3, <1>4, <1>5, <1>6 DEF Lock!Next

\* Distinct holders have distinct tokens and a pull request has one lease.
LEMMA LockExcludes == LockInv => Lock!Exclusion
BY DEF LockInv, Lock!TypeOK, Lock!OwnTokens, Lock!HolderKeepsLease, Lock!Exclusion, Lock!Held, Lock!Holds,
       Lock!Claim, Lock!None

\* Every behaviour of the lock gives each slot a token of its own, keeps the
\* lease of each holder that is not lost, and lets two slots on one pull
\* request overlap only if one of them is lost.
THEOREM LockSafe == PrLockImplemented => [](Lock!OwnTokens /\ Lock!HolderKeepsLease /\ Lock!Exclusion)
<1>1. LockInv => Lock!OwnTokens /\ Lock!HolderKeepsLease /\ Lock!Exclusion
  BY LockExcludes DEF LockInv
<1> QED
  BY LockInvInit, LockInvStep, <1>1, PTL DEF PrLockImplemented, Lock!Spec

\* So it is in the queue.
LEMMA LockSafety == Spec => [](Lock!OwnTokens /\ Lock!HolderKeepsLease /\ Lock!Exclusion)
BY LockImplemented, LockSafe, PTL

\* A worker whose lease did not run out under it holds the lease of its pull
\* request: nothing the other workers, recovery or a stale finisher do takes it.
THEOREM OwnerKeepsLease == Spec => []OwnerHoldsLease
<1>1. Spec => [](Lock!OwnTokens /\ Lock!HolderKeepsLease /\ Lock!Exclusion)
  BY LockSafety
<1>2. Lock!HolderKeepsLease => OwnerHoldsLease
  BY DEF Lock!HolderKeepsLease, Lock!Held, Lock!Holds, OwnerHoldsLease, Owns, Claims, Losers, LockClaim, Leased
<1> QED
  BY <1>1, <1>2, PTL

\* Two workers execute jobs of one pull request only if a lease ran out.
THEOREM PrExcludes == Spec => []PrExclusion
<1>1. Spec => [](Lock!OwnTokens /\ Lock!HolderKeepsLease /\ Lock!Exclusion)
  BY LockSafety
<1>2. Lock!Exclusion => PrExclusion
  BY DEF Lock!Exclusion, Lock!Held, PrExclusion, Executing, Claims, Losers, LockClaim, Leased
<1> QED
  BY <1>1, <1>2, PTL

-----------------------------------------------------------------------------
(* A worker that lost its lease.                                           *)

\* The steps that a worker without its lease still takes.
LEMMA StaleSteps ==
  ASSUME TypeOK, Next, NEW s \in Slot, Executing(s), ~ Owns(s), slot'[s] # slot[s]
  PROVE  StaleRelease(s) \/ PersistJobFails(s) \/ Crash(s)
<1> USE DEF listVars, dedupVars, tenantVars, recoveryVars, arrivalVars, faultVars
<1>0. slot[s].pc \in {"held", "running"} /\ SlotTyped
  BY TypeParts DEF Executing
<1>1. ASSUME NEW r \in Slot \ {s},
             \/ (\E pc \in PC : Goto(r, pc)) \/ Leave(r)
             \/ (\E x : slot' = [slot EXCEPT ![r] = x])
      PROVE  FALSE
  BY <1>0, <1>1 DEF Goto, Leave, SlotTyped
<1>2. ~ UNCHANGED slot
  OBVIOUS
<1>3. ASSUME NEW r \in Slot, Dequeue(r)
      PROVE  FALSE
  <2>1. r # s
    BY <1>0, <1>2, <1>3 DEF Dequeue, DequeueEmpty, DequeueJob, DequeueBlocked, CheckDone, DropEntry,
          ClaimTenantFull, ClaimLease, ClaimPending, StampMeta
  <2>2. \/ (\E pc \in PC : Goto(r, pc)) \/ Leave(r) \/ (\E x : slot' = [slot EXCEPT ![r] = x])
    <3>1. CASE DequeueEmpty(r) \/ DequeueBlocked(r)
      BY <1>2, <3>1 DEF DequeueEmpty, DequeueBlocked
    <3>2. CASE DequeueJob(r)
      BY <3>2 DEF DequeueJob
    <3>3. CASE CheckDone(r) \/ ClaimLease(r) \/ ClaimPending(r) \/ StampMeta(r)
      BY <3>3 DEF CheckDone, ClaimLease, ClaimPending, StampMeta, PC
    <3>4. CASE DropEntry(r) \/ ClaimTenantFull(r)
      BY <3>4 DEF DropEntry, ClaimTenantFull
    <3> QED
      BY <1>3, <3>1, <3>2, <3>3, <3>4 DEF Dequeue
  <2> QED
    BY <1>1, <2>1, <2>2
<1>4. ASSUME NEW r \in Slot, MarkRunning(r) \/ RenewLease(r) \/ PersistJob(r)
      PROVE  FALSE
  BY <1>1, <1>2, <1>4 DEF MarkRunning, RenewLease, PersistJob, TokenMatches, PC
<1>5. ASSUME NEW r \in Slot, EndJob(r)
      PROVE  StaleRelease(s) \/ PersistJobFails(s)
  <2>1. CASE StaleRelease(r) \/ PersistJobFails(r)
    BY <1>1, <2>1 DEF StaleRelease, PersistJobFails
  <2>2. CASE MarkCompleted(r) \/ DeadLetter(r) \/ ReturnToQueue(r)
    BY <1>1, <2>2 DEF MarkCompleted, DeadLetter, ReturnToQueue, ReleaseOwned, TokenMatches, PC
  <2>3. CASE FailTerminal(r) \/ FailTransient(r) \/ ReturnLate(r)
    BY <1>1, <2>3 DEF FailTerminal, FailTransient, ReturnLate, MarkFailed, ReleaseOwned, TokenMatches, PC
  <2> QED
    BY <1>5, <2>1, <2>2, <2>3 DEF EndJob
<1>6. ASSUME NEW r \in Slot, Finish(r)
      PROVE  FALSE
  BY <1>0, <1>1, <1>6 DEF Finish, ReleaseLockAndDrain, ResubmitCheck, Resubmit, PC
<1>7. ASSUME NEW r \in Slot, Crash(r)
      PROVE  Crash(s)
  BY <1>1, <1>7 DEF Crash
<1>8. ASSUME \/ \E j \in Job : Arrive(j) \/ Enqueue(j) \/ ReplayDeadLetter(j) \/ DelayElapses(j)
             \/ \E e \in processing : GraceElapses(e)
             \/ \E p \in PR : LeaseExpires(p)
             \/ \E k \in Token : TenantClaimExpires(k)
             \/ Recover
      PROVE  FALSE
  BY <1>2, <1>8 DEF Arrive, Enqueue, ReplayDeadLetter, DelayElapses, GraceElapses, LeaseExpires,
        TenantClaimExpires, Recover, RecoverSuperseded, RecoverGrace, RecoverOrphan, RecoverPending
<1> QED
  BY <1>3, <1>4, <1>5, <1>6, <1>7, <1>8 DEF Next

\* A worker whose lease ran out ends its job on its own account: the DONE
\* marks, states, lists and dead letters stay as they are, and so does what
\* belongs to other tokens.
THEOREM StaleWorkerFenced == Spec => LeaseFencing
<1>1. ASSUME TypeOK, Next, NEW s \in Slot, Executing(s), ~ Owns(s), slot'[s] # slot[s]
      PROVE  /\ UNCHANGED <<listVars, inflight, dedupVars, recoveryVars>>
             /\ processing \ processing' \subseteq OwnEntries(s)
             /\ \A k \in Token \ {slot[s].tok} : claimTenant'[k] = claimTenant[k]
  <2>1. StaleRelease(s) \/ PersistJobFails(s) \/ Crash(s)
    BY <1>1, StaleSteps
  <2>2. CASE StaleRelease(s)
    BY <1>1, <2>2 DEF StaleRelease, ReleaseTenantClaim, TypeOK
  <2>3. CASE PersistJobFails(s) \/ Crash(s)
    BY <2>3 DEF PersistJobFails, Crash, tenantVars
  <2> QED
    BY <2>1, <2>2, <2>3
<1>2. TypeOK /\ [Next]_vars =>
        [\A s \in Slot :
           Executing(s) /\ ~ Owns(s) /\ slot'[s] # slot[s] =>
             /\ UNCHANGED <<listVars, inflight, dedupVars, recoveryVars>>
             /\ processing \ processing' \subseteq OwnEntries(s)
             /\ \A k \in Token \ {slot[s].tok} : claimTenant'[k] = claimTenant[k]]_vars
  BY <1>1
<1> QED
  BY <1>2, TypeCorrect, PTL DEF Spec, LeaseFencing

-----------------------------------------------------------------------------
(* Tenant occupancy.                                                       *)

ChargedTo(t) == {k \in Token : claimTenant[k] = t}

\* A token is charged only once its claim succeeded, so that CLAIM never
\* charges it twice.
UnchargedBeforeClaim ==
  \A s \in Slot : slot[s].pc \in {"check", "claim", "drop"} => claimTenant[slot[s].tok] = NoTenant

LEMMA ChargedFinite ==
  ASSUME NEW t
  PROVE  IsFiniteSet(ChargedTo(t)) /\ Cardinality(ChargedTo(t)) \in Nat
<1>1. IsFiniteSet(ChargedTo(t))
  BY TokenAssumption, FS_Subset DEF ChargedTo
<1> QED
  BY <1>1, FS_CardinalityType

\* Releasing the charge of a token takes one from the counter of its tenant.
LEMMA ReleaseCounts ==
  ASSUME TypeOK, TenantAccounting, NEW k \in Token, ReleaseTenantClaim(k)
  PROVE  TenantAccounting'
<1> SUFFICES ASSUME NEW t \in Tenant
             PROVE  tenantActive'[t] = Cardinality(ChargedTo(t)')
  BY DEF TenantAccounting, ChargedTo
<1>1. tenantActive[t] = Cardinality(ChargedTo(t)) /\ tenantActive \in [Tenant -> Nat]
      /\ claimTenant \in [Token -> Tenant \cup {NoTenant}]
  BY DEF TenantAccounting, ChargedTo, TypeOK
<1>2. ChargedTo(t)' = ChargedTo(t) \ {k}
  BY <1>1, TenantAssumption DEF ReleaseTenantClaim, ChargedTo
<1>3. k \in ChargedTo(t) <=> claimTenant[k] = t
  BY DEF ChargedTo
<1>4. Cardinality(ChargedTo(t)') = IF claimTenant[k] = t THEN tenantActive[t] - 1 ELSE tenantActive[t]
  <2>1. IsFiniteSet(ChargedTo(t))
    BY ChargedFinite
  <2>2. Cardinality(ChargedTo(t) \ {k}) =
          IF k \in ChargedTo(t) THEN Cardinality(ChargedTo(t)) - 1 ELSE Cardinality(ChargedTo(t))
    BY <2>1, FS_RemoveElement, Zenon
  <2> QED
    BY <1>1, <1>2, <1>3, <2>2
<1>5. claimTenant[k] = t => tenantActive[t] > 0
  <2>1. claimTenant[k] = t => ChargedTo(t) # {}
    BY <1>3
  <2>2. Cardinality(ChargedTo(t)) = 0 <=> ChargedTo(t) = {}
    BY ChargedFinite, FS_EmptySet
  <2> QED
    BY <1>1, <2>1, <2>2, ChargedFinite
<1>6. tenantActive'[t] = IF claimTenant[k] = t THEN tenantActive[t] - 1 ELSE tenantActive[t]
  BY <1>1, <1>5, TenantAssumption DEF ReleaseTenantClaim, Minus
<1> QED
  BY <1>4, <1>6

\* What the sweep leaves is counted.
LEMMA SweptCounts ==
  ASSUME TypeOK, TenantAccounting, NEW t \in Tenant
  PROVE  SweptActive[t] = Cardinality({k \in Token : SweptClaims[k] = t})
<1> DEFINE Gone == {k \in claimExpired : claimTenant[k] = t}
<1>1. /\ tenantActive[t] = Cardinality(ChargedTo(t)) /\ tenantActive[t] \in Nat
      /\ claimTenant \in [Token -> Tenant \cup {NoTenant}] /\ claimExpired \subseteq Token
  BY DEF TenantAccounting, ChargedTo, TypeOK
<1>2. CASE TenantLimit = 0
  BY <1>1, <1>2 DEF SweptActive, SweptClaims, ChargedTo
<1>3. CASE TenantLimit # 0
  <2>1. {k \in Token : SweptClaims[k] = t} = ChargedTo(t) \ Gone
    BY <1>1, <1>3, TenantAssumption DEF SweptClaims, ChargedTo
  <2>2. ChargedTo(t) \cap Gone = Gone
    BY <1>1 DEF ChargedTo
  <2>3. /\ IsFiniteSet(Gone) /\ Cardinality(Gone) <= Cardinality(ChargedTo(t))
    BY <1>1, ChargedFinite, FS_Subset DEF ChargedTo
  <2>4. Cardinality(Gone) \in Nat
    BY <2>3, FS_CardinalityType
  <2>5. Cardinality(ChargedTo(t) \ Gone) = Cardinality(ChargedTo(t)) - Cardinality(Gone)
    BY <2>2, ChargedFinite, FS_Difference
  <2>6. SweptActive[t] = Minus(tenantActive[t], Cardinality(Gone))
    BY <1>3 DEF SweptActive
  <2> HIDE DEF Gone
  <2>7. Minus(tenantActive[t], Cardinality(Gone)) = tenantActive[t] - Cardinality(Gone)
    BY <1>1, <2>3, <2>4 DEF Minus
  <2> QED
    BY <1>1, <2>1, <2>5, <2>6, <2>7
<1> QED
  BY <1>2, <1>3

LEMMA SweepCounts ==
  ASSUME TypeOK, TenantAccounting, SweepTenantClaims
  PROVE  TenantAccounting'
BY SweptCounts DEF TenantAccounting, SweepTenantClaims

\* Charging a token that is free adds one.
LEMMA AddCharge ==
  ASSUME NEW claims \in [Token -> Tenant \cup {NoTenant}], NEW active \in [Tenant -> Nat],
         \A t \in Tenant : active[t] = Cardinality({k \in Token : claims[k] = t}),
         NEW k \in Token, claims[k] = NoTenant, NEW u \in Tenant,
         tenantActive' = [active EXCEPT ![u] = @ + 1],
         claimTenant' = [claims EXCEPT ![k] = u]
  PROVE  TenantAccounting'
<1> SUFFICES ASSUME NEW t \in Tenant
             PROVE  tenantActive'[t] = Cardinality(ChargedTo(t)')
  BY DEF TenantAccounting, ChargedTo
<1> DEFINE Old == {x \in Token : claims[x] = t}
<1>1. k \notin Old /\ IsFiniteSet(Old)
  BY TokenAssumption, TenantAssumption, FS_Subset
<1>2. ChargedTo(t)' = IF t = u THEN Old \cup {k} ELSE Old
  BY TenantAssumption DEF ChargedTo
<1>3. active[t] = Cardinality(Old)
  OBVIOUS
<1>4. Cardinality(Old \cup {k}) = Cardinality(Old) + 1
  BY <1>1, FS_AddElement
<1> QED
  BY <1>2, <1>3, <1>4

LEMMA ChargeCounts ==
  ASSUME TypeOK, TenantAccounting, NEW j \in Job, NEW k \in Token, claimTenant[k] = NoTenant,
         Charge(j, k)
  PROVE  TenantAccounting'
<1>1. CASE TenantLimit > 0 /\ ~ j.unlimited
  <2>1. SweptClaims[k] = NoTenant
    BY TypeParts DEF SweptClaims
  <2>2. SweptActive \in [Tenant -> Nat] /\ SweptClaims \in [Token -> Tenant \cup {NoTenant}]
    BY TypeParts, SweptTypes
  <2>3. /\ tenantActive' = [SweptActive EXCEPT ![j.tenant] = @ + 1]
        /\ claimTenant' = [SweptClaims EXCEPT ![k] = j.tenant]
    BY <1>1 DEF Charge
  <2> QED
    BY <2>1, <2>2, <2>3, SweptCounts, AddCharge, PayloadTypes
<1>2. CASE ~ (TenantLimit > 0 /\ ~ j.unlimited)
  BY <1>2, SweepCounts DEF Charge
<1> QED
  BY <1>1, <1>2

LEMMA RebindCounts ==
  ASSUME TypeOK, TenantAccounting, NEW j \in Job, NEW k \in Token, RebindTenant(j, k)
  PROVE  TenantAccounting'
<1>1. CASE claimTenant[k] = NoTenant
  <2>1. /\ claimTenant \in [Token -> Tenant \cup {NoTenant}] /\ tenantActive \in [Tenant -> Nat]
        /\ \A t \in Tenant : tenantActive[t] = Cardinality({x \in Token : claimTenant[x] = t})
    BY DEF TypeOK, TenantAccounting
  <2>2. /\ tenantActive' = [tenantActive EXCEPT ![j.tenant] = @ + 1]
        /\ claimTenant' = [claimTenant EXCEPT ![k] = j.tenant]
    BY <1>1 DEF RebindTenant
  <2>3. j.tenant \in Tenant
    BY PayloadTypes
  <2> QED
    BY <1>1, <2>1, <2>2, <2>3, AddCharge
<1>2. CASE claimTenant[k] # NoTenant
  BY <1>2 DEF RebindTenant, TenantAccounting
<1> QED
  BY <1>1, <1>2

TenantInv == TypeOK /\ TenantAccounting /\ UnchargedBeforeClaim

\* What the steps of a slot do to the charges, given that its token is its own.
OnlyCharges(k) == \A i \in Token \ {k} : claimTenant'[i] # NoTenant => claimTenant[i] # NoTenant

LEMMA TenantStep ==
  ASSUME SlotInv, Lock!OwnTokens, TenantInv, Next
  PROVE  TenantAccounting' /\ UnchargedBeforeClaim'
<1> USE DEF listVars, dedupVars, tenantVars, recoveryVars, arrivalVars, faultVars
<1>0. TypeOK /\ SlotTyped /\ TenantAccounting /\ UnchargedBeforeClaim
  BY TypeParts DEF TenantInv
<1>1. \A s, r \in Slot :
        s # r /\ slot[s].pc \in {"check", "claim", "drop"} /\ (slot[r].pc \in {"check", "claim", "drop"} \/ Leased(r))
          => slot[s].tok # slot[r].tok
  BY DEF Lock!OwnTokens, Lock!None, Claims, LockClaim
\* Steps that change neither charges nor slots that have yet to claim.
<1>2. ASSUME UNCHANGED <<tenantActive, claimTenant>>
      PROVE  TenantAccounting'
  BY <1>0, <1>2 DEF TenantAccounting
<1>3. ASSUME UNCHANGED slot, \A k \in Token : claimTenant'[k] # NoTenant => claimTenant[k] # NoTenant
      PROVE  UnchargedBeforeClaim'
  BY <1>0, <1>3, BusySlot DEF UnchargedBeforeClaim
<1>4. ASSUME NEW s \in Slot, Leave(s) \/ (\E pc \in PC \ {"idle", "check", "claim", "drop"} : Goto(s, pc)),
             slot[s].pc # "idle", OnlyCharges(slot[s].tok),
             Leased(s) \/ slot[s].pc = "claim" \/ claimTenant'[slot[s].tok] = NoTenant
                       \/ UNCHANGED claimTenant
      PROVE  UnchargedBeforeClaim'
  <2>1. /\ \A r \in Slot \ {s} : slot'[r] = slot[r]
        /\ slot'[s].pc \notin {"check", "claim", "drop"}
    BY <1>0, <1>4, LeaveKeeps, GotoKeeps DEF Idle
  <2> SUFFICES ASSUME NEW r \in Slot \ {s}, slot[r].pc \in {"check", "claim", "drop"}
               PROVE  claimTenant'[slot[r].tok] = NoTenant
    BY <2>1 DEF UnchargedBeforeClaim
  <2>2. claimTenant[slot[r].tok] = NoTenant /\ slot[r].tok \in Token
    BY <1>0, BusySlot DEF UnchargedBeforeClaim
  <2>3. CASE slot[r].tok # slot[s].tok
    BY <1>4, <2>2, <2>3 DEF OnlyCharges
  <2>4. CASE slot[r].tok = slot[s].tok
    BY <1>1, <1>4, <2>2, <2>4
  <2> QED
    BY <2>3, <2>4
\* Sweeps and releases only take charges away.
<1>5. ASSUME SweepTenantClaims
      PROVE  \A k \in Token : claimTenant'[k] # NoTenant => claimTenant[k] # NoTenant
  BY <1>5 DEF SweepTenantClaims, SweptClaims
<1>6. ASSUME NEW k \in Token, ReleaseTenantClaim(k)
      PROVE  \A i \in Token : claimTenant'[i] # NoTenant => claimTenant[i] # NoTenant
  BY <1>0, <1>6 DEF ReleaseTenantClaim, TypeOK
<1>7. ASSUME NEW j \in Job, Arrive(j) \/ Enqueue(j) \/ ReplayDeadLetter(j) \/ DelayElapses(j)
      PROVE  UNCHANGED <<tenantActive, claimTenant, slot>>
  BY <1>7 DEF Arrive, Enqueue, ReplayDeadLetter, DelayElapses
<1>8. ASSUME NEW s \in Slot, DequeueEmpty(s)
      PROVE  UNCHANGED <<tenantActive, claimTenant, slot>>
  BY <1>8 DEF DequeueEmpty
<1>9. ASSUME NEW s \in Slot, DequeueBlocked(s)
      PROVE  TenantAccounting' /\ UnchargedBeforeClaim'
  BY <1>0, <1>3, <1>5, <1>9, SweepCounts DEF DequeueBlocked
<1>10. ASSUME NEW s \in Slot, DequeueJob(s)
       PROVE  TenantAccounting' /\ UnchargedBeforeClaim'
  <2>1. PICK k \in Token :
          ~ InUse(k) /\ slot' = [slot EXCEPT ![s] = [pc |-> "check", job |-> queue[Selected], tok |-> k]]
    BY <1>10 DEF DequeueJob
  <2>2. SweepTenantClaims
    BY <1>10 DEF DequeueJob
  <2>3. claimTenant[k] = NoTenant
    BY <2>1 DEF InUse
  <2>4. /\ \A r \in Slot \ {s} : slot'[r] = slot[r]
        /\ slot'[s].tok = k
    BY <1>0, <2>1 DEF SlotTyped
  <2>5. \A r \in Slot : slot'[r].pc \in {"check", "claim", "drop"} => claimTenant'[slot'[r].tok] = NoTenant
    BY <1>0, <1>5, <2>2, <2>3, <2>4, BusySlot DEF UnchargedBeforeClaim
  <2> QED
    BY <1>0, <2>2, <2>5, SweepCounts DEF UnchargedBeforeClaim
<1>11. ASSUME NEW s \in Slot, CheckDone(s)
       PROVE  TenantAccounting' /\ UnchargedBeforeClaim'
  BY <1>0, <1>2, <1>11, GotoKeeps DEF CheckDone, PC, UnchargedBeforeClaim
<1>12. ASSUME NEW s \in Slot, DropEntry(s)
       PROVE  TenantAccounting' /\ UnchargedBeforeClaim'
  BY <1>0, <1>2, <1>12, LeaveKeeps DEF DropEntry, UnchargedBeforeClaim, Idle
<1>13. ASSUME NEW s \in Slot, ClaimTenantFull(s)
       PROVE  TenantAccounting' /\ UnchargedBeforeClaim'
  BY <1>0, <1>4, <1>5, <1>13, SweepCounts DEF ClaimTenantFull, OnlyCharges
<1>14. ASSUME NEW s \in Slot, ClaimLease(s)
       PROVE  TenantAccounting' /\ UnchargedBeforeClaim'
  <2>1. slot[s].pc = "claim" /\ slot[s].job \in Job /\ slot[s].tok \in Token
        /\ claimTenant[slot[s].tok] = NoTenant /\ Charge(slot[s].job, slot[s].tok) /\ Goto(s, "stamp")
    BY <1>0, <1>14, BusySlot DEF ClaimLease, UnchargedBeforeClaim
  <2>2. OnlyCharges(slot[s].tok)
    BY <1>0, <1>5, <2>1, SweptTypes, TypeParts DEF Charge, OnlyCharges, SweptClaims
  <2> QED
    BY <1>0, <1>4, <2>1, <2>2, ChargeCounts DEF PC
<1>15. ASSUME NEW s \in Slot, ClaimPending(s)
       PROVE  TenantAccounting' /\ UnchargedBeforeClaim'
  <2>1. SweepTenantClaims /\ Goto(s, "drop") /\ slot[s].pc = "claim"
    BY <1>15 DEF ClaimPending
  <2>2. /\ slot'[s].tok = slot[s].tok
        /\ \A r \in Slot \ {s} : slot'[r] = slot[r]
    BY <1>0, <2>1, GotoKeeps DEF PC
  <2>3. \A r \in Slot : slot'[r].pc \in {"check", "claim", "drop"} => claimTenant'[slot'[r].tok] = NoTenant
    BY <1>0, <1>5, <2>1, <2>2, BusySlot DEF UnchargedBeforeClaim
  <2> QED
    BY <1>0, <2>1, <2>3, SweepCounts DEF UnchargedBeforeClaim
<1>16. ASSUME NEW s \in Slot, StampMeta(s) \/ MarkRunning(s)
       PROVE  TenantAccounting' /\ UnchargedBeforeClaim'
  BY <1>2, <1>4, <1>16 DEF StampMeta, MarkRunning, PC, OnlyCharges
<1>17. ASSUME NEW s \in Slot, RenewLease(s) \/ PersistJob(s)
       PROVE  TenantAccounting' /\ UnchargedBeforeClaim'
  <2>1. /\ RebindTenant(slot[s].job, slot[s].tok) /\ UNCHANGED slot
        /\ Leased(s) /\ slot[s].job \in Job /\ slot[s].tok \in Token
    BY <1>0, <1>17, BusySlot DEF RenewLease, PersistJob, Executing, Leased
  <2>2. OnlyCharges(slot[s].tok)
    BY <1>0, <2>1 DEF RebindTenant, OnlyCharges, TypeOK
  <2>3. \A r \in Slot : slot[r].pc \in {"check", "claim", "drop"} =>
          slot[r].tok \in Token /\ slot[r].tok # slot[s].tok /\ claimTenant[slot[r].tok] = NoTenant
    BY <1>0, <1>1, <2>1, BusySlot DEF UnchargedBeforeClaim, Leased
  <2>4. UnchargedBeforeClaim'
    BY <2>1, <2>2, <2>3 DEF UnchargedBeforeClaim, OnlyCharges
  <2> QED
    BY <1>0, <2>1, <2>4, RebindCounts
<1>18. ASSUME NEW s \in Slot, PersistJobFails(s) \/ Crash(s) \/ Finish(s)
       PROVE  TenantAccounting' /\ UnchargedBeforeClaim'
  <2>1. UNCHANGED <<tenantActive, claimTenant>>
    BY <1>18 DEF PersistJobFails, Crash, Finish, ReleaseLockAndDrain, ResubmitCheck, Resubmit
  <2>2. slot[s].pc # "idle" /\ (Leave(s) \/ \E pc \in PC \ {"idle", "check", "claim", "drop"} : Goto(s, pc))
    BY <1>18 DEF PersistJobFails, Crash, Finish, ReleaseLockAndDrain, ResubmitCheck, Resubmit, PC
  <2> QED
    BY <1>2, <1>4, <2>1, <2>2 DEF OnlyCharges
<1>19. ASSUME NEW s \in Slot,
              \/ StaleRelease(s) \/ MarkCompleted(s) \/ FailTerminal(s) \/ FailTransient(s)
              \/ ReturnLate(s) \/ DeadLetter(s) \/ ReturnToQueue(s)
       PROVE  TenantAccounting' /\ UnchargedBeforeClaim'
  <2>1. ReleaseTenantClaim(slot[s].tok) /\ slot[s].pc \in {"held", "running"} /\ slot[s].tok \in Token
    BY <1>0, <1>19, BusySlot DEF StaleRelease, MarkCompleted, FailTerminal, FailTransient, ReturnLate,
          MarkFailed, DeadLetter, ReturnToQueue, ReleaseOwned, Executing
  <2>2. Leave(s) \/ \E pc \in PC \ {"idle", "check", "claim", "drop"} : Goto(s, pc)
    BY <1>19 DEF StaleRelease, MarkCompleted, FailTerminal, FailTransient, ReturnLate,
          MarkFailed, DeadLetter, ReturnToQueue, PC
  <2>3. OnlyCharges(slot[s].tok) /\ Leased(s)
    BY <1>6, <2>1 DEF OnlyCharges, Leased
  <2> QED
    BY <1>0, <1>4, <2>1, <2>2, <2>3, ReleaseCounts
<1>20. ASSUME Recover
       PROVE  TenantAccounting' /\ UnchargedBeforeClaim'
  <2>1. ASSUME NEW e \in processing, RecoverSuperseded(e) \/ RecoverOrphan(e)
        PROVE  TenantAccounting' /\ UnchargedBeforeClaim'
    <3>1. ReleaseTenantClaim(e.tok) /\ UNCHANGED slot /\ e.tok \in Token
      BY <1>0, <2>1 DEF RecoverSuperseded, RecoverOrphan, TypeOK, Entry
    <3> QED
      BY <1>0, <1>3, <1>6, <3>1, ReleaseCounts
  <2>2. ASSUME NEW e \in processing, RecoverGrace(e)
        PROVE  UNCHANGED <<tenantActive, claimTenant, slot>>
    BY <2>2 DEF RecoverGrace
  <2>3. ASSUME NEW p \in PR, RecoverPending(p)
        PROVE  UNCHANGED <<tenantActive, claimTenant, slot>>
    BY <2>3 DEF RecoverPending
  <2> QED
    BY <1>2, <1>3, <1>20, <2>1, <2>2, <2>3 DEF Recover
<1>21. ASSUME \/ \E e \in processing : GraceElapses(e)
              \/ \E p \in PR : LeaseExpires(p)
              \/ \E k \in Token : TenantClaimExpires(k)
       PROVE  UNCHANGED <<tenantActive, claimTenant, slot>>
  BY <1>21 DEF GraceElapses, LeaseExpires, TenantClaimExpires
<1> QED
  BY <1>2, <1>3, <1>7, <1>8, <1>9, <1>10, <1>11, <1>12, <1>13, <1>14, <1>15, <1>16, <1>17, <1>18, <1>19,
     <1>20, <1>21 DEF Next, Dequeue, EndJob

\* The occupancy of a tenant is the number of claims charged to it: each
\* charge is released once, on every path that releases one.
THEOREM TenantCounterExact == Spec => []TenantAccounting
<1>1. Init => TenantInv
  <2>1. Init => TypeOK
    BY TypeInit
  <2>2. Init => TenantAccounting
    <3> SUFFICES ASSUME Init, NEW t \in Tenant
                 PROVE  tenantActive[t] = Cardinality({k \in Token : claimTenant[k] = t})
      BY DEF TenantAccounting
    <3>1. {k \in Token : claimTenant[k] = t} = {}
      BY TenantAssumption DEF Init
    <3> QED
      BY <3>1, FS_EmptySet DEF Init
  <2>3. Init => UnchargedBeforeClaim
    BY DEF Init, UnchargedBeforeClaim, Idle
  <2> QED
    BY <2>1, <2>2, <2>3 DEF TenantInv
<1>2. SlotInv /\ Lock!OwnTokens /\ TenantInv /\ [Next]_vars => TenantInv'
  <2> SUFFICES ASSUME SlotInv, Lock!OwnTokens, TenantInv, [Next]_vars
               PROVE  TenantInv'
    OBVIOUS
  <2>1. TypeOK'
    BY TypeStep DEF SlotInv
  <2>2. CASE Next
    BY <2>1, <2>2, TenantStep DEF TenantInv
  <2>3. CASE UNCHANGED vars
    BY <2>1, <2>3 DEF vars, tenantVars, TenantInv, TenantAccounting, UnchargedBeforeClaim
  <2> QED
    BY <2>2, <2>3
<1>3. Spec => []SlotInv
  BY SlotInvInit, SlotInvStep, PTL DEF Spec
<1>4. Spec => []Lock!OwnTokens
  BY LockSafety, PTL
<1>5. TenantInv => TenantAccounting
  BY DEF TenantInv
<1> QED
  BY <1>1, <1>2, <1>3, <1>4, <1>5, PTL DEF Spec

-----------------------------------------------------------------------------
(* The jobs that wait behind a pull request.                               *)

\* All that a step does to the pending list of a pull request and to the
\* counter: the head goes to the ready queue, a review is replaced, or a job is
\* added, a review only where none waits.
Drained(p) ==
  /\ pending[p] # <<>>
  /\ pending'[p] = Tail(pending[p])
  /\ pendingCount' = Minus(pendingCount, 1)
  /\ queue' = Append(queue, Head(pending[p]))
Replaced(p) ==
  /\ Replaceable(p) # {}
  /\ \E j \in Job :
       /\ pending'[p] = [pending[p] EXCEPT ![ReplacedAt(p)] = j]
       /\ \/ jobState' = Cancelled(Superseded(p))
          \/ jobState' = [Cancelled(Superseded(p)) EXCEPT ![KeyOf(j)] = "ready"]
  /\ UNCHANGED pendingCount
Added(p) ==
  /\ \E j \in Job : /\ pending'[p] = Append(pending[p], j)
                    /\ j.review => Replaceable(p) = {}
  /\ pendingCount' = pendingCount + 1
PendingStep(p) ==
  pending'[p] = pending[p] \/ Drained(p) \/ Replaced(p) \/ Added(p)

\* It does so to one list at a time.
PendingChange ==
  \/ UNCHANGED <<pending, pendingCount>>
  \/ \E p \in PR : /\ \A r \in PR \ {p} : pending'[r] = pending[r]
                   /\ Drained(p) \/ Replaced(p) \/ Added(p)

LEMMA ReplacePendingStep ==
  ASSUME ListsTyped, NEW j \in Job, ReplacePending(j),
         \/ jobState' = Cancelled(Superseded(j.pr))
         \/ jobState' = [Cancelled(Superseded(j.pr)) EXCEPT ![KeyOf(j)] = "ready"]
  PROVE  PendingChange
<1>1. j.pr \in PR
  BY PayloadTypes
<1>2. Replaced(j.pr) /\ \A r \in PR \ {j.pr} : pending'[r] = pending[r]
  BY <1>1 DEF ListsTyped, ReplacePending, Replaced
<1> QED
  BY <1>1, <1>2 DEF PendingChange

LEMMA AddPendingStep ==
  ASSUME ListsTyped, NEW j \in Job, AddPending(j), j.review => Replaceable(j.pr) = {}
  PROVE  PendingChange
<1>1. j.pr \in PR
  BY PayloadTypes
<1>2. Added(j.pr) /\ \A r \in PR \ {j.pr} : pending'[r] = pending[r]
  BY <1>1 DEF ListsTyped, AddPending, Added
<1> QED
  BY <1>1, <1>2 DEF PendingChange

LEMMA EnqueuePendingStep ==
  ASSUME ListsTyped, NEW j \in Job, EnqueueScript(j)
  PROVE  PendingChange
<1>1. CASE UNCHANGED <<pending, pendingCount>>
  BY <1>1 DEF PendingChange
<1>2. CASE /\ ReplacePending(j)
           /\ jobState' = [Cancelled(Superseded(j.pr)) EXCEPT ![KeyOf(j)] = "ready"]
  BY <1>2, ReplacePendingStep
<1>3. CASE Replaceable(j.pr) = {} /\ AddPending(j)
  BY <1>3, AddPendingStep
<1> QED
  BY <1>1, <1>2, <1>3 DEF EnqueueScript, listVars

LEMMA DrainPendingStep ==
  ASSUME ListsTyped, NEW p \in PR, DrainPending(p)
  PROVE  PendingChange
<1>1. CASE UNCHANGED listVars
  BY <1>1 DEF listVars, PendingChange
<1>2. CASE Drained(p) /\ pending' = [pending EXCEPT ![p] = Tail(@)]
  <2>1. \A r \in PR \ {p} : pending'[r] = pending[r]
    BY <1>2 DEF ListsTyped
  <2> QED
    BY <1>2, <2>1 DEF PendingChange
<1> QED
  BY <1>1, <1>2 DEF DrainPending, Drained, ListsTyped

LEMMA PendingChanges ==
  ASSUME SlotInv, Next
  PROVE  PendingChange
<1> USE DEF listVars
<1>0. ListsTyped /\ SlotTyped /\ TypeOK /\ RetriesLeft
  BY TypeParts DEF SlotInv
<1>1. ASSUME UNCHANGED <<pending, pendingCount>>
      PROVE  PendingChange
  BY <1>1 DEF PendingChange
<1>2. ASSUME NEW j \in Job, Arrive(j) \/ ReplayDeadLetter(j) \/ DelayElapses(j)
      PROVE  UNCHANGED <<pending, pendingCount>>
  BY <1>2 DEF Arrive, ReplayDeadLetter, DelayElapses
<1>3. ASSUME NEW j \in Job, Enqueue(j)
      PROVE  PendingChange
  BY <1>0, <1>3, EnqueuePendingStep DEF Enqueue
<1>4. ASSUME NEW s \in Slot, DequeueEmpty(s) \/ DequeueJob(s) \/ DequeueBlocked(s) \/ CheckDone(s)
                               \/ DropEntry(s) \/ ClaimTenantFull(s) \/ ClaimLease(s) \/ StampMeta(s)
      PROVE  UNCHANGED <<pending, pendingCount>>
  BY <1>4 DEF DequeueEmpty, DequeueJob, DequeueBlocked, CheckDone, DropEntry, ClaimTenantFull,
        ClaimLease, StampMeta
<1>5. ASSUME NEW s \in Slot, ClaimPending(s)
      PROVE  PendingChange
  <2>1. slot[s].job \in Job
    BY <1>0, <1>5, BusySlot DEF ClaimPending
  <2>2. CASE ReplacePending(slot[s].job) /\ jobState' = Cancelled(Superseded(slot[s].job.pr))
    BY <1>0, <2>1, <2>2, ReplacePendingStep
  <2>3. CASE AddPending(slot[s].job) /\ (slot[s].job.review => Replaceable(slot[s].job.pr) = {})
    BY <1>0, <2>1, <2>3, AddPendingStep
  <2> QED
    BY <1>5, <2>2, <2>3 DEF ClaimPending
<1>6. ASSUME NEW s \in Slot, MarkRunning(s) \/ RenewLease(s) \/ PersistJob(s) \/ Crash(s)
      PROVE  UNCHANGED <<pending, pendingCount>>
  BY <1>6 DEF MarkRunning, RenewLease, PersistJob, Crash
<1>7. ASSUME NEW s \in Slot, StaleRelease(s) \/ PersistJobFails(s) \/ MarkCompleted(s) \/ FailTerminal(s)
                               \/ FailTransient(s) \/ ReturnLate(s) \/ DeadLetter(s)
      PROVE  UNCHANGED <<pending, pendingCount>>
  BY <1>7 DEF StaleRelease, PersistJobFails, MarkCompleted, FailTerminal, FailTransient, ReturnLate,
        MarkFailed, DeadLetter
<1>8. ASSUME NEW s \in Slot, ReturnToQueue(s)
      PROVE  PendingChange
  <2>1. slot[s].job.pr \in PR
    BY <1>0, <1>8, BusySlot, PayloadTypes DEF ReturnToQueue, ReleaseOwned, Executing
  <2>2. DrainPending(slot[s].job.pr) \/ UNCHANGED <<pending, pendingCount>>
    BY <1>8 DEF ReturnToQueue, DrainPending
  <2> QED
    BY <1>0, <1>1, <2>1, <2>2, DrainPendingStep
<1>9. ASSUME NEW s \in Slot, ReleaseLockAndDrain(s)
      PROVE  PendingChange
  <2>1. slot[s].job.pr \in PR
    BY <1>0, <1>9, BusySlot, PayloadTypes DEF ReleaseLockAndDrain
  <2> QED
    BY <1>0, <1>9, <2>1, DrainPendingStep DEF ReleaseLockAndDrain
<1>10. ASSUME NEW s \in Slot, ResubmitCheck(s)
       PROVE  UNCHANGED <<pending, pendingCount>>
  BY <1>10 DEF ResubmitCheck
<1>11. ASSUME NEW s \in Slot, Resubmit(s)
       PROVE  PendingChange
  <2>1. PICK j \in Job : EnqueueScript(j)
    BY <1>0, <1>11, BusySlot, RetriedIsJob DEF Resubmit, RetriesLeft
  <2> QED
    BY <1>0, <2>1, EnqueuePendingStep
<1>12. ASSUME NEW e \in processing,
              RecoverSuperseded(e) \/ RecoverGrace(e) \/ RecoverOrphan(e) \/ GraceElapses(e)
       PROVE  UNCHANGED <<pending, pendingCount>>
  BY <1>12 DEF RecoverSuperseded, RecoverGrace, RecoverOrphan, GraceElapses
<1>13. ASSUME NEW r \in PR, RecoverPending(r)
       PROVE  PendingChange
  BY <1>0, <1>13, DrainPendingStep DEF RecoverPending
<1>14. ASSUME \/ \E r \in PR : LeaseExpires(r)
              \/ \E k \in Token : TenantClaimExpires(k)
       PROVE  UNCHANGED <<pending, pendingCount>>
  BY <1>14 DEF LeaseExpires, TenantClaimExpires
<1> QED
  BY <1>1, <1>2, <1>3, <1>4, <1>5, <1>6, <1>7, <1>8, <1>9, <1>10, <1>11, <1>12, <1>13, <1>14
  DEF Next, Dequeue, EndJob, Finish, Recover

LEMMA PendingSteps ==
  ASSUME SlotInv, Next, NEW p \in PR
  PROVE  PendingStep(p)
BY PendingChanges DEF PendingChange, PendingStep

\* The counter is exact as long as finitely many lists have jobs, which one
\* list more does not change.
CountInv == IsFiniteSet(Waiting) /\ PendingCountExact

\* A step that changes one list and moves the counter by as much keeps it so.
LEMMA OneListCounts ==
  ASSUME ListsTyped, pending' \in [PR -> Seq(Job)], CountInv, NEW p \in PR,
         \A r \in PR \ {p} : pending'[r] = pending[r],
         pendingCount' = pendingCount + Len(pending'[p]) - Len(pending[p])
  PROVE  CountInv'
<1> DEFINE lens == [r \in PR |-> Len(pending[r])]
           more == Waiting \cup {p}
<1>1. \A r \in PR : /\ lens[r] \in Nat /\ lens'[r] \in Nat
                    /\ lens[r] = 0 <=> r \notin Waiting
                    /\ lens'[r] = 0 <=> r \notin Waiting'
  <2>1. \A list \in Seq(Job) : Len(list) \in Nat /\ (Len(list) = 0 <=> list = <<>>)
    BY EmptySeq
  <2> QED
    BY <2>1 DEF ListsTyped, Waiting
<1>2. Waiting \subseteq more /\ Waiting' \subseteq more /\ more \subseteq PR
  BY DEF Waiting
<1>3. IsFiniteSet(more) /\ IsFiniteSet(Waiting')
  BY <1>2, FS_AddElement, FS_Subset DEF CountInv
<1>4. p \in more /\ \A r \in more \ {p} : lens'[r] = lens[r]
  BY <1>2
<1> HIDE DEF lens, more
<1>5. SumFunctionOnSet(lens, more) = SumFunctionOnSet(lens, Waiting)
  BY <1>1, <1>2, <1>3, SumSupport
<1>6. SumFunctionOnSet(lens', more) = SumFunctionOnSet(lens', Waiting')
  BY <1>1, <1>2, <1>3, SumSupport
<1>7. SumFunctionOnSet(lens', more) = SumFunctionOnSet(lens, more) + lens'[p] - lens[p]
  <2>1. \A r \in more : lens[r] \in Int /\ lens'[r] \in Int
    BY <1>1, <1>2
  <2> QED
    BY <1>3, <1>4, <2>1, SumUpdate
<1>8. pendingCount' = pendingCount + lens'[p] - lens[p]
  BY DEF lens
<1>9. pendingCount = SumFunctionOnSet(lens, Waiting)
  BY DEF CountInv, PendingCountExact, lens
<1>10. pendingCount' = SumFunctionOnSet(lens', Waiting')
  BY <1>5, <1>6, <1>7, <1>8, <1>9
<1> QED
  BY <1>3, <1>10 DEF CountInv, PendingCountExact, lens

\* No list is longer than the counter, so that the scripts' floor at zero is
\* never what they read.
LEMMA CountCovers ==
  ASSUME ListsTyped, CountInv, NEW p \in PR
  PROVE  Len(pending[p]) <= pendingCount
<1> DEFINE lens == [r \in PR |-> Len(pending[r])]
<1>1. \A r \in PR : lens[r] \in Nat
  BY DEF ListsTyped
<1>2. CASE p \in Waiting
  <2>1. SumFunctionOnSet(lens, Waiting) = lens[p] + SumFunctionOnSet(lens, Waiting \ {p})
    BY <1>1, <1>2, SumRemove DEF CountInv, Waiting
  <2>2. IsFiniteSet(Waiting \ {p}) /\ \A r \in Waiting \ {p} : lens[r] \in Nat
    BY <1>1, FS_Subset DEF CountInv, Waiting
  <2>3. SumFunctionOnSet(lens, Waiting \ {p}) \in Nat
    <3> HIDE DEF lens
    <3> QED
      BY <2>2, SumType
  <2>4. pendingCount = lens[p] + SumFunctionOnSet(lens, Waiting \ {p})
    BY <2>1 DEF CountInv, PendingCountExact
  <2> QED
    BY <1>1, <2>3, <2>4
<1>3. CASE p \notin Waiting
  BY <1>3, EmptySeq DEF ListsTyped, Waiting
<1> QED
  BY <1>2, <1>3

LEMMA CountStep ==
  ASSUME SlotInv, TypeOK', CountInv, Next
  PROVE  CountInv'
<1>0. ListsTyped /\ pending' \in [PR -> Seq(Job)]
  BY TypeParts DEF SlotInv, TypeOK
<1>1. CASE UNCHANGED <<pending, pendingCount>>
  BY <1>1 DEF CountInv, PendingCountExact, Waiting
<1>2. ASSUME NEW p \in PR, \A r \in PR \ {p} : pending'[r] = pending[r],
             Drained(p) \/ Replaced(p) \/ Added(p)
      PROVE  CountInv'
  <2>0. pending[p] \in Seq(Job) /\ Len(pending[p]) \in Nat /\ pendingCount \in Nat
    BY <1>0 DEF ListsTyped
  <2>1. CASE Drained(p)
    <3>1. Len(pending'[p]) = Len(pending[p]) - 1 /\ Len(pending[p]) > 0
      BY <2>0, <2>1, HeadTailProperties, EmptySeq DEF Drained
    <3>2. Len(pending[p]) <= pendingCount
      BY <1>0, CountCovers
    <3>3. pendingCount' = pendingCount + Len(pending'[p]) - Len(pending[p])
      <4>1. \A n, m \in Nat : m > 0 /\ m <= n => Minus(n, 1) = n + (m - 1) - m
        BY DEF Minus
      <4>2. pendingCount' = Minus(pendingCount, 1)
        BY <2>1 DEF Drained
      <4> QED
        BY <2>0, <3>1, <3>2, <4>1, <4>2
    <3> QED
      BY <1>0, <1>2, <3>3, OneListCounts
  <2>2. CASE Replaced(p)
    <3>1. PICK j \in Job : pending'[p] = [pending[p] EXCEPT ![ReplacedAt(p)] = j]
      BY <2>2 DEF Replaced
    <3>2. ReplacedAt(p) \in 1..Len(pending[p])
      BY <1>0, <2>2, ReplacedIsJob DEF Replaced
    <3>3. Len(pending'[p]) = Len(pending[p])
      BY <2>0, <3>1, <3>2, ExceptSeq
    <3>4. pendingCount' = pendingCount + Len(pending'[p]) - Len(pending[p])
      BY <2>0, <2>2, <3>3 DEF Replaced
    <3> QED
      BY <1>0, <1>2, <3>4, OneListCounts
  <2>3. CASE Added(p)
    <3>1. Len(pending'[p]) = Len(pending[p]) + 1
      BY <2>0, <2>3, AppendProperties DEF Added
    <3>2. pendingCount' = pendingCount + Len(pending'[p]) - Len(pending[p])
      BY <2>0, <2>3, <3>1 DEF Added
    <3> QED
      BY <1>0, <1>2, <3>2, OneListCounts
  <2> QED
    BY <1>2, <2>1, <2>2, <2>3
<1> QED
  BY <1>1, <1>2, PendingChanges DEF PendingChange

\* The counter of the depth report and of the drain scripts is the number of
\* jobs that wait, whatever scripts of whichever workers have moved it.
THEOREM PendingCounted == Spec => []PendingCountExact
<1>1. Init => CountInv
  <2> SUFFICES ASSUME Init
               PROVE  CountInv
    OBVIOUS
  <2>1. Waiting = {}
    BY DEF Init, Waiting
  <2> QED
    BY <2>1, FS_EmptySet, SumEmpty DEF Init, CountInv, PendingCountExact
<1>2. SlotInv /\ TypeOK' /\ CountInv /\ [Next]_vars => CountInv'
  <2>1. ASSUME CountInv, UNCHANGED vars
        PROVE  CountInv'
    BY <2>1 DEF vars, listVars, CountInv, PendingCountExact, Waiting
  <2> QED
    BY <2>1, CountStep
<1>3. Spec => []SlotInv
  BY SlotInvInit, SlotInvStep, PTL DEF Spec
<1>4. SlotInv => TypeOK
  BY DEF SlotInv
<1>5. CountInv => PendingCountExact
  BY DEF CountInv
<1> QED
  BY <1>1, <1>2, <1>3, <1>4, <1>5, PTL DEF Spec

\* Whatever a step does to a list with one review, one review remains.
LEMMA CoalescedStep ==
  ASSUME ListsTyped, NEW p \in PR, PendingStep(p), pending' \in [PR -> Seq(Job)],
         \A i, k \in ReviewsIn(pending[p]) : i = k
  PROVE  \A i, k \in ReviewsIn(pending'[p]) : i = k
<1>0. pending[p] \in Seq(Job) /\ pending'[p] \in Seq(Job) /\ Len(pending[p]) \in Nat
  BY DEF ListsTyped
<1>1. CASE pending'[p] = pending[p]
  BY <1>1
<1>2. CASE Drained(p)
  <2>1. /\ Len(pending'[p]) = Len(pending[p]) - 1
        /\ \A i \in 1..Len(pending'[p]) : pending'[p][i] = pending[p][i + 1]
    BY <1>0, <1>2, HeadTailProperties DEF Drained
  <2>2. \A i \in ReviewsIn(pending'[p]) : i \in Nat /\ i + 1 \in ReviewsIn(pending[p])
    BY <1>0, <2>1 DEF ReviewsIn
  <2> QED
    BY <2>2
<1>3. CASE Replaced(p)
  <2>1. PICK j \in Job : pending'[p] = [pending[p] EXCEPT ![ReplacedAt(p)] = j]
    BY <1>3 DEF Replaced
  <2>2. ReplacedAt(p) \in ReviewsIn(pending[p]) /\ ReplacedAt(p) \in 1..Len(pending[p])
    BY <1>3, ReplacedIsJob DEF Replaced, Replaceable
  <2>3. /\ Len(pending'[p]) = Len(pending[p])
        /\ \A i \in 1..Len(pending[p]) : pending'[p][i] = IF i = ReplacedAt(p) THEN j ELSE pending[p][i]
    BY <1>0, <2>1, <2>2, ExceptSeq
  <2>4. ReviewsIn(pending'[p]) \subseteq ReviewsIn(pending[p])
    BY <2>2, <2>3 DEF ReviewsIn
  <2> QED
    BY <2>4
<1>4. CASE Added(p)
  <2>1. PICK j \in Job : /\ pending'[p] = Append(pending[p], j)
                         /\ j.review => Replaceable(p) = {}
    BY <1>4 DEF Added
  <2>2. /\ Len(pending'[p]) = Len(pending[p]) + 1
        /\ \A i \in 1..Len(pending[p]) : pending'[p][i] = pending[p][i]
        /\ pending'[p][Len(pending[p]) + 1] = j
    BY <1>0, <2>1, AppendProperties
  <2>3. ReviewsIn(pending'[p]) \subseteq
          ReviewsIn(pending[p]) \cup (IF j.review THEN {Len(pending[p]) + 1} ELSE {})
    BY <1>0, <2>2 DEF ReviewsIn
  <2> QED
    BY <2>1, <2>3 DEF Replaceable
<1> QED
  BY <1>1, <1>2, <1>3, <1>4 DEF PendingStep

\* At most one review waits behind a pull request, however deliveries, claims
\* that find it held, retries, drains and recoveries follow each other.
THEOREM ReviewsCoalesce == Spec => []OnePendingReview
<1>1. Init => OnePendingReview
  BY DEF Init, OnePendingReview, ReviewsIn
<1>2. SlotInv /\ TypeOK' /\ OnePendingReview /\ [Next]_vars => OnePendingReview'
  <2> SUFFICES ASSUME SlotInv, TypeOK', OnePendingReview, [Next]_vars
               PROVE  OnePendingReview'
    OBVIOUS
  <2>1. CASE Next
    <3>1. ListsTyped /\ pending' \in [PR -> Seq(Job)]
      BY TypeParts DEF SlotInv, TypeOK
    <3> SUFFICES ASSUME NEW p \in PR
                 PROVE  \A i, k \in ReviewsIn(pending'[p]) : i = k
      BY DEF OnePendingReview
    <3>2. PendingStep(p)
      BY <2>1, PendingSteps
    <3>3. \A i, k \in ReviewsIn(pending[p]) : i = k
      BY DEF OnePendingReview
    <3> QED
      BY <3>1, <3>2, <3>3, CoalescedStep
  <2>2. CASE UNCHANGED vars
    BY <2>2 DEF vars, listVars, OnePendingReview
  <2> QED
    BY <2>1, <2>2
<1>3. Spec => []SlotInv
  BY SlotInvInit, SlotInvStep, PTL DEF Spec
<1>4. SlotInv => TypeOK
  BY DEF SlotInv
<1> QED
  BY <1>1, <1>2, <1>3, <1>4, PTL DEF Spec

\* A command that waits leaves the pending list for the ready queue only: a
\* newer arrival never takes its place.
THEOREM WaitingCommandsKept == Spec => CommandsKept
<1>1. ASSUME SlotInv, Next, NEW p \in PR, NEW i \in 1..Len(pending[p])
      PROVE  LET c == pending[p][i] IN
               c.review \/ Contains(pending'[p], c) \/ Contains(queue', c)
  <2> DEFINE c == pending[p][i]
  <2>0. /\ ListsTyped /\ PendingStep(p) /\ c \in Job
        /\ pending[p] \in Seq(Job) /\ Len(pending[p]) \in Nat /\ queue \in Seq(Job)
    BY <1>1, PendingSteps, TypeParts, ElementOfSeq DEF SlotInv, ListsTyped
  <2>1. CASE pending'[p] = pending[p]
    BY <2>1 DEF Contains
  <2>2. CASE Drained(p)
    <3>1. CASE i = 1
      <4>1. queue' = Append(queue, c)
        BY <2>2, <3>1, <2>0 DEF Drained
      <4>2. Len(queue') = Len(queue) + 1 /\ queue'[Len(queue) + 1] = c /\ Len(queue) \in Nat
        BY <2>0, <4>1, AppendProperties
      <4> QED
        BY <4>2 DEF Contains
    <3>2. CASE i # 1
      <4>1. /\ Len(pending'[p]) = Len(pending[p]) - 1
            /\ \A n \in 1..Len(pending'[p]) : pending'[p][n] = pending[p][n + 1]
        BY <2>0, <2>2, HeadTailProperties DEF Drained
      <4>2. i - 1 \in 1..Len(pending'[p]) /\ pending'[p][i - 1] = c
        <5>1. i - 1 \in 1..Len(pending'[p]) /\ (i - 1) + 1 = i
          BY <2>0, <3>2, <4>1
        <5>2. pending'[p][i - 1] = pending[p][(i - 1) + 1]
          BY <4>1, <5>1
        <5> QED
          BY <5>1, <5>2
      <4> QED
        BY <4>2 DEF Contains
    <3> QED
      BY <3>1, <3>2
  <2>3. CASE Replaced(p)
    <3>1. PICK j \in Job : pending'[p] = [pending[p] EXCEPT ![ReplacedAt(p)] = j]
      BY <2>3 DEF Replaced
    <3>2. ReplacedAt(p) \in ReviewsIn(pending[p]) /\ ReplacedAt(p) \in 1..Len(pending[p])
      BY <2>0, <2>3, ReplacedIsJob DEF Replaced, Replaceable
    <3>3. /\ Len(pending'[p]) = Len(pending[p])
          /\ pending'[p][i] = IF i = ReplacedAt(p) THEN j ELSE c
      BY <2>0, <3>1, <3>2, ExceptSeq
    <3> QED
      BY <3>2, <3>3 DEF ReviewsIn, Contains
  <2>4. CASE Added(p)
    <3>1. /\ Len(pending'[p]) = Len(pending[p]) + 1
          /\ \A n \in 1..Len(pending[p]) : pending'[p][n] = pending[p][n]
      BY <2>0, <2>4, AppendProperties DEF Added
    <3> QED
      BY <2>0, <3>1 DEF Contains
  <2> QED
    BY <2>0, <2>1, <2>2, <2>3, <2>4 DEF PendingStep
<1>2. SlotInv /\ [Next]_vars =>
        [\A p \in PR : \A i \in 1..Len(pending[p]) :
           LET c == pending[p][i] IN
             c.review \/ Contains(pending'[p], c) \/ Contains(queue', c)]_vars
  BY <1>1
<1>3. Spec => []SlotInv
  BY SlotInvInit, SlotInvStep, PTL DEF Spec
<1> QED
  BY <1>2, <1>3, PTL DEF Spec, CommandsKept

-----------------------------------------------------------------------------
(* The ceiling of a tenant.                                                *)

\* A backup and the slot that took it from the queue agree on the job.
BackupMatches ==
  \A e \in processing, s \in Slot :
    slot[s].pc # "idle" /\ e.tok = slot[s].tok => e.job = slot[s].job

\* What recovery and the sweep leave alone: the charge of a limited job whose
\* worker goes on.
ChargeHeld(s) ==
  claimTenant[slot[s].tok] = slot[s].job.tenant /\ slot[s].tok \notin claimExpired
LimitedCharged ==
  TenantLimit > 0 /\ stalls = 0 =>
    \A s \in Slot : Leased(s) /\ s \notin lost /\ ~ slot[s].job.unlimited => ChargeHeld(s)

\* A step adds only fresh tokens to the backups, and changes no job of one.
LEMMA BackupChanges ==
  ASSUME TypeOK, Next
  PROVE  \/ \A e \in processing' : \E o \in processing : o.tok = e.tok /\ o.job = e.job
         \/ \E s \in Slot, j \in Job, k \in Token :
              /\ ~ InUse(k) /\ slot[s].pc = "idle"
              /\ processing' = processing \cup {[tok |-> k, job |-> j, meta |-> "none"]}
              /\ slot' = [slot EXCEPT ![s] = [pc |-> "check", job |-> j, tok |-> k]]
<1> DEFINE Same == \A e \in processing' : \E o \in processing : o.tok = e.tok /\ o.job = e.job
<1> USE DEF recoveryVars
<1>0. processing \subseteq Entry
  BY DEF TypeOK
<1>1. processing' \subseteq processing => Same
  OBVIOUS
<1>3. ASSUME NEW j \in Job, Arrive(j) \/ Enqueue(j) \/ ReplayDeadLetter(j) \/ DelayElapses(j)
      PROVE  processing' \subseteq processing
  BY <1>3 DEF Arrive, Enqueue, ReplayDeadLetter, DelayElapses
<1>4. ASSUME NEW s \in Slot, DequeueJob(s)
      PROVE  \E j \in Job, k \in Token :
              /\ ~ InUse(k) /\ slot[s].pc = "idle"
              /\ processing' = processing \cup {[tok |-> k, job |-> j, meta |-> "none"]}
              /\ slot' = [slot EXCEPT ![s] = [pc |-> "check", job |-> j, tok |-> k]]
  <2>1. queue[Selected] \in Job
    BY <1>4, SelectedIsEligible, ElementOfSeq DEF DequeueJob, TypeOK
  <2> QED
    BY <1>4, <2>1 DEF DequeueJob
<1>5. ASSUME NEW s \in Slot,
             \/ DequeueEmpty(s) \/ DequeueBlocked(s) \/ CheckDone(s) \/ DropEntry(s)
             \/ ClaimTenantFull(s) \/ ClaimLease(s) \/ ClaimPending(s)
             \/ MarkRunning(s) \/ RenewLease(s) \/ Finish(s) \/ Crash(s)
      PROVE  processing' \subseteq processing
  BY <1>5 DEF DequeueEmpty, DequeueBlocked, CheckDone, DropEntry, ClaimTenantFull, ClaimLease, ClaimPending,
        MarkRunning, RenewLease, Finish, ReleaseLockAndDrain, ResubmitCheck, Resubmit, Crash
<1>6. ASSUME NEW s \in Slot, EndJob(s)
      PROVE  processing' \subseteq processing
  BY <1>6 DEF EndJob, StaleRelease, PersistJobFails, MarkCompleted, FailTerminal, FailTransient, ReturnLate,
        MarkFailed, DeadLetter, ReturnToQueue, ReleaseOwned
<1>7. ASSUME NEW s \in Slot, StampMeta(s)
      PROVE  Same
  BY <1>0, <1>7 DEF StampMeta, Stamped, OwnEntries, Entry
<1>8. ASSUME NEW s \in Slot, PersistJob(s)
      PROVE  Same
  BY <1>0, <1>8 DEF PersistJob, OwnEntries, Entry
<1>9. ASSUME NEW e \in processing, RecoverSuperseded(e) \/ RecoverOrphan(e)
      PROVE  processing' \subseteq processing
  BY <1>9 DEF RecoverSuperseded, RecoverOrphan
<1>10. ASSUME NEW e \in processing, RecoverGrace(e) \/ GraceElapses(e)
       PROVE  Same
  BY <1>0, <1>10 DEF RecoverGrace, GraceElapses, Entry
<1>11. ASSUME \/ \E p \in PR : RecoverPending(p) \/ LeaseExpires(p)
              \/ \E k \in Token : TenantClaimExpires(k)
       PROVE  processing' \subseteq processing
  BY <1>11 DEF RecoverPending, LeaseExpires, TenantClaimExpires
<1> QED
  BY <1>1, <1>3, <1>4, <1>5, <1>6, <1>7, <1>8, <1>9, <1>10, <1>11 DEF Next, Dequeue, Recover

LEMMA BackupStep ==
  ASSUME TypeOK, BackupMatches, Next
  PROVE  BackupMatches'
<1> SUFFICES ASSUME NEW e \in processing', NEW s \in Slot, slot'[s].pc # "idle", e.tok = slot'[s].tok
             PROVE  e.job = slot'[s].job
  BY DEF BackupMatches
<1>0. SlotTyped /\ processing \subseteq Entry
  BY TypeParts DEF TypeOK
<1>1. \/ UNCHANGED slot
      \/ \E r \in Slot : Moves(r) \/ Leave(r) \/ Takes(r)
  BY SlotChanges DEF Loses
<1>2. CASE \E o \in processing : o.tok = e.tok /\ o.job = e.job
  <2>1. PICK o \in processing : o.tok = e.tok /\ o.job = e.job
    BY <1>2
  <2>2. CASE UNCHANGED slot
    BY <2>1, <2>2 DEF BackupMatches
  <2>3. ASSUME NEW r \in Slot, Moves(r) \/ Leave(r)
        PROVE  e.job = slot'[s].job
    <3>1. slot'[s].pc # "idle" => slot[s].pc # "idle" /\ slot'[s].job = slot[s].job /\ slot'[s].tok = slot[s].tok
      BY <1>0, <2>3, GotoKeeps, LeaveKeeps DEF Moves, Idle
    <3> QED
      BY <2>1, <3>1 DEF BackupMatches
  <2>4. ASSUME NEW r \in Slot, Takes(r)
        PROVE  e.job = slot'[s].job
    <3>1. PICK j \in Job, k \in Token :
            ~ InUse(k) /\ slot' = [slot EXCEPT ![r] = [pc |-> "check", job |-> j, tok |-> k]]
      BY <2>4 DEF Takes
    <3>2. o.tok # k
      BY <2>1, <3>1 DEF InUse
    <3>3. s # r
      BY <1>0, <2>1, <3>1, <3>2 DEF SlotTyped
    <3> QED
      BY <1>0, <2>1, <3>1, <3>3 DEF BackupMatches, SlotTyped
  <2> QED
    BY <1>1, <2>2, <2>3, <2>4
<1>3. ASSUME NEW r \in Slot, NEW j \in Job, NEW k \in Token,
             ~ InUse(k), slot[r].pc = "idle",
             processing' = processing \cup {[tok |-> k, job |-> j, meta |-> "none"]},
             slot' = [slot EXCEPT ![r] = [pc |-> "check", job |-> j, tok |-> k]]
      PROVE  e.job = slot'[s].job
  <2>1. /\ \A x \in Slot : slot[x].tok # k
        /\ \A o \in processing : o.tok # k
    BY <1>3 DEF InUse
  <2>2. CASE e \in processing
    <3>1. s # r
      BY <1>0, <1>3, <2>1, <2>2 DEF SlotTyped
    <3> QED
      BY <1>0, <1>3, <2>2, <3>1 DEF BackupMatches, SlotTyped
  <2>3. CASE e = [tok |-> k, job |-> j, meta |-> "none"]
    <3>1. s = r
      BY <1>0, <1>3, <2>1, <2>3 DEF SlotTyped
    <3> QED
      BY <1>0, <1>3, <2>3, <3>1 DEF SlotTyped
  <2> QED
    BY <1>3, <2>2, <2>3
<1> QED
  BY <1>2, <1>3, BackupChanges
\* What leaves the charge of a token as it is.
Untouched(k) ==
  claimTenant'[k] = claimTenant[k] /\ (k \in claimExpired' => k \in claimExpired)

LEMMA ChargeUntouched ==
  ASSUME TypeOK, NEW k \in Token, claimTenant[k] # NoTenant, k \notin claimExpired
  PROVE  /\ SweepTenantClaims => Untouched(k)
         /\ \A i \in Token \ {k} : ReleaseTenantClaim(i) => Untouched(k)
         /\ \A j \in Job, i \in Token \ {k} : Charge(j, i) => Untouched(k)
         /\ \A j \in Job, i \in Token : RebindTenant(j, i) => Untouched(k)
<1>1. claimTenant \in [Token -> Tenant \cup {NoTenant}]
  BY DEF TypeOK
<1>2. SweepTenantClaims => Untouched(k)
  BY DEF SweepTenantClaims, SweptClaims, SweptExpired, Untouched
<1>3. ASSUME NEW i \in Token \ {k}, ReleaseTenantClaim(i)
      PROVE  Untouched(k)
  BY <1>1, <1>3 DEF ReleaseTenantClaim, Untouched
<1>4. ASSUME NEW j \in Job, NEW i \in Token \ {k}, Charge(j, i)
      PROVE  Untouched(k)
  <2>1. SweptClaims \in [Token -> Tenant \cup {NoTenant}] /\ SweptClaims[k] = claimTenant[k]
    BY <1>1, TypeParts, SweptTypes DEF SweptClaims
  <2> QED
    BY <1>2, <1>4, <2>1 DEF Charge, SweptExpired, Untouched
<1>5. ASSUME NEW j \in Job, NEW i \in Token, RebindTenant(j, i)
      PROVE  Untouched(k)
  BY <1>1, <1>5 DEF RebindTenant, Untouched
<1> QED
  BY <1>2, <1>3, <1>4, <1>5

\* A slot with a lease that a step leaves it either had the lease before, with
\* the same job and token, or claims it.
LEMMA LeaseKept ==
  ASSUME SlotInv, Next, NEW s \in Slot, Leased(s)', s \notin lost'
  PROVE  \/ ClaimLease(s)
         \/ /\ Leased(s) /\ s \notin lost
            /\ slot'[s].job = slot[s].job /\ slot'[s].tok = slot[s].tok
<1>0. SlotTyped /\ TypeOK
  BY TypeParts DEF SlotInv
<1> USE DEF listVars, dedupVars, tenantVars, recoveryVars, arrivalVars, faultVars
<1>1. slot'[s].pc \in {"stamp", "held", "running"}
  BY DEF Leased
<1>2. CASE Leased(s)
  <2>1. CASE UNCHANGED <<slot, lost>>
    BY <1>2, <2>1
  <2>2. ASSUME NEW r \in Slot, Moves(r)
        PROVE  /\ s \notin lost
               /\ slot'[s].job = slot[s].job /\ slot'[s].tok = slot[s].tok
    BY <1>0, <2>2, GotoKeeps DEF Moves
  <2>3. ASSUME NEW r \in Slot, Leave(r)
        PROVE  /\ s \notin lost
               /\ slot'[s].job = slot[s].job /\ slot'[s].tok = slot[s].tok
    BY <1>0, <1>1, <2>3, LeaveKeeps DEF Idle
  <2>4. ASSUME NEW r \in Slot, Takes(r)
        PROVE  /\ s \notin lost
               /\ slot'[s].job = slot[s].job /\ slot'[s].tok = slot[s].tok
    BY <1>0, <1>1, <2>4 DEF Takes, SlotTyped
  <2>5. ASSUME NEW p \in PR, Loses(p)
        PROVE  /\ s \notin lost
               /\ slot'[s].job = slot[s].job /\ slot'[s].tok = slot[s].tok
    BY <2>5 DEF Loses
  <2> QED
    BY <1>0, <1>2, <2>1, <2>2, <2>3, <2>4, <2>5, SlotChanges
<1>3. CASE ~ Leased(s)
  <2>1. slot[s].pc \notin {"stamp", "held", "running"}
    BY <1>3 DEF Leased
  <2>2. ASSUME NEW r \in Slot,
               \/ (\E pc \in PC : slot[r].pc \in {"stamp", "held", "running"} /\ Goto(r, pc))
               \/ (\E pc \in PC \ {"stamp", "held", "running"} : Goto(r, pc))
               \/ Leave(r)
               \/ (\E j \in Job, k \in Token : slot' = [slot EXCEPT ![r] = [pc |-> "check", job |-> j, tok |-> k]])
        PROVE  FALSE
    <3>1. r # s => slot'[s] = slot[s]
      BY <1>0, <2>2 DEF Goto, Leave, SlotTyped
    <3>2. r = s
      BY <1>1, <2>1, <3>1
    <3>3. slot'[s].pc \notin {"stamp", "held", "running"}
      <4>1. ASSUME NEW pc \in PC \ {"stamp", "held", "running"}, Goto(s, pc)
            PROVE  slot'[s].pc = pc
        BY <1>0, <4>1 DEF Goto, SlotTyped, Busy, Idle
      <4>2. CASE Leave(s) \/ (\E j \in Job, k \in Token : slot' = [slot EXCEPT ![s] = [pc |-> "check", job |-> j, tok |-> k]])
        BY <1>0, <4>2 DEF Leave, SlotTyped, Idle
      <4> QED
        BY <2>1, <2>2, <3>2, <4>1, <4>2
    <3> QED
      BY <1>1, <3>3
  <2>3. ~ UNCHANGED slot
    BY <1>1, <2>1
  <2>4. ASSUME NEW r \in Slot, ClaimLease(r)
        PROVE  r = s
    BY <1>0, <1>1, <2>1, <2>4, GotoKeeps DEF ClaimLease, PC
  <2>5. ASSUME NEW r \in Slot, Dequeue(r), ~ ClaimLease(r)
        PROVE  FALSE
    <3>1. CASE DequeueEmpty(r) \/ DequeueBlocked(r)
      BY <2>3, <3>1 DEF DequeueEmpty, DequeueBlocked
    <3>2. CASE DequeueJob(r)
      <4>1. Takes(r)
        <5>1. queue[Selected] \in Job
          BY <1>0, <3>2, SelectedIsEligible, ElementOfSeq DEF DequeueJob, TypeOK
        <5> QED
          BY <3>2, <5>1 DEF DequeueJob, Takes
      <4> QED
        BY <2>2, <4>1 DEF Takes
    <3>3. CASE CheckDone(r) \/ ClaimPending(r) \/ StampMeta(r)
      BY <2>2, <3>3 DEF CheckDone, ClaimPending, StampMeta, PC
    <3>4. CASE DropEntry(r) \/ ClaimTenantFull(r)
      BY <2>2, <3>4 DEF DropEntry, ClaimTenantFull
    <3> QED
      BY <2>5, <3>1, <3>2, <3>3, <3>4 DEF Dequeue
  <2>6. ASSUME NEW r \in Slot, MarkRunning(r) \/ RenewLease(r) \/ PersistJob(r) \/ Crash(r)
        PROVE  FALSE
    BY <2>2, <2>3, <2>6 DEF MarkRunning, RenewLease, PersistJob, Crash, PC
  <2>7. ASSUME NEW r \in Slot, EndJob(r)
        PROVE  FALSE
    BY <2>2, <2>7 DEF EndJob, StaleRelease, PersistJobFails, MarkCompleted, FailTerminal, FailTransient,
          ReturnLate, MarkFailed, DeadLetter, ReturnToQueue, PC
  <2>8. ASSUME NEW r \in Slot, Finish(r)
        PROVE  FALSE
    BY <2>2, <2>8 DEF Finish, ReleaseLockAndDrain, ResubmitCheck, Resubmit, PC
  <2>9. ASSUME \/ \E j \in Job : Arrive(j) \/ Enqueue(j) \/ ReplayDeadLetter(j) \/ DelayElapses(j)
               \/ \E e \in processing : GraceElapses(e)
               \/ \E p \in PR : LeaseExpires(p)
               \/ \E k \in Token : TenantClaimExpires(k)
               \/ Recover
        PROVE  FALSE
    BY <2>3, <2>9 DEF Arrive, Enqueue, ReplayDeadLetter, DelayElapses, GraceElapses, LeaseExpires,
          TenantClaimExpires, Recover, RecoverSuperseded, RecoverGrace, RecoverOrphan, RecoverPending
  <2> QED
    BY <2>4, <2>5, <2>6, <2>7, <2>8, <2>9 DEF Next
<1> QED
  BY <1>2, <1>3

\* Only a fault of a worker that goes on raises the count of stalls.
LEMMA StallsRise ==
  ASSUME Next
  PROVE  stalls' = stalls \/ stalls' = stalls + 1
<1> USE DEF faultVars
<1>1. ASSUME NEW j \in Job, Arrive(j) \/ Enqueue(j) \/ ReplayDeadLetter(j) \/ DelayElapses(j)
      PROVE  stalls' = stalls
  BY <1>1 DEF Arrive, Enqueue, ReplayDeadLetter, DelayElapses
<1>2. ASSUME NEW s \in Slot, Dequeue(s)
      PROVE  stalls' = stalls
  BY <1>2 DEF Dequeue, DequeueEmpty, DequeueJob, DequeueBlocked, CheckDone, DropEntry, ClaimTenantFull,
        ClaimLease, ClaimPending, StampMeta
<1>3. ASSUME NEW s \in Slot, MarkRunning(s) \/ RenewLease(s) \/ PersistJob(s) \/ Finish(s) \/ Crash(s)
      PROVE  stalls' = stalls
  BY <1>3 DEF MarkRunning, RenewLease, PersistJob, Finish, ReleaseLockAndDrain, ResubmitCheck, Resubmit, Crash
<1>4. ASSUME NEW s \in Slot, EndJob(s)
      PROVE  stalls' = stalls
  BY <1>4 DEF EndJob, StaleRelease, PersistJobFails, MarkCompleted, FailTerminal, FailTransient, ReturnLate,
        MarkFailed, DeadLetter, ReturnToQueue
<1>5. ASSUME Recover
      PROVE  stalls' = stalls
  BY <1>5 DEF Recover, RecoverSuperseded, RecoverGrace, RecoverOrphan, RecoverPending
<1>6. ASSUME \/ \E e \in processing : GraceElapses(e)
             \/ \E p \in PR : LeaseExpires(p)
             \/ \E k \in Token : TenantClaimExpires(k)
      PROVE  stalls' = stalls \/ stalls' = stalls + 1
  BY <1>6 DEF GraceElapses, LeaseExpires, TenantClaimExpires, Unrenewed
<1> QED
  BY <1>1, <1>2, <1>3, <1>4, <1>5, <1>6 DEF Next

LEMMA LimitedStep ==
  ASSUME SlotInv, BackupMatches, Lock!OwnTokens, OwnerHoldsLease, LimitedCharged, Next
  PROVE  LimitedCharged'
<1> USE DEF listVars, dedupVars, tenantVars, recoveryVars, arrivalVars, faultVars
<1>0. SlotTyped /\ TypeOK /\ TenantTyped
  BY TypeParts DEF SlotInv
<1> SUFFICES ASSUME TenantLimit > 0, stalls' = 0,
                    NEW s \in Slot, Leased(s)', s \notin lost', ~ slot'[s].job.unlimited
             PROVE  ChargeHeld(s)'
  BY DEF LimitedCharged
<1> DEFINE k == slot[s].tok
<1>1. CASE ClaimLease(s)
  <2>1. /\ slot[s].pc # "idle" /\ slot[s].job \in Job /\ slot[s].tok \in Token
        /\ Charge(slot[s].job, slot[s].tok) /\ Goto(s, "stamp")
    BY <1>0, <1>1, BusySlot DEF ClaimLease
  <2>2. slot'[s].job = slot[s].job /\ slot'[s].tok = slot[s].tok
    BY <1>0, <2>1, GotoKeeps DEF PC
  <2>3. SweptClaims \in [Token -> Tenant \cup {NoTenant}]
    BY <1>0, SweptTypes
  <2>4. /\ claimTenant' = [SweptClaims EXCEPT ![slot[s].tok] = slot[s].job.tenant]
        /\ claimExpired' = SweptExpired \ {slot[s].tok}
    BY <2>1, <2>2 DEF Charge
  <2> QED
    BY <2>1, <2>2, <2>3, <2>4 DEF ChargeHeld
<1>2. CASE /\ Leased(s) /\ s \notin lost
           /\ slot'[s].job = slot[s].job /\ slot'[s].tok = slot[s].tok
  <2>1. /\ slot[s].pc # "idle" /\ slot[s].job \in Job /\ k \in Token /\ k # NoToken
        /\ inflight[slot[s].job.pr] = k /\ slot[s].job.tenant \in Tenant /\ slot[s].job.pr \in PR
    BY <1>0, <1>2, BusySlot, PayloadTypes, TokenAssumption DEF Leased, OwnerHoldsLease, Owns
  <2>2. \A r \in Slot : r # s /\ slot[r].pc \in {"check", "claim", "drop", "stamp", "held", "running"}
          => slot[r].tok # k
    BY <1>2 DEF Lock!OwnTokens, Lock!None, Claims, LockClaim, Leased
  <2>3. stalls = 0
    BY <1>0, StallsRise DEF TypeOK
  <2>4. claimTenant[k] = slot[s].job.tenant /\ claimTenant[k] # NoTenant /\ k \notin claimExpired
    BY <1>2, <2>1, <2>3, TenantAssumption DEF LimitedCharged, ChargeHeld
  <2>5. SUFFICES Untouched(k)
    BY <1>2, <2>4 DEF ChargeHeld, Untouched
  <2>6. ASSUME NEW j \in Job, Arrive(j) \/ Enqueue(j) \/ ReplayDeadLetter(j) \/ DelayElapses(j)
        PROVE  Untouched(k)
    BY <2>6 DEF Arrive, Enqueue, ReplayDeadLetter, DelayElapses, Untouched
  <2>7. ASSUME NEW r \in Slot, DequeueEmpty(r) \/ CheckDone(r) \/ DropEntry(r) \/ StampMeta(r)
                                 \/ MarkRunning(r) \/ PersistJobFails(r) \/ Finish(r) \/ Crash(r)
        PROVE  Untouched(k)
    BY <2>7 DEF DequeueEmpty, CheckDone, DropEntry, StampMeta, MarkRunning, PersistJobFails, Finish,
          ReleaseLockAndDrain, ResubmitCheck, Resubmit, Crash, Untouched
  <2>8. ASSUME NEW r \in Slot, DequeueJob(r) \/ DequeueBlocked(r) \/ ClaimTenantFull(r) \/ ClaimPending(r)
        PROVE  Untouched(k)
    <3>1. SweepTenantClaims
      BY <2>8 DEF DequeueJob, DequeueBlocked, ClaimTenantFull, ClaimPending
    <3> QED
      BY <1>0, <2>1, <2>4, <3>1, ChargeUntouched
  <2>9. ASSUME NEW r \in Slot, ClaimLease(r)
        PROVE  Untouched(k)
    <3>1. /\ slot[r].pc = "claim" /\ slot[r].job \in Job /\ slot[r].tok \in Token
          /\ Charge(slot[r].job, slot[r].tok)
      BY <1>0, <2>9, BusySlot DEF ClaimLease
    <3>2. slot[r].tok # k
      BY <1>2, <2>2, <3>1 DEF Leased
    <3> QED
      BY <1>0, <2>1, <2>4, <3>1, <3>2, ChargeUntouched
  <2>10. ASSUME NEW r \in Slot, RenewLease(r) \/ PersistJob(r)
         PROVE  Untouched(k)
    <3>1. /\ slot[r].job \in Job /\ slot[r].tok \in Token
          /\ RebindTenant(slot[r].job, slot[r].tok)
      BY <1>0, <2>10, BusySlot DEF RenewLease, PersistJob, Executing
    <3> QED
      BY <1>0, <2>1, <2>4, <3>1, ChargeUntouched
  <2>11. ASSUME NEW r \in Slot,
                \/ StaleRelease(r) \/ MarkCompleted(r) \/ FailTerminal(r) \/ FailTransient(r)
                \/ ReturnLate(r) \/ DeadLetter(r) \/ ReturnToQueue(r)
         PROVE  Untouched(k)
    <3>1. /\ ReleaseTenantClaim(slot[r].tok) /\ slot[r].pc \in {"held", "running"}
          /\ slot[r].tok \in Token
      BY <1>0, <2>11, BusySlot DEF StaleRelease, MarkCompleted, FailTerminal, FailTransient, ReturnLate,
            MarkFailed, DeadLetter, ReturnToQueue, ReleaseOwned, Executing
    <3>2. Leave(r) \/ \E pc \in {"drain", "retry", "lateDrain"} : Goto(r, pc)
      BY <2>11 DEF StaleRelease, MarkCompleted, FailTerminal, FailTransient, ReturnLate,
            MarkFailed, DeadLetter, ReturnToQueue
    <3>3. slot'[r].pc \in {"idle", "drain", "retry", "lateDrain"}
      BY <1>0, <3>1, <3>2, LeaveKeeps, GotoKeeps DEF PC, Idle
    <3>4. r # s
      BY <3>3 DEF Leased
    <3>5. slot[r].tok # k
      BY <2>2, <3>1, <3>4
    <3> QED
      BY <1>0, <2>1, <2>4, <3>1, <3>5, ChargeUntouched
  <2>12. ASSUME NEW e \in processing, RecoverSuperseded(e) \/ RecoverOrphan(e)
         PROVE  Untouched(k)
    <3>1. ReleaseTenantClaim(e.tok) /\ e.tok \in Token
      BY <1>0, <2>12 DEF RecoverSuperseded, RecoverOrphan, TypeOK, Entry
    <3>2. e.tok = k => e.job = slot[s].job
      BY <2>1 DEF BackupMatches
    <3>3. e.tok # k
      BY <2>1, <2>12, <3>2 DEF RecoverSuperseded, RecoverOrphan, LeaseFree
    <3> QED
      BY <1>0, <2>1, <2>4, <3>1, <3>3, ChargeUntouched
  <2>13. ASSUME \/ \E e \in processing : RecoverGrace(e) \/ GraceElapses(e)
                \/ \E p \in PR : RecoverPending(p) \/ LeaseExpires(p)
         PROVE  Untouched(k)
    BY <2>13 DEF RecoverGrace, GraceElapses, RecoverPending, LeaseExpires, Untouched
  <2>14. ASSUME NEW i \in Token, TenantClaimExpires(i)
         PROVE  Untouched(k)
    <3>1. s \in Renewers(k)
      BY <1>2, <2>1 DEF Renewers, Owns
    <3>2. i # k
      BY <2>3, <2>14, <3>1 DEF TenantClaimExpires, Unrenewed
    <3> QED
      BY <2>14, <3>2 DEF TenantClaimExpires, Untouched
  <2> QED
    BY <2>6, <2>7, <2>8, <2>9, <2>10, <2>11, <2>12, <2>13, <2>14 DEF Next, Dequeue, EndJob, Recover
<1> QED
  BY <1>1, <1>2, LeaseKept

\* The limited jobs of tenant t that run under a lease that did not run out.
LimitedOf(t) ==
  {s \in Slot : /\ Leased(s) /\ s \notin lost
                /\ slot[s].job.tenant = t /\ ~ slot[s].job.unlimited}

\* They are at most as many as the charges that the sweep leaves.
LEMMA LimitedCounted ==
  ASSUME TypeOK, Lock!OwnTokens, LimitedCharged, TenantAccounting,
         TenantLimit > 0, stalls = 0, NEW t \in Tenant
  PROVE  /\ IsFiniteSet(LimitedOf(t)) /\ Cardinality(LimitedOf(t)) \in Nat
         /\ SweptActive[t] \in Nat /\ Cardinality(LimitedOf(t)) <= SweptActive[t]
<1> DEFINE Left == {k \in Token : SweptClaims[k] = t}
           token == [s \in LimitedOf(t) |-> slot[s].tok]
<1>1. IsFiniteSet(Left) /\ SweptActive[t] = Cardinality(Left) /\ Cardinality(Left) \in Nat
  BY SweptCounts, TokenAssumption, FS_Subset, FS_CardinalityType
<1>2. token \in [LimitedOf(t) -> Left]
  <2> SUFFICES ASSUME NEW s \in LimitedOf(t)
               PROVE  slot[s].tok \in Left
    OBVIOUS
  <2>1. slot[s].tok \in Token /\ claimTenant[slot[s].tok] = t /\ slot[s].tok \notin claimExpired
    BY TypeParts, BusySlot DEF LimitedOf, LimitedCharged, ChargeHeld, Leased
  <2> QED
    BY <2>1 DEF SweptClaims
<1>3. \A s, r \in LimitedOf(t) : token[s] = token[r] => s = r
  BY DEF LimitedOf, Lock!OwnTokens, Lock!None, Claims, LockClaim, Leased
<1>4. token \in Injection(LimitedOf(t), Left)
  <2> HIDE DEF token, Left
  <2> QED
    BY <1>2, <1>3 DEF Injection, IsInjective
<1>5. IsFiniteSet(LimitedOf(t)) /\ Cardinality(LimitedOf(t)) <= Cardinality(Left)
  <2> HIDE DEF token, Left
  <2> QED
    BY <1>1, <1>4, FS_Injection
<1> QED
  BY <1>1, <1>5, FS_CardinalityType

LEMMA CeilingStep ==
  ASSUME SlotInv, Lock!OwnTokens, LimitedCharged, TenantAccounting, TenantCeiling, Next
  PROVE  TenantCeiling'
<1>0. TypeOK /\ SlotTyped
  BY TypeParts DEF SlotInv
<1> SUFFICES ASSUME TenantLimit > 0, stalls' = 0, NEW t \in Tenant
             PROVE  Cardinality(LimitedOf(t)') <= TenantLimit
  BY DEF TenantCeiling, LimitedOf
<1>1. stalls = 0
  BY <1>0, StallsRise DEF TypeOK
<1>2. /\ IsFiniteSet(LimitedOf(t)) /\ Cardinality(LimitedOf(t)) \in Nat
      /\ SweptActive[t] \in Nat /\ Cardinality(LimitedOf(t)) <= SweptActive[t]
  BY <1>0, <1>1, LimitedCounted
<1>3. Cardinality(LimitedOf(t)) <= TenantLimit
  BY <1>1 DEF TenantCeiling, LimitedOf
<1>4. ASSUME NEW s \in Slot, ClaimLease(s), s \in LimitedOf(t)'
      PROVE  Cardinality(LimitedOf(t)') <= TenantLimit
  <2>1. /\ slot[s].pc = "claim" /\ HasTenantCapacity(slot[s].job) /\ Goto(s, "stamp")
    BY <1>4 DEF ClaimLease, HasRoomAtClaim
  <2>2. slot'[s].job = slot[s].job
    BY <1>0, <2>1, GotoKeeps DEF PC
  <2>3. slot[s].job.tenant = t /\ ~ slot[s].job.unlimited
    BY <1>4, <2>2 DEF LimitedOf
  <2>4. SweptActive[t] < TenantLimit
    BY <2>1, <2>3 DEF HasTenantCapacity
  <2>5. LimitedOf(t)' \subseteq LimitedOf(t) \cup {s}
    <3> SUFFICES ASSUME NEW r \in LimitedOf(t)', r # s
                 PROVE  r \in LimitedOf(t)
      OBVIOUS
    <3>1. slot'[r] = slot[r] /\ lost' = lost /\ r \in Slot
      BY <1>0, <1>4, <2>1, GotoKeeps DEF ClaimLease, LimitedOf, PC
    <3> QED
      BY <3>1 DEF LimitedOf, Leased
  <2>6. IsFiniteSet(LimitedOf(t) \cup {s}) /\ Cardinality(LimitedOf(t) \cup {s}) <= Cardinality(LimitedOf(t)) + 1
    <3> DEFINE L == LimitedOf(t)
    <3>1. IsFiniteSet(L) /\ Cardinality(L) \in Nat
      BY <1>2
    <3> HIDE DEF L
    <3>2. IsFiniteSet(L \cup {s}) /\ Cardinality(L \cup {s}) <= Cardinality(L) + 1
      <4>1. /\ IsFiniteSet(L \cup {s})
            /\ Cardinality(L \cup {s}) = IF s \in L THEN Cardinality(L) ELSE Cardinality(L) + 1
        BY <3>1, FS_AddElement, Zenon
      <4> QED
        BY <3>1, <4>1
    <3> QED
      BY <3>2 DEF L
  <2>7. Cardinality(LimitedOf(t)') <= Cardinality(LimitedOf(t) \cup {s})
    BY <2>5, <2>6, FS_Subset
  <2>8. IsFiniteSet(LimitedOf(t)') /\ Cardinality(LimitedOf(t)') \in Nat
        /\ Cardinality(LimitedOf(t) \cup {s}) \in Nat
    BY <2>5, <2>6, FS_Subset, FS_CardinalityType
  <2> QED
    BY <1>2, <2>4, <2>6, <2>7, <2>8, TenantAssumption
<1>5. CASE \A s \in Slot : ClaimLease(s) => s \notin LimitedOf(t)'
  <2>1. LimitedOf(t)' \subseteq LimitedOf(t)
    <3> SUFFICES ASSUME NEW s \in LimitedOf(t)'
                 PROVE  s \in LimitedOf(t)
      OBVIOUS
    <3>1. s \in Slot /\ Leased(s)' /\ s \notin lost' /\ slot'[s].job.tenant = t /\ ~ slot'[s].job.unlimited
      BY DEF LimitedOf
    <3>2. /\ Leased(s) /\ s \notin lost
          /\ slot'[s].job = slot[s].job
      BY <1>5, <3>1, LeaseKept
    <3> QED
      BY <3>1, <3>2 DEF LimitedOf
  <2>2. Cardinality(LimitedOf(t)') <= Cardinality(LimitedOf(t)) /\ IsFiniteSet(LimitedOf(t)')
    BY <1>2, <2>1, FS_Subset
  <2>3. Cardinality(LimitedOf(t)') \in Nat
    BY <2>2, FS_CardinalityType
  <2> QED
    BY <1>2, <1>3, <2>2, <2>3, TenantAssumption
<1> QED
  BY <1>4, <1>5

\* As long as no lease or charge ran out under its worker, the limited jobs of
\* a tenant that run at a time are within its ceiling, although the ceiling is
\* read in one call and the charge is swept, released and rebound in others.
THEOREM CeilingHeld == Spec => []TenantCeiling
<1> DEFINE Inv == BackupMatches /\ LimitedCharged /\ TenantCeiling
<1>1. Init => Inv
  <2>1. Init => BackupMatches /\ LimitedCharged
    BY DEF Init, BackupMatches, LimitedCharged, Leased, Idle
  <2>2. Init => TenantCeiling
    <3> SUFFICES ASSUME Init, NEW t \in Tenant
                 PROVE  Cardinality(LimitedOf(t)) <= TenantLimit
      BY DEF TenantCeiling, LimitedOf
    <3>1. LimitedOf(t) = {}
      BY DEF Init, LimitedOf, Leased, Idle
    <3> QED
      BY <3>1, FS_EmptySet, TenantAssumption
  <2> QED
    BY <2>1, <2>2
<1>2. SlotInv /\ Lock!OwnTokens /\ OwnerHoldsLease /\ TenantAccounting /\ Inv /\ [Next]_vars => Inv'
  <2> SUFFICES ASSUME SlotInv, Lock!OwnTokens, OwnerHoldsLease, TenantAccounting, Inv, [Next]_vars
               PROVE  Inv'
    OBVIOUS
  <2>1. CASE Next
    BY <2>1, BackupStep, LimitedStep, CeilingStep DEF SlotInv
  <2>2. CASE UNCHANGED vars
    BY <2>2 DEF vars, tenantVars, faultVars, BackupMatches, LimitedCharged, ChargeHeld, TenantCeiling, Leased
  <2> QED
    BY <2>1, <2>2
<1>3. Spec => []SlotInv
  BY SlotInvInit, SlotInvStep, PTL DEF Spec
<1>4. Spec => []Lock!OwnTokens
  BY LockSafety, PTL
<1>5. Spec => []OwnerHoldsLease
  BY OwnerKeepsLease
<1>6. Spec => []TenantAccounting
  BY TenantCounterExact
<1>7. Inv => TenantCeiling
  OBVIOUS
<1> QED
  <2> HIDE DEF Inv
  <2> QED
    BY <1>1, <1>2, <1>3, <1>4, <1>5, <1>6, <1>7, PTL DEF Spec

-----------------------------------------------------------------------------
(* Where an accepted job goes.                                             *)

\* The places of IsLive, by name.
InQueue(k) == \E i \in 1..Len(queue) : KeyOf(queue[i]) = k
InPending(k) == \E p \in PR : \E i \in 1..Len(pending[p]) : KeyOf(pending[p][i]) = k
InBackup(k) == \E e \in processing : KeyOf(e.job) = k
InSlot(k) == \E s \in Slot : slot[s].pc # "idle" /\ KeyOf(slot[s].job) = k

\* Tokens are the slots' own also after the claim has ended.
TokensDistinct ==
  \A s, r \in Slot : s # r /\ slot[s].pc # "idle" /\ slot[r].pc # "idle" => slot[s].tok # slot[r].tok

\* Before its claim and after its end a slot holds no lease of its job.
OwnsOnlyLeased == \A s \in Slot : slot[s].pc # "idle" /\ ~ Leased(s) => ~ Owns(s)

LEMMA TokensStep ==
  ASSUME SlotInv, TokensDistinct, Next
  PROVE  TokensDistinct'
<1>0. SlotTyped /\ TypeOK
  BY TypeParts DEF SlotInv
<1>1. CASE UNCHANGED slot
  BY <1>1 DEF TokensDistinct
<1>2. ASSUME NEW r \in Slot, Moves(r) \/ Leave(r)
      PROVE  TokensDistinct'
  <2>1. \A s \in Slot : slot'[s].pc # "idle" => slot[s].pc # "idle" /\ slot'[s].tok = slot[s].tok
    BY <1>0, <1>2, GotoKeeps, LeaveKeeps DEF Moves, Idle
  <2> QED
    BY <2>1 DEF TokensDistinct
<1>3. ASSUME NEW r \in Slot, Takes(r)
      PROVE  TokensDistinct'
  <2>1. PICK j \in Job, k \in Token :
          ~ InUse(k) /\ slot' = [slot EXCEPT ![r] = [pc |-> "check", job |-> j, tok |-> k]]
    BY <1>3 DEF Takes
  <2>2. /\ \A s \in Slot \ {r} : slot'[s] = slot[s] /\ slot[s].tok # k
        /\ slot'[r].tok = k
    BY <1>0, <2>1 DEF SlotTyped, InUse
  <2> QED
    BY <2>2 DEF TokensDistinct
<1> QED
  BY <1>0, <1>1, <1>2, <1>3, SlotChanges DEF Loses

\* A step gives a lease to a claim only.
LEMMA InflightSteps ==
  ASSUME TypeOK, Next, NEW p \in PR
  PROVE  \/ inflight'[p] = inflight[p] \/ inflight'[p] = NoToken
         \/ \E r \in Slot : ClaimLease(r) /\ inflight'[p] = slot[r].tok
<1> DEFINE Fine == inflight'[p] = inflight[p] \/ inflight'[p] = NoToken
<1>0. inflight \in [PR -> Token \cup {NoToken}]
  BY DEF TypeOK
<1>1. ASSUME NEW j \in Job, Arrive(j) \/ Enqueue(j) \/ ReplayDeadLetter(j) \/ DelayElapses(j)
      PROVE  Fine
  BY <1>1 DEF Arrive, Enqueue, ReplayDeadLetter, DelayElapses
<1>2. ASSUME NEW s \in Slot, Dequeue(s), ~ ClaimLease(s)
      PROVE  Fine
  BY <1>2 DEF Dequeue, DequeueEmpty, DequeueJob, DequeueBlocked, CheckDone, DropEntry, ClaimTenantFull,
        ClaimPending, StampMeta
<1>3. ASSUME NEW s \in Slot, ClaimLease(s)
      PROVE  Fine \/ inflight'[p] = slot[s].tok
  BY <1>0, <1>3 DEF ClaimLease
<1>4. ASSUME NEW s \in Slot, MarkRunning(s) \/ RenewLease(s) \/ PersistJob(s) \/ Finish(s) \/ Crash(s)
      PROVE  Fine
  BY <1>4 DEF MarkRunning, RenewLease, PersistJob, Finish, ReleaseLockAndDrain, ResubmitCheck, Resubmit, Crash
<1>5. ASSUME NEW s \in Slot, ReleaseOwned(s) \/ StaleRelease(s) \/ PersistJobFails(s)
      PROVE  Fine
  BY <1>0, <1>5 DEF ReleaseOwned, StaleRelease, PersistJobFails
<1>6. ASSUME NEW s \in Slot, EndJob(s)
      PROVE  ReleaseOwned(s) \/ StaleRelease(s) \/ PersistJobFails(s)
  BY <1>6 DEF EndJob, MarkCompleted, FailTerminal, FailTransient, ReturnLate, MarkFailed, DeadLetter, ReturnToQueue
<1>7. ASSUME Recover
      PROVE  Fine
  BY <1>7 DEF Recover, RecoverSuperseded, RecoverGrace, RecoverOrphan, RecoverPending
<1>8. ASSUME \/ \E e \in processing : GraceElapses(e)
             \/ \E r \in PR : LeaseExpires(r)
             \/ \E k \in Token : TenantClaimExpires(k)
      PROVE  Fine
  BY <1>0, <1>8 DEF GraceElapses, LeaseExpires, TenantClaimExpires
<1> QED
  BY <1>1, <1>2, <1>3, <1>4, <1>5, <1>6, <1>7, <1>8 DEF Next

\* A slot that ends its claim and goes on has given the lease back.
LEMMA ClaimEnds ==
  ASSUME SlotInv, Next, NEW s \in Slot, Leased(s), slot'[s].pc # "idle", ~ Leased(s)'
  PROVE  inflight'[slot[s].job.pr] = NoToken /\ slot'[s].job = slot[s].job
<1> USE DEF listVars, dedupVars, tenantVars, recoveryVars, arrivalVars, faultVars
<1>0. SlotTyped /\ TypeOK /\ slot[s].pc \in {"stamp", "held", "running"} /\ slot[s].job.pr \in PR
  BY TypeParts, BusySlot, PayloadTypes DEF SlotInv, Leased
<1>1. slot'[s].pc \notin {"stamp", "held", "running"}
  BY DEF Leased
<1>2. ~ UNCHANGED slot
  BY <1>0, <1>1
<1>3. ASSUME NEW r \in Slot, (\E pc \in PC : Goto(r, pc)) \/ Leave(r) \/ (\E x : slot' = [slot EXCEPT ![r] = x])
      PROVE  r = s
  BY <1>0, <1>1, <1>3 DEF Goto, Leave, SlotTyped
<1>4. ASSUME NEW r \in Slot, Dequeue(r)
      PROVE  FALSE
  <2>1. CASE DequeueEmpty(r) \/ DequeueBlocked(r)
    BY <1>2, <2>1 DEF DequeueEmpty, DequeueBlocked
  <2>2. CASE DequeueJob(r)
    BY <1>0, <1>3, <2>2 DEF DequeueJob
  <2>3. CASE CheckDone(r) \/ ClaimLease(r) \/ ClaimPending(r)
    BY <1>0, <1>3, <2>3 DEF CheckDone, ClaimLease, ClaimPending, PC
  <2>4. CASE StampMeta(r)
    BY <1>0, <1>1, <1>3, <2>4, GotoKeeps DEF StampMeta, PC
  <2>5. CASE DropEntry(r) \/ ClaimTenantFull(r)
    BY <1>0, <1>3, <2>5 DEF DropEntry, ClaimTenantFull
  <2> QED
    BY <1>4, <2>1, <2>2, <2>3, <2>4, <2>5 DEF Dequeue
<1>5. ASSUME NEW r \in Slot, RenewLease(r) \/ PersistJob(r)
      PROVE  FALSE
  BY <1>2, <1>5 DEF RenewLease, PersistJob
<1>6. ASSUME NEW r \in Slot, MarkRunning(r)
      PROVE  FALSE
  BY <1>0, <1>1, <1>3, <1>6, GotoKeeps DEF MarkRunning, PC
<1>7. ASSUME NEW r \in Slot, StaleRelease(r) \/ PersistJobFails(r) \/ Crash(r)
      PROVE  FALSE
  BY <1>0, <1>3, <1>7, LeaveKeeps DEF StaleRelease, PersistJobFails, Crash, Idle
<1>8. ASSUME NEW r \in Slot, Finish(r)
      PROVE  FALSE
  BY <1>0, <1>3, <1>8 DEF Finish, ReleaseLockAndDrain, ResubmitCheck, Resubmit, PC
<1>9. ASSUME NEW r \in Slot, MarkCompleted(r) \/ FailTerminal(r) \/ FailTransient(r) \/ ReturnLate(r)
                               \/ DeadLetter(r) \/ ReturnToQueue(r)
      PROVE  inflight'[slot[s].job.pr] = NoToken /\ slot'[s].job = slot[s].job
  <2>1. ReleaseOwned(r)
    BY <1>9 DEF MarkCompleted, FailTerminal, FailTransient, ReturnLate, MarkFailed, DeadLetter, ReturnToQueue
  <2>2. Leave(r) \/ \E pc \in {"drain", "retry", "lateDrain"} : Goto(r, pc)
    BY <1>9 DEF MarkCompleted, FailTerminal, FailTransient, ReturnLate, MarkFailed, DeadLetter, ReturnToQueue
  <2>3. r = s
    BY <1>3, <2>2 DEF PC
  <2>4. \E pc \in {"drain", "retry", "lateDrain"} : Goto(s, pc)
    BY <1>0, <2>2, <2>3, LeaveKeeps DEF Idle
  <2> QED
    BY <1>0, <2>1, <2>3, <2>4, GotoKeeps DEF ReleaseOwned, TypeOK, PC
<1>10. ASSUME \/ \E j \in Job : Arrive(j) \/ Enqueue(j) \/ ReplayDeadLetter(j) \/ DelayElapses(j)
              \/ \E e \in processing : GraceElapses(e)
              \/ \E p \in PR : LeaseExpires(p)
              \/ \E k \in Token : TenantClaimExpires(k)
              \/ Recover
       PROVE  FALSE
  BY <1>2, <1>10 DEF Arrive, Enqueue, ReplayDeadLetter, DelayElapses, GraceElapses, LeaseExpires,
        TenantClaimExpires, Recover, RecoverSuperseded, RecoverGrace, RecoverOrphan, RecoverPending
<1> QED
  BY <1>4, <1>5, <1>6, <1>7, <1>8, <1>9, <1>10 DEF Next, EndJob

LEMMA OwnsStep ==
  ASSUME SlotInv, TokensDistinct, OwnsOnlyLeased, Next
  PROVE  OwnsOnlyLeased'
<1>0. SlotTyped /\ TypeOK
  BY TypeParts DEF SlotInv
<1> SUFFICES ASSUME NEW s \in Slot, slot'[s].pc # "idle", ~ Leased(s)', Owns(s)'
             PROVE  FALSE
  BY DEF OwnsOnlyLeased
<1>1. slot'[s].job.pr \in PR /\ slot'[s].tok # NoToken
  <2>1. SlotInv'
    BY SlotInvStep
  <2>2. slot'[s].job \in Job /\ slot'[s].tok \in Token
    BY <2>1 DEF SlotInv, TypeOK, Idle
  <2> QED
    BY <2>2, PayloadTypes, TokenAssumption
<1>2. inflight'[slot'[s].job.pr] = slot'[s].tok
  BY DEF Owns
<1>3. CASE Leased(s)
  BY <1>1, <1>2, <1>3, ClaimEnds
<1>4. CASE ~ Leased(s) /\ slot[s].pc # "idle"
  <2>1. slot'[s].job = slot[s].job /\ slot'[s].tok = slot[s].tok
    <3>1. ASSUME NEW r \in Slot, Moves(r) \/ Leave(r) \/ Takes(r)
          PROVE  slot'[s].job = slot[s].job /\ slot'[s].tok = slot[s].tok
      BY <1>0, <1>4, <3>1, GotoKeeps, LeaveKeeps DEF Moves, Takes, Idle, SlotTyped
    <3> QED
      BY <1>0, <3>1, SlotChanges DEF Loses
  <2>2. inflight[slot[s].job.pr] # slot[s].tok
    BY <1>4 DEF OwnsOnlyLeased, Owns
  <2>3. PICK r \in Slot : ClaimLease(r) /\ inflight'[slot[s].job.pr] = slot[r].tok
    BY <1>0, <1>1, <1>2, <2>1, <2>2, InflightSteps
  <2>4. slot[r].pc = "claim" /\ slot'[r].pc = "stamp"
    BY <1>0, <2>3, GotoKeeps DEF ClaimLease, PC
  <2>5. r # s
    BY <2>4 DEF Leased
  <2> QED
    BY <1>2, <1>4, <2>1, <2>3, <2>4, <2>5 DEF TokensDistinct
<1>5. CASE slot[s].pc = "idle"
  <2>1. Takes(s)
    <3>1. ASSUME NEW r \in Slot, Moves(r) \/ Leave(r)
          PROVE  FALSE
      BY <1>0, <1>5, <3>1, GotoKeeps, LeaveKeeps DEF Moves, Idle
    <3>2. ASSUME NEW r \in Slot, Takes(r)
          PROVE  r = s
      BY <1>0, <1>5, <3>2 DEF Takes, SlotTyped
    <3> QED
      BY <1>0, <1>5, <3>1, <3>2, SlotChanges DEF Loses
  <2>2. PICK j \in Job, k \in Token :
          ~ InUse(k) /\ slot' = [slot EXCEPT ![s] = [pc |-> "check", job |-> j, tok |-> k]]
    BY <2>1 DEF Takes
  <2>3. slot'[s].tok = k /\ \A p \in PR : inflight[p] # k
    BY <1>0, <2>2 DEF SlotTyped, InUse
  <2>4. PICK r \in Slot : ClaimLease(r)
    BY <1>0, <1>1, <1>2, <2>3, InflightSteps
  <2>5. slot[r].pc = "claim" /\ slot'[r].pc = "stamp"
    BY <1>0, <2>4, GotoKeeps DEF ClaimLease, PC
  <2> QED
    BY <1>0, <1>5, <2>2, <2>5 DEF SlotTyped
<1> QED
  BY <1>3, <1>4, <1>5

\* What is in a list stays in what is made of it.
LEMMA AppendHas ==
  ASSUME NEW list \in Seq(Job), NEW x \in Job
  PROVE  /\ \A i \in 1..Len(list) : \E n \in 1..Len(Append(list, x)) : Append(list, x)[n] = list[i]
         /\ \E n \in 1..Len(Append(list, x)) : Append(list, x)[n] = x
<1>1. Len(list) \in Nat
  OBVIOUS
<1> QED
  BY <1>1, AppendProperties

LEMMA PrependHas ==
  ASSUME NEW list \in Seq(Job), NEW x \in Job
  PROVE  /\ \A i \in 1..Len(list) : \E n \in 1..Len(<<x>> \o list) : (<<x>> \o list)[n] = list[i]
         /\ \E n \in 1..Len(<<x>> \o list) : (<<x>> \o list)[n] = x
<1>1. Len(list) \in Nat /\ <<x>> \in Seq(Job) /\ Len(<<x>>) = 1 /\ <<x>>[1] = x
  OBVIOUS
<1>2. /\ Len(<<x>> \o list) = 1 + Len(list)
      /\ \A n \in 1..(1 + Len(list)) : (<<x>> \o list)[n] = IF n <= 1 THEN <<x>>[n] ELSE list[n - 1]
  BY <1>1, ConcatProperties
<1>3. ASSUME NEW i \in 1..Len(list)
      PROVE  i + 1 \in 1..(1 + Len(list)) /\ (<<x>> \o list)[i + 1] = list[i]
  <2>1. i + 1 \in 1..(1 + Len(list)) /\ ~ (i + 1 <= 1) /\ (i + 1) - 1 = i
    BY <1>1
  <2> QED
    BY <1>2, <2>1
<1>4. 1 \in 1..(1 + Len(list)) /\ (<<x>> \o list)[1] = x
  BY <1>1, <1>2
<1> QED
  BY <1>2, <1>3, <1>4

\* Two stretches of a list, one after the other, have what each of them has.
LEMMA StretchesHave ==
  ASSUME NEW list \in Seq(Job), NEW a \in Int, NEW b \in Int, NEW c \in Int, NEW d \in Int,
         1 <= a, b <= Len(list), 1 <= c, d <= Len(list), NEW i \in 1..Len(list),
         (a <= i /\ i <= b) \/ (c <= i /\ i <= d)
  PROVE  Contains(SubSeq(list, a, b) \o SubSeq(list, c, d), list[i])
<1> DEFINE s == SubSeq(list, a, b)
           t == SubSeq(list, c, d)
<1>1. /\ s \in Seq(Job) /\ Len(s) = (IF a <= b THEN b - a + 1 ELSE 0)
      /\ \A n \in 1..(b - a + 1) : s[n] = list[a + n - 1]
  <2>1. \A n \in a..b : list[n] \in Job
    BY ElementOfSeq
  <2> QED
    BY <2>1, SubSeqProperties
<1>2. /\ t \in Seq(Job) /\ Len(t) = (IF c <= d THEN d - c + 1 ELSE 0)
      /\ \A n \in 1..(d - c + 1) : t[n] = list[c + n - 1]
  <2>1. \A n \in c..d : list[n] \in Job
    BY ElementOfSeq
  <2> QED
    BY <2>1, SubSeqProperties
<1> HIDE DEF s, t
<1>3. /\ Len(s \o t) = Len(s) + Len(t) /\ Len(s) \in Nat /\ Len(t) \in Nat
      /\ \A n \in 1..(Len(s) + Len(t)) : (s \o t)[n] = IF n <= Len(s) THEN s[n] ELSE t[n - Len(s)]
  <2>1. Len(s) \in Nat /\ Len(t) \in Nat /\ s \in Seq(Job) /\ t \in Seq(Job)
    BY <1>1, <1>2
  <2>2. Len(s \o t) = Len(s) + Len(t)
    BY <2>1, ConcatProperties
  <2>3. \A n \in 1..(Len(s) + Len(t)) : (s \o t)[n] = IF n <= Len(s) THEN s[n] ELSE t[n - Len(s)]
    BY <2>1, ConcatProperties
  <2> QED
    BY <2>1, <2>2, <2>3
<1>4. ASSUME a <= i, i <= b
      PROVE  \E n \in 1..Len(s \o t) : (s \o t)[n] = list[i]
  <2> DEFINE m == i - a + 1
  <2>1. m \in 1..(b - a + 1) /\ a + m - 1 = i /\ m <= Len(s) /\ m \in 1..(Len(s) + Len(t))
    BY <1>1, <1>3, <1>4
  <2>2. s[m] = list[i]
    BY <1>1, <2>1
  <2> HIDE DEF m
  <2> QED
    BY <1>3, <2>1, <2>2
<1>5. ASSUME c <= i, i <= d
      PROVE  \E n \in 1..Len(s \o t) : (s \o t)[n] = list[i]
  <2> DEFINE m == i - c + 1
             n == Len(s) + m
  <2>1. /\ m \in 1..(d - c + 1) /\ c + m - 1 = i /\ m \in 1..Len(t)
    BY <1>2, <1>3, <1>5
  <2>2. t[m] = list[i]
    BY <1>2, <2>1
  <2>3. n \in 1..(Len(s) + Len(t)) /\ ~ (n <= Len(s)) /\ n - Len(s) = m
    <3> HIDE DEF m
    <3> QED
      BY <1>3, <2>1
  <2> HIDE DEF m, n
  <2>4. (s \o t)[n] = list[i]
    BY <1>3, <2>2, <2>3
  <2> QED
    BY <1>3, <2>3, <2>4
<1>6. \E n \in 1..Len(s \o t) : (s \o t)[n] = list[i]
  BY <1>4, <1>5
<1> QED
  BY <1>6 DEF Contains, s, t

\* A ready job stays in the queue until a worker takes it.
LEMMA QueueKept ==
  ASSUME SlotInv, Next, NEW k, InQueue(k)
  PROVE  InQueue(k)' \/ InBackup(k)'
<1> USE DEF listVars, recoveryVars
<1>0. SlotTyped /\ TypeOK /\ queue \in Seq(Job) /\ Len(queue) \in Nat /\ ListsTyped /\ RetriesLeft
  BY TypeParts DEF SlotInv, TypeOK
<1>1. PICK i \in 1..Len(queue) : KeyOf(queue[i]) = k
  BY DEF InQueue
<1>2. ASSUME UNCHANGED queue
      PROVE  InQueue(k)'
  BY <1>1, <1>2 DEF InQueue
<1>3. ASSUME NEW x \in Job, queue' = Append(queue, x) \/ queue' = <<x>> \o queue
      PROVE  InQueue(k)'
  <2>1. \E n \in 1..Len(queue') : queue'[n] = queue[i]
    <3>1. CASE queue' = Append(queue, x)
      <4>1. \E n \in 1..Len(Append(queue, x)) : Append(queue, x)[n] = queue[i]
        BY <1>0, AppendHas
      <4> QED
        BY <3>1, <4>1
    <3>2. CASE queue' = <<x>> \o queue
      <4>1. \E n \in 1..Len(<<x>> \o queue) : (<<x>> \o queue)[n] = queue[i]
        BY <1>0, PrependHas
      <4> QED
        BY <3>2, <4>1
    <3> QED
      BY <1>3, <3>1, <3>2
  <2> QED
    BY <1>1, <2>1 DEF InQueue
<1>4. ASSUME NEW p \in PR, DrainPending(p)
      PROVE  InQueue(k)'
  <2>1. pending[p] # <<>> => Head(pending[p]) \in Job
    BY <1>0, HeadTailProperties DEF ListsTyped
  <2> QED
    BY <1>2, <1>3, <1>4, <2>1 DEF DrainPending
<1>5. ASSUME NEW j \in Job, EnqueueScript(j)
      PROVE  InQueue(k)'
  BY <1>2, <1>3, <1>5 DEF EnqueueScript
<1>6. ASSUME NEW j \in Job, Arrive(j) \/ Enqueue(j) \/ ReplayDeadLetter(j) \/ DelayElapses(j)
      PROVE  InQueue(k)'
  BY <1>2, <1>3, <1>5, <1>6 DEF Arrive, Enqueue, ReplayDeadLetter, DelayElapses
<1>7. ASSUME NEW s \in Slot, DequeueJob(s)
      PROVE  InQueue(k)' \/ InBackup(k)'
  <2>1. Selected \in 1..Len(queue)
    BY <1>0, <1>7, SelectedIsEligible DEF DequeueJob
  <2>2. CASE i = Selected
    <3>1. PICK t \in Token : processing' = processing \cup {[tok |-> t, job |-> queue[Selected], meta |-> "none"]}
      BY <1>7 DEF DequeueJob
    <3> DEFINE e == [tok |-> t, job |-> queue[Selected], meta |-> "none"]
    <3>2. e \in processing' /\ e.job = queue[i]
      BY <2>2, <3>1
    <3> QED
      BY <1>1, <3>2 DEF InBackup
  <2>3. CASE i # Selected
    <3>1. queue' = SubSeq(queue, 1, Selected - 1) \o SubSeq(queue, Selected + 1, Len(queue))
      BY <1>7 DEF DequeueJob, RemoveAt
    <3>2. \E n \in 1..Len(queue') : queue'[n] = queue[i]
      <4>1. /\ Selected - 1 \in Int /\ Selected + 1 \in Int /\ Len(queue) \in Int /\ 1 <= Selected + 1
            /\ Selected - 1 <= Len(queue) /\ Len(queue) <= Len(queue)
            /\ (1 <= i /\ i <= Selected - 1) \/ (Selected + 1 <= i /\ i <= Len(queue))
        BY <1>0, <2>1, <2>3
      <4>2. Contains(SubSeq(queue, 1, Selected - 1) \o SubSeq(queue, Selected + 1, Len(queue)), queue[i])
        <5> DEFINE b == Selected - 1
                   c == Selected + 1
                   d == Len(queue)
        <5> HIDE DEF b, c, d
        <5>1. /\ b \in Int /\ c \in Int /\ d \in Int /\ 1 <= c /\ b <= Len(queue) /\ d <= Len(queue)
              /\ (1 <= i /\ i <= b) \/ (c <= i /\ i <= d)
          BY <4>1 DEF b, c, d
        <5>2. Contains(SubSeq(queue, 1, b) \o SubSeq(queue, c, d), queue[i])
          BY <1>0, <5>1, StretchesHave
        <5> QED
          BY <5>2 DEF b, c, d
      <4> QED
        BY <3>1, <4>2 DEF Contains
    <3> QED
      BY <1>1, <3>2 DEF InQueue
  <2> QED
    BY <2>2, <2>3
<1>8. ASSUME NEW s \in Slot, DequeueBlocked(s)
      PROVE  InQueue(k)'
  <2>1. CASE queue' = SubSeq(queue, Max(Inspected) + 1, Len(queue)) \o SubSeq(queue, 1, Max(Inspected))
    <3>1. Max(Inspected) \in 1..Len(queue)
      <4>1. Inspected \subseteq 1..Len(queue)
        BY <1>0, WindowAssumption DEF Inspected
      <4>2. Len(queue) # 0
        BY <1>0, <1>8, EmptySeq DEF DequeueBlocked
      <4>3. 1 \in Inspected
        BY <1>0, <4>2, WindowAssumption DEF Inspected
      <4> QED
        BY <1>0, <4>1, <4>3, MaxInSet
    <3>2. \E n \in 1..Len(queue') : queue'[n] = queue[i]
      <4> DEFINE w == Max(Inspected)
                 c == w + 1
                 d == Len(queue)
      <4>1. w \in 1..Len(queue) /\ queue' = SubSeq(queue, c, d) \o SubSeq(queue, 1, w)
        BY <2>1, <3>1
      <4> HIDE DEF w
      <4>2. /\ w \in Int /\ c \in Int /\ d \in Int /\ 1 <= c /\ w <= Len(queue) /\ d <= Len(queue)
            /\ (c <= i /\ i <= d) \/ (1 <= i /\ i <= w)
        BY <1>0, <4>1
      <4> HIDE DEF c, d
      <4>3. Contains(SubSeq(queue, c, d) \o SubSeq(queue, 1, w), queue[i])
        BY <1>0, <4>2, StretchesHave
      <4> QED
        BY <4>1, <4>3 DEF Contains
    <3> QED
      BY <1>1, <3>2 DEF InQueue
  <2> QED
    BY <1>2, <1>8, <2>1 DEF DequeueBlocked
<1>9. ASSUME NEW s \in Slot, ClaimTenantFull(s)
      PROVE  InQueue(k)'
  BY <1>0, <1>3, <1>9, BusySlot DEF ClaimTenantFull
<1>10. ASSUME NEW s \in Slot, DequeueEmpty(s) \/ CheckDone(s) \/ DropEntry(s) \/ ClaimLease(s) \/ ClaimPending(s)
                                \/ StampMeta(s) \/ MarkRunning(s) \/ RenewLease(s) \/ PersistJob(s) \/ Crash(s)
       PROVE  UNCHANGED queue
  BY <1>10 DEF DequeueEmpty, CheckDone, DropEntry, ClaimLease, ClaimPending, StampMeta, MarkRunning,
        RenewLease, PersistJob, Crash
<1>11. ASSUME NEW s \in Slot, StaleRelease(s) \/ PersistJobFails(s) \/ MarkCompleted(s) \/ FailTerminal(s)
                                \/ FailTransient(s) \/ ReturnLate(s) \/ DeadLetter(s)
       PROVE  UNCHANGED queue
  BY <1>11 DEF StaleRelease, PersistJobFails, MarkCompleted, FailTerminal, FailTransient, ReturnLate,
        MarkFailed, DeadLetter
<1>12. ASSUME NEW s \in Slot, ReturnToQueue(s)
       PROVE  InQueue(k)'
  <2>1. slot[s].job \in Job /\ slot[s].job.pr \in PR
    BY <1>0, <1>12, BusySlot, PayloadTypes DEF ReturnToQueue, ReleaseOwned, Executing
  <2>2. DrainPending(slot[s].job.pr) \/ queue' = <<slot[s].job>> \o queue
    BY <1>12 DEF ReturnToQueue, DrainPending
  <2> QED
    BY <1>3, <1>4, <2>1, <2>2
<1>13. ASSUME NEW s \in Slot, Finish(s)
       PROVE  InQueue(k)'
  <2>0. slot[s].job \in Job /\ slot[s].job.pr \in PR
    BY <1>0, <1>13, BusySlot, PayloadTypes DEF Finish, ReleaseLockAndDrain, ResubmitCheck, Resubmit
  <2>1. CASE ReleaseLockAndDrain(s)
    BY <1>4, <2>0, <2>1 DEF ReleaseLockAndDrain
  <2>2. CASE ResubmitCheck(s)
    BY <1>2, <2>2 DEF ResubmitCheck
  <2>3. CASE Resubmit(s)
    BY <1>0, <1>5, <2>0, <2>3, RetriedIsJob DEF Resubmit, RetriesLeft
  <2> QED
    BY <1>13, <2>1, <2>2, <2>3 DEF Finish
<1>14. ASSUME NEW e \in processing, RecoverOrphan(e)
       PROVE  InQueue(k)'
  <2>1. e.job \in Job
    BY <1>0 DEF TypeOK, Entry
  <2>2. UNCHANGED queue \/ queue' = Append(queue, e.job)
    BY <1>14 DEF RecoverOrphan
  <2> QED
    BY <1>2, <1>3, <2>1, <2>2
<1>15. ASSUME NEW p \in PR, RecoverPending(p)
       PROVE  InQueue(k)'
  BY <1>4, <1>15 DEF RecoverPending
<1>16. ASSUME \/ \E e \in processing : RecoverSuperseded(e) \/ RecoverGrace(e) \/ GraceElapses(e)
              \/ \E p \in PR : LeaseExpires(p)
              \/ \E t \in Token : TenantClaimExpires(t)
       PROVE  UNCHANGED queue
  BY <1>16 DEF RecoverSuperseded, RecoverGrace, GraceElapses, LeaseExpires, TenantClaimExpires
<1> QED
  BY <1>2, <1>6, <1>7, <1>8, <1>9, <1>10, <1>11, <1>12, <1>13, <1>14, <1>15, <1>16
  DEF Next, Dequeue, EndJob, Recover

\* A waiting job waits on, becomes ready, or is cancelled for a newer review.
LEMMA PendingKept ==
  ASSUME SlotInv, Next, NEW j \in Job, Automatic(j) \/ ~ j.review, InPending(KeyOf(j))
  PROVE  InPending(KeyOf(j))' \/ InQueue(KeyOf(j))' \/ jobState'[KeyOf(j)] = "cancelled"
<1> DEFINE k == KeyOf(j)
<1>0. TypeOK /\ ListsTyped /\ DedupTyped
  BY TypeParts DEF SlotInv
<1>a. PICK p \in PR : \E i \in 1..Len(pending[p]) : KeyOf(pending[p][i]) = k
  BY DEF InPending
<1>1. PICK i \in 1..Len(pending[p]) : KeyOf(pending[p][i]) = k
  BY <1>a
<1>2. /\ PendingStep(p) /\ pending[p] \in Seq(Job) /\ pending[p][i] \in Job /\ Len(pending[p]) \in Nat
      /\ queue \in Seq(Job) /\ k \in Key
  BY <1>0, PendingSteps, ElementOfSeq, PayloadTypes DEF ListsTyped
<1>3. CASE pending'[p] = pending[p]
  BY <1>1, <1>3 DEF InPending
<1>4. CASE Drained(p)
  <2>1. CASE i = 1
    <3>1. queue' = Append(queue, pending[p][i])
      BY <1>2, <1>4, <2>1 DEF Drained
    <3>2. Len(queue') = Len(queue) + 1 /\ queue'[Len(queue) + 1] = pending[p][i] /\ Len(queue) \in Nat
      BY <1>2, <3>1, AppendProperties
    <3> QED
      BY <1>1, <3>2 DEF InQueue
  <2>2. CASE i # 1
    <3>1. /\ Len(pending'[p]) = Len(pending[p]) - 1
          /\ \A n \in 1..Len(pending'[p]) : pending'[p][n] = pending[p][n + 1]
      BY <1>2, <1>4, HeadTailProperties DEF Drained
    <3>2. i - 1 \in 1..Len(pending'[p]) /\ (i - 1) + 1 = i
      BY <1>2, <2>2, <3>1
    <3>3. pending'[p][i - 1] = pending[p][i]
      BY <3>1, <3>2
    <3> QED
      BY <1>1, <3>2, <3>3 DEF InPending
  <2> QED
    BY <2>1, <2>2
<1>5. CASE Replaced(p)
  <2>1. PICK x \in Job :
          /\ pending'[p] = [pending[p] EXCEPT ![ReplacedAt(p)] = x]
          /\ \/ jobState' = Cancelled(Superseded(p))
             \/ jobState' = [Cancelled(Superseded(p)) EXCEPT ![KeyOf(x)] = "ready"]
    BY <1>5 DEF Replaced
  <2>2. ReplacedAt(p) \in 1..Len(pending[p]) /\ ReplacedAt(p) \in ReviewsIn(pending[p])
    BY <1>0, <1>5, ReplacedIsJob DEF Replaced, Replaceable
  <2>3. /\ Len(pending'[p]) = Len(pending[p])
        /\ pending'[p][i] = IF i = ReplacedAt(p) THEN x ELSE pending[p][i]
        /\ pending'[p][ReplacedAt(p)] = x
    BY <1>2, <2>1, <2>2, ExceptSeq
  <2>4. CASE i # ReplacedAt(p)
    BY <1>1, <2>3, <2>4 DEF InPending
  <2>5. CASE KeyOf(x) = k
    BY <2>2, <2>3, <2>5 DEF InPending
  <2>6. CASE i = ReplacedAt(p) /\ KeyOf(x) # k
    <3>1. Superseded(p) = pending[p][i] /\ Superseded(p).review /\ KeyOf(Superseded(p)) = k
      BY <1>1, <2>2, <2>6 DEF Superseded, ReviewsIn
    <3>2. j.review /\ Superseded(p).variant = j.variant
      BY <1>2, <3>1, KeyAssumption DEF KeyOf
    <3>3. Automatic(Superseded(p))
      BY <3>1, <3>2 DEF Automatic
    <3>4. Cancelled(Superseded(p)) = [jobState EXCEPT ![k] = "cancelled"]
      BY <3>1, <3>3 DEF Cancelled, SetState
    <3>5. Cancelled(Superseded(p))[k] = "cancelled" /\ Cancelled(Superseded(p)) \in [Key -> JobState]
      BY <1>0, <1>2, <3>4 DEF DedupTyped, JobState
    <3> HIDE DEF k
    <3> QED
      BY <1>2, <2>1, <2>6, <3>5 DEF k
  <2> QED
    BY <2>4, <2>5, <2>6
<1>6. CASE Added(p)
  <2>1. /\ Len(pending'[p]) = Len(pending[p]) + 1
        /\ \A n \in 1..Len(pending[p]) : pending'[p][n] = pending[p][n]
    BY <1>2, <1>6, AppendProperties DEF Added
  <2> QED
    BY <1>1, <1>2, <2>1 DEF InPending
<1> QED
  BY <1>2, <1>3, <1>4, <1>5, <1>6 DEF PendingStep

\* A slot keeps its job, or leaves it.
LEMMA SlotKeeps ==
  ASSUME SlotInv, Next, NEW s \in Slot, slot[s].pc # "idle", slot'[s].pc # "idle"
  PROVE  slot'[s].job = slot[s].job
<1>0. SlotTyped /\ TypeOK
  BY TypeParts DEF SlotInv
<1>1. ASSUME NEW r \in Slot, Moves(r) \/ Leave(r) \/ Takes(r)
      PROVE  slot'[s].job = slot[s].job
  BY <1>0, <1>1, GotoKeeps, LeaveKeeps DEF Moves, Takes, Idle, SlotTyped
<1> QED
  BY <1>0, <1>1, SlotChanges DEF Loses

\* The end of an owned claim leaves the slot with its job, unless the job is
\* dead-lettered.
LEMMA ClaimEndKeeps ==
  ASSUME SlotInv, NEW s \in Slot,
         \/ MarkCompleted(s) \/ FailTerminal(s) \/ FailTransient(s) \/ ReturnLate(s)
         \/ DeadLetter(s) \/ ReturnToQueue(s)
  PROVE  \/ slot'[s].pc # "idle" /\ slot'[s].job = slot[s].job
         \/ jobState'[KeyOf(slot[s].job)] = "dead-lettered"
<1>0. SlotTyped /\ TypeOK /\ DedupTyped
  BY TypeParts DEF SlotInv
<1>1. slot[s].pc \in {"held", "running"} /\ KeyOf(slot[s].job) \in Key
  BY <1>0, BusySlot, PayloadTypes DEF MarkCompleted, FailTerminal, FailTransient, ReturnLate, MarkFailed,
        DeadLetter, ReturnToQueue, ReleaseOwned, Executing
<1>2. CASE DeadLetter(s)
  BY <1>0, <1>1, <1>2 DEF DeadLetter, SetState, DedupTyped
<1>3. CASE MarkCompleted(s) \/ FailTerminal(s) \/ FailTransient(s) \/ ReturnLate(s) \/ ReturnToQueue(s)
  <2>1. \E pc \in {"drain", "retry", "lateDrain"} : Goto(s, pc)
    BY <1>3 DEF MarkCompleted, FailTerminal, FailTransient, ReturnLate, MarkFailed, ReturnToQueue
  <2> QED
    BY <1>0, <1>1, <2>1, GotoKeeps DEF PC
<1> QED
  BY <1>2, <1>3

\* What may become of a job with key k that was somewhere.
Fate(j) ==
  LET k == KeyOf(j) IN
  \/ InQueue(k)' \/ InPending(k)' \/ InBackup(k)' \/ InSlot(k)'
  \/ jobState'[k] \in {"cancelled", "dead-lettered"}
  \/ IsCompleted(j, done)'
  \/ LostWithWorker(k) \/ LostToRecovery(k)

\* Two payloads with one key are reviews both or neither, so that one is done
\* when the other is.
LEMMA SameDone ==
  ASSUME NEW i \in Job, NEW j \in Job, KeyOf(i) = KeyOf(j), NEW d
  PROVE  IsCompleted(i, d) => IsCompleted(j, d)
<1>1. /\ i.review = j.review /\ i.variant = j.variant /\ i.pr = j.pr /\ i.sha = j.sha
  BY KeyAssumption DEF KeyOf
<1> QED
  BY <1>1 DEF IsCompleted, Automatic, KeyOf, BareOf

\* A worker that leaves a job without a lease loses only what nobody keeps.
LEMMA LeavesUnowned ==
  ASSUME SlotInv, NEW s \in Slot, Leave(s), slot[s].pc # "idle", ~ Owns(s) \/ OwnEntries(s) = {}
  PROVE  LostWithWorker(KeyOf(slot[s].job))
BY TypeParts, LeaveKeeps DEF SlotInv, LostWithWorker, Idle

LEMMA BackupKept ==
  ASSUME SlotInv, BackupMatches, OwnsOnlyLeased, Next, NEW j \in Job, InBackup(KeyOf(j))
  PROVE  Fate(j)
<1> DEFINE k == KeyOf(j)
<1>0. SlotTyped /\ TypeOK /\ DedupTyped /\ processing \subseteq Entry /\ queue \in Seq(Job)
  BY TypeParts DEF SlotInv, TypeOK
<1>1. PICK e \in processing : KeyOf(e.job) = k
  BY DEF InBackup
<1>2. e.job \in Job /\ e.tok \in Token /\ e \in Entry
  BY <1>0 DEF Entry
<1>b. \A m : [e EXCEPT !.meta = m].job = e.job
  BY <1>2 DEF Entry
\* The backup stays, or another takes its place with the same job.
<1>3. ASSUME \E o \in processing' : o.job = e.job
      PROVE  Fate(j)
  BY <1>1, <1>3 DEF Fate, InBackup
<1>4. CASE e \in processing'
  BY <1>3, <1>4
<1>5. ASSUME NEW s \in Slot, slot[s].pc # "idle", processing' = processing \ OwnEntries(s), e \notin processing'
      PROVE  e.job = slot[s].job /\ KeyOf(slot[s].job) = k /\ slot[s].job \in Job
  BY <1>1, <1>2, <1>5 DEF OwnEntries, BackupMatches
<1>6. ASSUME NEW s \in Slot, DropEntry(s) \/ StaleRelease(s)
      PROVE  Fate(j)
  <2>1. slot[s].pc # "idle" /\ processing' = processing \ OwnEntries(s) /\ Leave(s)
    BY <1>6 DEF DropEntry, StaleRelease, Executing
  <2>2. ~ Owns(s)
    BY <1>6 DEF DropEntry, StaleRelease, TokenMatches, OwnsOnlyLeased, Leased
  <2>3. LostWithWorker(KeyOf(slot[s].job))
    BY <2>1, <2>2, LeavesUnowned
  <2> QED
    BY <1>4, <1>5, <2>1, <2>3 DEF Fate
<1>7. ASSUME NEW s \in Slot, ClaimTenantFull(s)
      PROVE  Fate(j)
  <2>1. slot[s].pc # "idle" /\ processing' = processing \ OwnEntries(s) /\ queue' = <<slot[s].job>> \o queue
    BY <1>7 DEF ClaimTenantFull
  <2>2. CASE e \notin processing'
    <3>1. \E n \in 1..Len(queue') : queue'[n] = slot[s].job
      BY <1>0, <1>5, <2>1, <2>2, PrependHas
    <3> QED
      BY <1>5, <2>1, <2>2, <3>1 DEF Fate, InQueue
  <2> QED
    BY <1>4, <2>2
<1>8. ASSUME NEW s \in Slot,
             \/ MarkCompleted(s) \/ FailTerminal(s) \/ FailTransient(s) \/ ReturnLate(s)
             \/ DeadLetter(s) \/ ReturnToQueue(s)
      PROVE  Fate(j)
  <2>1. slot[s].pc # "idle" /\ processing' = processing \ OwnEntries(s)
    BY <1>8 DEF MarkCompleted, FailTerminal, FailTransient, ReturnLate, MarkFailed,
          DeadLetter, ReturnToQueue, ReleaseOwned, Executing
  <2>2. CASE e \notin processing'
    <3>1. KeyOf(slot[s].job) = k
      BY <1>5, <2>1, <2>2
    <3>2. \/ slot'[s].pc # "idle" /\ slot'[s].job = slot[s].job
          \/ jobState'[KeyOf(slot[s].job)] = "dead-lettered"
      BY <1>8, ClaimEndKeeps
    <3> QED
      BY <3>1, <3>2 DEF Fate, InSlot
  <2> QED
    BY <1>4, <2>2
<1>9. ASSUME NEW r \in processing, RecoverSuperseded(r)
      PROVE  Fate(j)
  <2>1. processing' = processing \ {r} /\ inflight[r.job.pr] \notin {NoToken, r.tok}
    BY <1>9 DEF RecoverSuperseded
  <2>2. CASE e = r
    BY <1>1, <2>1, <2>2 DEF Fate, LostToRecovery
  <2> QED
    BY <1>4, <2>1, <2>2
<1>10. ASSUME NEW r \in processing, RecoverOrphan(r)
       PROVE  Fate(j)
  <2>1. processing' = processing \ {r}
    BY <1>10 DEF RecoverOrphan
  <2>2. CASE e = r
    <3>1. CASE IsCompleted(e.job, done) /\ UNCHANGED done
      BY <1>1, <1>2, <3>1, SameDone DEF Fate
    <3>2. CASE jobState' = SetState(e.job, "dead-lettered")
      <4>1. KeyOf(e.job) \in Key
        BY <1>2, PayloadTypes
      <4> QED
        BY <1>0, <1>1, <3>2, <4>1 DEF Fate, SetState, DedupTyped
    <3>3. CASE queue' = Append(queue, e.job)
      <4>1. \E n \in 1..Len(queue') : queue'[n] = e.job
        BY <1>0, <1>2, <3>3, AppendHas
      <4> QED
        BY <1>1, <4>1 DEF Fate, InQueue
    <3> QED
      BY <1>10, <2>2, <3>1, <3>2, <3>3 DEF RecoverOrphan
  <2> QED
    BY <1>4, <2>1, <2>2
<1>11. ASSUME NEW s \in Slot, StampMeta(s)
       PROVE  Fate(j)
  <2>1. e \in OwnEntries(s) => [e EXCEPT !.meta = "fresh"] \in processing'
    BY <1>11 DEF StampMeta, Stamped
  <2>2. e \notin OwnEntries(s) => e \in processing'
    BY <1>11 DEF StampMeta
  <2> QED
    BY <1>b, <1>3, <1>4, <2>1, <2>2
<1>12. ASSUME NEW s \in Slot, PersistJob(s)
       PROVE  Fate(j)
  <2>1. e \in OwnEntries(s) => [e EXCEPT !.meta = StampOnce(e.meta)] \in processing'
    BY <1>12, Zenon DEF PersistJob
  <2>2. e \notin OwnEntries(s) => e \in processing'
    BY <1>12, Zenon DEF PersistJob
  <2> QED
    BY <1>b, <1>3, <1>4, <2>1, <2>2
<1>13. ASSUME NEW r \in processing, RecoverGrace(r) \/ GraceElapses(r)
       PROVE  Fate(j)
  <2>1. \E m : processing' = (processing \ {r}) \cup {[r EXCEPT !.meta = m]}
    BY <1>13, Zenon DEF RecoverGrace, GraceElapses
  <2>2. CASE e = r
    BY <1>b, <1>3, <2>1, <2>2
  <2>3. CASE e # r
    BY <1>4, <2>1, <2>3
  <2> QED
    BY <2>2, <2>3
<1>14. ASSUME NEW s \in Slot, DequeueJob(s)
       PROVE  e \in processing'
  BY <1>14 DEF DequeueJob
<1>15. ASSUME NEW s \in Slot, DequeueEmpty(s) \/ DequeueBlocked(s) \/ CheckDone(s) \/ ClaimLease(s)
                                \/ ClaimPending(s) \/ MarkRunning(s) \/ RenewLease(s) \/ PersistJobFails(s)
                                \/ Finish(s) \/ Crash(s)
       PROVE  e \in processing'
  BY <1>15 DEF DequeueEmpty, DequeueBlocked, CheckDone, ClaimLease, ClaimPending, MarkRunning, RenewLease,
        PersistJobFails, Finish, ReleaseLockAndDrain, ResubmitCheck, Resubmit, Crash
<1>16. ASSUME \/ \E i \in Job : Arrive(i) \/ Enqueue(i) \/ ReplayDeadLetter(i) \/ DelayElapses(i)
              \/ \E p \in PR : RecoverPending(p) \/ LeaseExpires(p)
              \/ \E t \in Token : TenantClaimExpires(t)
       PROVE  e \in processing'
  BY <1>16 DEF Arrive, Enqueue, ReplayDeadLetter, DelayElapses, RecoverPending, LeaseExpires, TenantClaimExpires
<1> QED
  BY <1>4, <1>6, <1>7, <1>8, <1>9, <1>10, <1>11, <1>12, <1>13, <1>14, <1>15, <1>16
  DEF Next, Dequeue, EndJob, Recover

LEMMA SlotKept ==
  ASSUME SlotInv, BackupMatches, OwnsOnlyLeased, Next, NEW j \in Job, InSlot(KeyOf(j))
  PROVE  Fate(j)
<1> DEFINE k == KeyOf(j)
<1>0. SlotTyped /\ TypeOK /\ queue \in Seq(Job)
  BY TypeParts DEF SlotInv, TypeOK
<1>1. PICK s \in Slot : slot[s].pc # "idle" /\ KeyOf(slot[s].job) = k
  BY DEF InSlot
<1>2. CASE slot'[s].pc # "idle"
  BY <1>1, <1>2, SlotKeeps DEF Fate, InSlot
<1>3. CASE slot'[s].pc = "idle"
  <2>1. ASSUME ~ Owns(s) \/ OwnEntries(s) = {}
        PROVE  Fate(j)
    BY <1>1, <1>3, <2>1 DEF Fate, LostWithWorker
  <2>2. CASE ~ Leased(s)
    BY <1>1, <2>1, <2>2 DEF OwnsOnlyLeased
  <2>3. CASE Leased(s)
    <3>1. CASE ~ Owns(s)
      BY <2>1, <3>1
    <3>2. CASE OwnEntries(s) = {}
      BY <2>1, <3>2
    <3>3. CASE Owns(s) /\ OwnEntries(s) # {}
      <4>1. PICK e \in processing : e.tok = slot[s].tok
        BY <3>3 DEF OwnEntries
      <4>2. e.job = slot[s].job
        BY <1>1, <4>1 DEF BackupMatches
      <4>3. InBackup(k)
        BY <1>1, <4>1, <4>2 DEF InBackup
      <4> QED
        BY <4>3, BackupKept
    <3> QED
      BY <3>1, <3>2, <3>3
  <2> QED
    BY <2>2, <2>3
<1> QED
  BY <1>2, <1>3

\* An accepted job disappears before its end in two ways only: with a worker
\* that has no backup of it or no longer holds its lease, and when recovery
\* meets its backup while another claim holds the pull request.
THEOREM DropsExplained == Spec => DroppedOnlyUnbacked
<1> DEFINE Inv == BackupMatches /\ TokensDistinct /\ OwnsOnlyLeased
<1>1. Init => Inv
  BY DEF Init, BackupMatches, TokensDistinct, OwnsOnlyLeased, Idle
<1>2. SlotInv /\ Inv /\ [Next]_vars => Inv'
  <2> SUFFICES ASSUME SlotInv, Inv, [Next]_vars
               PROVE  Inv'
    OBVIOUS
  <2>1. CASE Next
    BY <2>1, BackupStep, TokensStep, OwnsStep DEF SlotInv
  <2>2. CASE UNCHANGED vars
    BY <2>2 DEF vars, BackupMatches, TokensDistinct, OwnsOnlyLeased, Leased, Owns
  <2> QED
    BY <2>1, <2>2
<1>3. ASSUME SlotInv, Inv, Next, NEW j \in Job
      PROVE  LET k == KeyOf(j) IN
               /\ Automatic(j) \/ ~ j.review
               /\ IsLive(k) /\ ~ IsLive(k)' /\ Open(k)' /\ ~ IsCompleted(j, done)'
               => LostWithWorker(k) \/ LostToRecovery(k)
  <2> DEFINE k == KeyOf(j)
  <2> SUFFICES ASSUME Automatic(j) \/ ~ j.review, IsLive(k), ~ IsLive(k)', Open(k)', ~ IsCompleted(j, done)'
               PROVE  LostWithWorker(k) \/ LostToRecovery(k)
    OBVIOUS
  <2>1. InQueue(k) \/ InPending(k) \/ InBackup(k) \/ InSlot(k)
    BY DEF IsLive, Stored, InQueue, InPending, InBackup, InSlot
  <2>2. Fate(j)
    <3>1. CASE InQueue(k)
      BY <1>3, <3>1, QueueKept DEF Fate
    <3>2. CASE InPending(k)
      BY <1>3, <3>2, PendingKept DEF Fate
    <3>3. CASE InBackup(k)
      BY <1>3, <3>3, BackupKept
    <3>4. CASE InSlot(k)
      BY <1>3, <3>4, SlotKept
    <3> QED
      BY <2>1, <3>1, <3>2, <3>3, <3>4
  <2>3. ~ InQueue(k)' /\ ~ InPending(k)' /\ ~ InBackup(k)' /\ ~ InSlot(k)'
    BY DEF IsLive, Stored, InQueue, InPending, InBackup, InSlot
  <2>4. jobState'[k] \notin {"cancelled", "dead-lettered"}
    BY DEF Open
  <2> QED
    BY <2>2, <2>3, <2>4 DEF Fate
<1>4. SlotInv /\ Inv /\ [Next]_vars =>
        [\A j \in Job : LET k == KeyOf(j) IN
           /\ Automatic(j) \/ ~ j.review
           /\ IsLive(k) /\ ~ IsLive(k)' /\ Open(k)' /\ ~ IsCompleted(j, done)'
           => LostWithWorker(k) \/ LostToRecovery(k)]_vars
  BY <1>3
<1>5. Spec => []SlotInv
  BY SlotInvInit, SlotInvStep, PTL DEF Spec
<1> QED
  <2> HIDE DEF Inv
  <2> QED
    BY <1>1, <1>2, <1>4, <1>5, PTL DEF Spec, DroppedOnlyUnbacked

-----------------------------------------------------------------------------
(* A retry.                                                                *)

\* The key of a failed job is free again: whoever sets the state clears it.
FailedUnseen == \A k \in seen : jobState[k] # "failed"

LEMMA EnqueueUnseen ==
  ASSUME ListsTyped, DedupTyped, FailedUnseen, NEW j \in Job, EnqueueScript(j)
  PROVE  FailedUnseen'
<1>0. KeyOf(j) \in Key /\ seen \subseteq Key /\ jobState \in [Key -> JobState]
  BY PayloadTypes DEF DedupTyped
<1>1. CASE UNCHANGED <<seen, jobState>>
  BY <1>1 DEF FailedUnseen
<1>2. CASE /\ ReplacePending(j)
           /\ seen' = (seen \cup {KeyOf(j)}) \ ClearedKeys(Superseded(j.pr))
           /\ jobState' = [Cancelled(Superseded(j.pr)) EXCEPT ![KeyOf(j)] = "ready"]
  <2>1. Superseded(j.pr) \in Job
    BY <1>2, ReplacedIsJob, PayloadTypes DEF ReplacePending
  <2>2. \A k \in Key : Cancelled(Superseded(j.pr))[k] \in {jobState[k], "cancelled"}
    BY <1>0, <2>1, PayloadTypes DEF Cancelled, SetState
  <2>3. Cancelled(Superseded(j.pr)) \in [Key -> JobState]
    BY <2>1, SupersedeKeepsType
  <2> QED
    BY <1>0, <1>2, <2>2, <2>3 DEF FailedUnseen
<1>3. CASE seen' = seen \cup {KeyOf(j)} /\ jobState' = SetState(j, "ready")
  BY <1>0, <1>3 DEF SetState, FailedUnseen
<1> QED
  BY <1>1, <1>2, <1>3 DEF EnqueueScript

LEMMA UnseenStep ==
  ASSUME SlotInv, FailedUnseen, Next
  PROVE  FailedUnseen'
<1> USE DEF dedupVars
<1>0. TypeOK /\ SlotTyped /\ ListsTyped /\ DedupTyped /\ RetriesLeft /\ seen \subseteq Key /\ jobState \in [Key -> JobState]
  BY TypeParts DEF SlotInv, DedupTyped
<1>1. ASSUME seen' \subseteq seen, UNCHANGED jobState
      PROVE  FailedUnseen'
  BY <1>1 DEF FailedUnseen
<1>2. ASSUME NEW j \in Job, seen' \subseteq seen, NEW st, st # "failed", jobState' = SetState(j, st)
      PROVE  FailedUnseen'
  BY <1>0, <1>2 DEF SetState, FailedUnseen
<1>3. ASSUME NEW j \in Job, seen' = ClearSeen(j), NEW st, jobState' = SetState(j, st)
      PROVE  FailedUnseen'
  BY <1>0, <1>3 DEF SetState, ClearSeen, FailedUnseen
<1>4. ASSUME NEW j \in Job, Arrive(j) \/ DelayElapses(j)
      PROVE  FailedUnseen'
  BY <1>1, <1>4 DEF Arrive, DelayElapses
<1>5. ASSUME NEW j \in Job, Enqueue(j)
      PROVE  FailedUnseen'
  BY <1>0, <1>5, EnqueueUnseen DEF Enqueue
<1>6. ASSUME NEW j \in Job, ReplayDeadLetter(j)
      PROVE  FailedUnseen'
  BY <1>0, <1>6, PayloadTypes DEF ReplayDeadLetter, SetState, FailedUnseen
<1>7. ASSUME NEW s \in Slot, DequeueEmpty(s) \/ DequeueJob(s) \/ DequeueBlocked(s) \/ CheckDone(s) \/ DropEntry(s)
                               \/ ClaimTenantFull(s) \/ StampMeta(s) \/ RenewLease(s) \/ PersistJob(s)
                               \/ StaleRelease(s) \/ PersistJobFails(s) \/ ReleaseLockAndDrain(s)
                               \/ ResubmitCheck(s) \/ Crash(s)
      PROVE  FailedUnseen'
  BY <1>1, <1>7 DEF DequeueEmpty, DequeueJob, DequeueBlocked, CheckDone, DropEntry, ClaimTenantFull, StampMeta,
        RenewLease, PersistJob, StaleRelease, PersistJobFails, ReleaseLockAndDrain, ResubmitCheck, Crash
<1>8. ASSUME NEW s \in Slot, ClaimLease(s) \/ MarkRunning(s) \/ MarkCompleted(s) \/ ReturnToQueue(s)
      PROVE  FailedUnseen'
  <2>1. slot[s].job \in Job /\ UNCHANGED seen
    BY <1>0, <1>8, BusySlot DEF ClaimLease, MarkRunning, MarkCompleted, ReturnToQueue, ReleaseOwned, Executing
  <2>2. \E st \in {"claimed", "running", "succeeded", "cancelled", "ready"} : jobState' = SetState(slot[s].job, st)
    BY <1>8 DEF ClaimLease, MarkRunning, MarkCompleted, ReturnToQueue
  <2> QED
    BY <1>2, <2>1, <2>2
<1>9. ASSUME NEW s \in Slot, ClaimPending(s)
      PROVE  FailedUnseen'
  <2>1. slot[s].job \in Job
    BY <1>0, <1>9, BusySlot DEF ClaimPending
  <2>2. CASE /\ ReplacePending(slot[s].job)
             /\ seen' = seen \ ClearedKeys(Superseded(slot[s].job.pr))
             /\ jobState' = Cancelled(Superseded(slot[s].job.pr))
    <3>1. Superseded(slot[s].job.pr) \in Job
      BY <1>0, <2>1, <2>2, ReplacedIsJob, PayloadTypes DEF ReplacePending
    <3>2. seen' \subseteq seen
      BY <2>2
    <3> QED
      BY <1>1, <1>2, <2>2, <3>1, <3>2 DEF Cancelled
  <2> QED
    BY <1>1, <1>9, <2>2 DEF ClaimPending
<1>10. ASSUME NEW s \in Slot, FailTerminal(s) \/ FailTransient(s) \/ ReturnLate(s) \/ DeadLetter(s)
       PROVE  FailedUnseen'
  <2>1. /\ slot[s].job \in Job /\ seen' = ClearSeen(slot[s].job)
        /\ \E st : jobState' = SetState(slot[s].job, st)
    BY <1>0, <1>10, BusySlot DEF FailTerminal, FailTransient, ReturnLate, MarkFailed, DeadLetter, ReleaseOwned, Executing
  <2> QED
    BY <1>3, <2>1
<1>11. ASSUME NEW s \in Slot, Resubmit(s)
       PROVE  FailedUnseen'
  <2>1. PICK j \in Job : EnqueueScript(j)
    BY <1>0, <1>11, BusySlot, RetriedIsJob DEF Resubmit, RetriesLeft
  <2> QED
    BY <1>0, <2>1, EnqueueUnseen
<1>12. ASSUME NEW e \in processing, RecoverOrphan(e)
       PROVE  FailedUnseen'
  <2>1. e.job \in Job
    BY <1>0 DEF TypeOK, Entry
  <2>2. CASE UNCHANGED <<seen, jobState>>
    BY <1>1, <2>2
  <2>3. CASE seen' = ClearSeen(e.job) /\ \E st : jobState' = SetState(e.job, st)
    BY <1>3, <2>1, <2>3
  <2> QED
    BY <1>12, <2>2, <2>3 DEF RecoverOrphan
<1>13. ASSUME \/ \E e \in processing : RecoverSuperseded(e) \/ RecoverGrace(e) \/ GraceElapses(e)
              \/ \E p \in PR : RecoverPending(p) \/ LeaseExpires(p)
              \/ \E k \in Token : TenantClaimExpires(k)
       PROVE  FailedUnseen'
  BY <1>1, <1>13 DEF RecoverSuperseded, RecoverGrace, GraceElapses, RecoverPending, LeaseExpires, TenantClaimExpires
<1> QED
  BY <1>4, <1>5, <1>6, <1>7, <1>8, <1>9, <1>10, <1>11, <1>12, <1>13
  DEF Next, Dequeue, EndJob, Finish, Recover

\* What the enqueue script accepts is stored.
LEMMA EnqueueStores ==
  ASSUME ListsTyped, NEW j \in Job, EnqueueScript(j), KeyOf(j) \notin seen
  PROVE  Stored(KeyOf(j))'
<1>0. j.pr \in PR /\ pending[j.pr] \in Seq(Job) /\ queue \in Seq(Job) /\ Len(pending[j.pr]) \in Nat
  BY PayloadTypes DEF ListsTyped
<1>1. CASE ReplacePending(j)
  <2>1. ReplacedAt(j.pr) \in 1..Len(pending[j.pr])
    BY <1>0, <1>1, ReplacedIsJob DEF ReplacePending
  <2>2. pending'[j.pr] = [pending[j.pr] EXCEPT ![ReplacedAt(j.pr)] = j]
    BY <1>0, <1>1 DEF ReplacePending, ListsTyped
  <2>3. Len(pending'[j.pr]) = Len(pending[j.pr]) /\ pending'[j.pr][ReplacedAt(j.pr)] = j
    BY <1>0, <2>1, <2>2, ExceptSeq
  <2> QED
    BY <1>0, <2>1, <2>3 DEF Stored
<1>2. CASE AddPending(j)
  <2>1. pending'[j.pr] = Append(pending[j.pr], j)
    BY <1>0, <1>2 DEF AddPending, ListsTyped
  <2>2. \E n \in 1..Len(Append(pending[j.pr], j)) : Append(pending[j.pr], j)[n] = j
    BY <1>0, AppendHas
  <2>3. \E n \in 1..Len(pending'[j.pr]) : pending'[j.pr][n] = j
    BY <2>1, <2>2
  <2> QED
    BY <1>0, <2>3 DEF Stored
<1>3. CASE queue' = Append(queue, j)
  <2>1. \E n \in 1..Len(queue') : queue'[n] = j
    BY <1>0, <1>3, AppendHas
  <2> QED
    BY <2>1 DEF Stored
<1> QED
  BY <1>1, <1>2, <1>3 DEF EnqueueScript

\* A retry goes by the key of the job it retries.
LEMMA RetriedKey ==
  ASSUME NEW j \in Job, j.attempts < MaxJobRetries
  PROVE  KeyOf(Retried(j)) = KeyOf(j)
<1>1. DOMAIN j = {"pr", "sha", "variant", "review", "tenant", "unlimited", "priority", "attempts"}
  BY PayloadAssumption DEF IsPayload
<1>2. Retried(j).pr = j.pr /\ Retried(j).sha = j.sha /\ Retried(j).variant = j.variant
  BY <1>1, SMT DEF Retried
<1> QED
  BY <1>2 DEF KeyOf

\* Only the enqueue ends a submission.
LEMMA SubmissionEnds ==
  ASSUME SlotInv, Next, NEW s \in Slot, slot[s].pc = "retrySubmit", slot'[s].pc = "drain"
  PROVE  EnqueueScript(Retried(slot[s].job))
<1> USE DEF listVars, dedupVars, tenantVars, recoveryVars, arrivalVars, faultVars
<1>0. SlotTyped /\ TypeOK
  BY TypeParts DEF SlotInv
<1>2. ~ UNCHANGED slot
  OBVIOUS
<1>3. ASSUME NEW r \in Slot, (\E pc \in PC : Goto(r, pc)) \/ Leave(r) \/ (\E x : slot' = [slot EXCEPT ![r] = x])
      PROVE  r = s
  BY <1>0, <1>3 DEF Goto, Leave, SlotTyped
<1>4. ASSUME NEW r \in Slot, Dequeue(r)
      PROVE  FALSE
  <2>1. CASE DequeueEmpty(r) \/ DequeueBlocked(r)
    BY <1>2, <2>1 DEF DequeueEmpty, DequeueBlocked
  <2>2. CASE DequeueJob(r)
    BY <1>3, <2>2 DEF DequeueJob
  <2>3. CASE CheckDone(r) \/ ClaimLease(r) \/ ClaimPending(r) \/ StampMeta(r)
    BY <1>3, <2>3 DEF CheckDone, ClaimLease, ClaimPending, StampMeta, PC
  <2>4. CASE DropEntry(r) \/ ClaimTenantFull(r)
    BY <1>3, <2>4 DEF DropEntry, ClaimTenantFull
  <2> QED
    BY <1>4, <2>1, <2>2, <2>3, <2>4 DEF Dequeue
<1>5. ASSUME NEW r \in Slot, MarkRunning(r) \/ RenewLease(r) \/ PersistJob(r)
      PROVE  FALSE
  BY <1>2, <1>3, <1>5 DEF MarkRunning, RenewLease, PersistJob, PC
<1>6. ASSUME NEW r \in Slot, EndJob(r)
      PROVE  FALSE
  <2>1. r = s
    BY <1>3, <1>6 DEF EndJob, StaleRelease, PersistJobFails, MarkCompleted, FailTerminal, FailTransient,
          ReturnLate, MarkFailed, DeadLetter, ReturnToQueue, PC
  <2> QED
    BY <1>6, <2>1 DEF EndJob, StaleRelease, PersistJobFails, MarkCompleted, FailTerminal, FailTransient,
          ReturnLate, MarkFailed, DeadLetter, ReturnToQueue, ReleaseOwned, Executing
<1>7. ASSUME NEW r \in Slot, Crash(r)
      PROVE  FALSE
  BY <1>0, <1>3, <1>7, LeaveKeeps DEF Crash, Idle
<1>8. ASSUME NEW r \in Slot, ReleaseLockAndDrain(r) \/ ResubmitCheck(r)
      PROVE  FALSE
  BY <1>3, <1>8 DEF ReleaseLockAndDrain, ResubmitCheck, PC
<1>9. ASSUME NEW r \in Slot, Resubmit(r)
      PROVE  EnqueueScript(Retried(slot[s].job))
  BY <1>3, <1>9 DEF Resubmit, PC
<1>10. ASSUME \/ \E j \in Job : Arrive(j) \/ Enqueue(j) \/ ReplayDeadLetter(j) \/ DelayElapses(j)
              \/ \E e \in processing : GraceElapses(e)
              \/ \E p \in PR : LeaseExpires(p)
              \/ \E k \in Token : TenantClaimExpires(k)
              \/ Recover
       PROVE  FALSE
  BY <1>2, <1>10 DEF Arrive, Enqueue, ReplayDeadLetter, DelayElapses, GraceElapses, LeaseExpires,
        TenantClaimExpires, Recover, RecoverSuperseded, RecoverGrace, RecoverOrphan, RecoverPending
<1> QED
  BY <1>4, <1>5, <1>6, <1>7, <1>8, <1>9, <1>10 DEF Next, Finish

\* A submitted retry is stored, or another delivery of the job took its key
\* over: the key of a failed job is never left blocked.
THEOREM RetriesStored == Spec => RetryNotLost
<1>1. Init => FailedUnseen
  BY DEF Init, FailedUnseen
<1>2. SlotInv /\ FailedUnseen /\ [Next]_vars => FailedUnseen'
  <2>1. UNCHANGED vars /\ FailedUnseen => FailedUnseen'
    BY DEF vars, dedupVars, FailedUnseen
  <2> QED
    BY <2>1, UnseenStep
<1>3. ASSUME SlotInv, FailedUnseen, Next, NEW s \in Slot,
             slot[s].pc = "retrySubmit", slot'[s].pc = "drain"
      PROVE  Stored(KeyOf(slot[s].job))' \/ jobState'[KeyOf(slot[s].job)] # "failed"
  <2>1. /\ slot[s].job \in Job /\ slot[s].job.attempts < MaxJobRetries
        /\ slot'[s].job = slot[s].job /\ ListsTyped
    BY <1>3, TypeParts, BusySlot, SlotKeeps DEF SlotInv, RetriesLeft
  <2>2. /\ Retried(slot[s].job) \in Job /\ KeyOf(Retried(slot[s].job)) = KeyOf(slot[s].job)
        /\ EnqueueScript(Retried(slot[s].job))
    BY <1>3, <2>1, RetriedIsJob, RetriedKey, SubmissionEnds
  <2>3. CASE KeyOf(slot[s].job) \in seen
    <3>1. UNCHANGED jobState
      BY <2>2, <2>3 DEF EnqueueScript
    <3> QED
      BY <1>3, <2>3, <3>1 DEF FailedUnseen
  <2>4. CASE KeyOf(slot[s].job) \notin seen
    <3>1. PICK again \in Job : again = Retried(slot[s].job)
      BY <2>2
    <3>2. /\ KeyOf(again) \notin seen /\ EnqueueScript(again)
          /\ KeyOf(again) = KeyOf(slot[s].job)
      BY <2>2, <2>4, <3>1
    <3>3. Stored(KeyOf(again))'
      BY <2>1, <3>2, EnqueueStores
    <3>4. KeyOf(slot[s].job)' = KeyOf(again)
      BY <2>1, <3>2 DEF KeyOf
    <3> QED
      BY <3>3, <3>4 DEF Stored
  <2> QED
    BY <2>3, <2>4
<1>4. SlotInv /\ FailedUnseen /\ [Next]_vars =>
        [\A s \in Slot : LET j == slot[s].job IN
           slot[s].pc = "retrySubmit" /\ slot'[s].pc = "drain"
             => Stored(KeyOf(j))' \/ jobState'[KeyOf(j)] # "failed"]_vars
  BY <1>3
<1>5. Spec => []SlotInv
  BY SlotInvInit, SlotInvStep, PTL DEF Spec
<1> QED
  BY <1>1, <1>2, <1>4, <1>5, PTL DEF Spec, RetryNotLost

=============================================================================
