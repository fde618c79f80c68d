------------------------- MODULE WebhookIntakeProofs -------------------------
(***************************************************************************)
(* Proofs about WebhookIntake, for any number of requests, deliveries,     *)
(* workers and payloads, any script, and every bound.                      *)
(*                                                                         *)
(* The in-memory queue comes first: what each of its operators does to its *)
(* fields, which commands wait behind a claim before and after, and where  *)
(* the key of a job is (Accounts): in one place, and one that its state    *)
(* tells.  A job in flight is in the hands of one worker (Hands).          *)
(*                                                                         *)
(* Then the requests.  A claim's token is its own (Fresh), and a request   *)
(* that is not late still has it on both rows, and not old (Owning): so    *)
(* nobody can take, settle or prune them.                                  *)
(*                                                                         *)
(* Last, the two together: what is true of the queue under everything the  *)
(* requests, the workers and the crashes do.                               *)
(***************************************************************************)
EXTENDS WebhookIntake, DataTheorems

-----------------------------------------------------------------------------
(* The key sets.                                                           *)

\* What a payload's keys are: keys of its own pull request.
LEMMA PayloadTypes ==
  ASSUME NEW j \in Job
  PROVE  /\ IsPayload(j) /\ j.pr \in PR /\ j.review \in BOOLEAN /\ j # NoJob
         /\ KeyOf(j) \in Key /\ BareOf(j) \in Key /\ DraftOf(j) \in Key
         /\ KeyOf(j)[1] = j.pr
BY PayloadAssumption, NoJobAssumption DEF IsPayload, PR, Key, KeyOf

itself == [k \in Key |-> k]
KeySet(s) == Keys(s, itself)
Distinct(s) == Single(s, itself)

\* Membership in a list of keys, as the code asks it and as a set.
LEMMA KeySetIs ==
  ASSUME NEW s \in Seq(Key)
  PROVE  KeySet(s) = ToSet(s) /\ \A k : Contains(s, k) <=> k \in KeySet(s)
<1>1. DOMAIN s = 1..Len(s) /\ \A i \in 1..Len(s) : s[i] \in Key
  BY LenProperties, ElementOfSeq
<1> QED BY <1>1 DEF KeySet, Keys, itself, ToSet, Contains

\* enqueue notes a key once.
LEMMA AddedKeys ==
  ASSUME NEW s \in Seq(Key), NEW k \in Key
  PROVE  /\ Added(s, k) \in Seq(Key) /\ KeySet(Added(s, k)) = KeySet(s) \cup {k}
         /\ Distinct(s) => Distinct(Added(s, k))
<1>1. itself[k] = k
  BY DEF itself
<1> QED BY <1>1, AppendKeys, KeySetIs DEF Added, KeySet, Distinct

\* Deleting a key takes that key out and no other.
LEMMA ForgottenKeys ==
  ASSUME NEW s \in Seq(Key), NEW k \in Key
  PROVE  /\ Forgotten(s, k) \in Seq(Key) /\ KeySet(Forgotten(s, k)) \subseteq KeySet(s)
         /\ KeySet(s) \ {k} \subseteq KeySet(Forgotten(s, k))
         /\ Distinct(s) => Distinct(Forgotten(s, k)) /\ k \notin KeySet(Forgotten(s, k))
<1> DEFINE I == {i \in 1..Len(s) : s[i] = k}
<1>1. DOMAIN s = 1..Len(s) /\ I \subseteq Nat /\ \A i \in 1..Len(s) : s[i] \in Key
  BY LenProperties, ElementOfSeq
<1>2. CASE I # {}
  <2>1. Min(I) \in DOMAIN s /\ s[Min(I)] = k
    BY <1>1, <1>2, MinInSet
  <2>2. Forgotten(s, k) = RemoveAt(s, Min(I))
    BY <1>2 DEF Forgotten, RemoveFirst, SelectInSeq
  <2>3. itself[k] = k
    BY DEF itself
  <2> HIDE DEF I
  <2> QED BY <2>1, <2>2, <2>3, RemoveKeys DEF KeySet, Distinct
<1>3. CASE I = {}
  <2>1. Forgotten(s, k) = s
    BY <1>3 DEF Forgotten, RemoveFirst
  <2>2. k \notin KeySet(s)
    BY <1>1, <1>3 DEF KeySet, Keys, itself
  <2> QED BY <2>1, <2>2
<1> QED BY <1>2, <1>3

\* What trimming leaves of a list of keys is one.
LEMMA TrimmedType ==
  ASSUME NEW s \in Seq(Key)
  PROVE  Trimmed(s) \in Seq(Key)
<1> DEFINE a == Len(s) - MaxDedupEntries + 1
<1>1. Len(s) \in Nat /\ MaxDedupEntries \in Nat \ {0} /\ \A i \in 1..Len(s) : s[i] \in Key
  BY LenProperties, ElementOfSeq, DedupAssumption
<1>2. CASE Len(s) > MaxDedupEntries
  <2>1. a \in Int /\ a >= 1 /\ Len(s) \in Int
    BY <1>1, <1>2
  <2>2. \A i \in a..Len(s) : s[i] \in Key
    BY <1>1, <2>1
  <2>3. SubSeq(s, a, Len(s)) \in Seq(Key)
    BY <2>1, <2>2, SubSeqProperties
  <2> QED BY <2>3, <1>1, <1>2 DEF Trimmed
<1>3. CASE Len(s) <= MaxDedupEntries
  BY <1>3 DEF Trimmed
<1> QED BY <1>1, <1>2, <1>3

\* The key sets have room for every key there is: nothing is trimmed.
RoomForAll == IsFiniteSet(Key) /\ Cardinality(Key) <= MaxDedupEntries

\* A list of distinct keys fits where there is room for all keys.
LEMMA NotTrimmed ==
  ASSUME RoomForAll, NEW s \in Seq(Key), Distinct(s)
  PROVE  Trimmed(s) = s
<1>1. s \in [1..Len(s) -> Key] /\ Len(s) \in Nat /\ DOMAIN s = 1..Len(s)
  BY LenProperties
<1>2. \A i, k \in 1..Len(s) : s[i] = s[k] => i = k
  BY <1>1 DEF Distinct, Single, itself
<1>3. s \in Injection(1..Len(s), Key)
  BY <1>1, <1>2 DEF Injection, IsInjective
<1>4. Cardinality(1..Len(s)) <= Cardinality(Key) /\ Cardinality(1..Len(s)) = Len(s)
  <2>1. Cardinality(1..Len(s)) <= Cardinality(Key)
    BY <1>3, FS_Injection DEF RoomForAll
  <2>2. Cardinality(1..Len(s)) = IF 1 > Len(s) THEN 0 ELSE Len(s) - 1 + 1
    <3>1. 1 \in Int /\ Len(s) \in Int
      BY <1>1
    <3> QED BY <3>1, FS_Interval
  <2> QED BY <1>1, <2>1, <2>2
<1>5. Cardinality(Key) \in Nat /\ MaxDedupEntries \in Nat
  BY FS_CardinalityType, DedupAssumption DEF RoomForAll
<1>6. Len(s) <= MaxDedupEntries
  BY <1>1, <1>4, <1>5 DEF RoomForAll
<1> QED BY <1>6 DEF Trimmed

-----------------------------------------------------------------------------
(* The queue's fields and what each operator does to them.                 *)

Queue ==
  [seen : Seq(Key), completed : Seq(Key), queue : Seq(Waiting),
   inFlight : [PR -> Job \cup {NoJob}], pending : [PR -> Seq(Job)],
   states : [Key -> JobState], deadLetters : Seq(Job)]

\* The queue of a fresh process is one.
LEMMA EmptyIsQueue == EmptyQueue \in Queue
<1>1. <<>> \in Seq(Key) /\ <<>> \in Seq(Waiting) /\ <<>> \in Seq(Job)
  BY EmptySeq
<1> QED BY <1>1 DEF EmptyQueue, Queue, JobState

\* The types of the queue's fields.
LEMMA Fields ==
  ASSUME NEW q \in Queue
  PROVE  /\ q.seen \in Seq(Key) /\ q.completed \in Seq(Key) /\ q.queue \in Seq(Waiting)
         /\ q.inFlight \in [PR -> Job \cup {NoJob}] /\ q.pending \in [PR -> Seq(Job)]
         /\ q.states \in [Key -> JobState] /\ q.deadLetters \in Seq(Job)
BY DEF Queue

\* A queue with one field replaced by one of its type is a queue.
LEMMA Columns ==
  ASSUME NEW q \in Queue, NEW x
  PROVE  /\ x \in Seq(Key) => [q EXCEPT !.seen = x] \in Queue /\ [q EXCEPT !.completed = x] \in Queue
         /\ x \in Seq(Waiting) => [q EXCEPT !.queue = x] \in Queue
         /\ x \in [PR -> Job \cup {NoJob}] => [q EXCEPT !.inFlight = x] \in Queue
         /\ x \in [PR -> Seq(Job)] => [q EXCEPT !.pending = x] \in Queue
         /\ x \in [Key -> JobState] => [q EXCEPT !.states = x] \in Queue
         /\ x \in Seq(Job) => [q EXCEPT !.deadLetters = x] \in Queue
BY DEF Queue

\* transition writes the state of the job's key and nothing else.
LEMMA BecomeEffect ==
  ASSUME NEW q \in Queue, NEW j \in Job, NEW to \in JobState
  PROVE  LET r == Become(q, j, to)
         IN  /\ r \in Queue /\ r.seen = q.seen /\ r.completed = q.completed /\ r.queue = q.queue
             /\ r.inFlight = q.inFlight /\ r.pending = q.pending /\ r.deadLetters = q.deadLetters
             /\ r.states = [q.states EXCEPT ![KeyOf(j)] = to]
<1>1. Become(q, j, to) = [q EXCEPT !.states = [q.states EXCEPT ![KeyOf(j)] = to]]
  BY DEF Become, Queue
<1>2. [q.states EXCEPT ![KeyOf(j)] = to] \in [Key -> JobState]
  BY PayloadTypes, Fields
<1> QED BY <1>1, <1>2 DEF Queue

\* Where a job that is put behind its pull request goes.
LEMMA PushedAtWhere ==
  ASSUME NEW list \in Seq(Job), NEW j \in Job
  PROVE  \/ PushedAt(list, j) = 0
         \/ /\ PushedAt(list, j) \in DOMAIN list /\ PushedAt(list, j) # 0
            /\ j.review /\ list[PushedAt(list, j)].review
<1> DEFINE I == ReviewsIn(list) \cup {0}
<1>1. Len(list) \in Nat /\ DOMAIN list = 1..Len(list)
  BY LenProperties
<1>2. I \subseteq 0..Len(list) /\ I # {}
  BY <1>1 DEF ReviewsIn
<1>3. Max(I) \in I
  <2> HIDE DEF I
  <2> QED BY <1>1, <1>2, MaxUpTo
<1> QED BY <1>1, <1>3 DEF PushedAt, ReviewsIn

PushedPending(q, j) ==
  LET list == q.pending[j.pr]
      i == PushedAt(list, j)
  IN [q.pending EXCEPT ![j.pr] = IF i = 0 THEN Append(list, j) ELSE [list EXCEPT ![i] = j]]
PushedOver(q, j) == q.pending[j.pr][PushedAt(q.pending[j.pr], j)]
Withdraws(q, j) == PushedAt(q.pending[j.pr], j) # 0 /\ Automatic(PushedOver(q, j))
PushedSeen(q, j) == IF Withdraws(q, j) THEN Forgotten(q.seen, KeyOf(PushedOver(q, j))) ELSE q.seen
PushedStates(q, j) ==
  IF Withdraws(q, j) THEN [q.states EXCEPT ![KeyOf(PushedOver(q, j))] = "cancelled"] ELSE q.states

\* pushCoalesced changes the list of its pull request and the replaced job's
\* key: forgotten and cancelled.
LEMMA PushEffect ==
  ASSUME NEW q \in Queue, NEW j \in Job
  PROVE  LET r == PushCoalesced(q, j)
         IN  /\ r \in Queue
             /\ r.queue = q.queue /\ r.inFlight = q.inFlight /\ r.completed = q.completed
             /\ r.pending = PushedPending(q, j) /\ r.seen = PushedSeen(q, j)
             /\ r.states = PushedStates(q, j)
<1> DEFINE list == q.pending[j.pr]
           i == PushedAt(list, j)
           appended == [q EXCEPT !.pending = [q.pending EXCEPT ![j.pr] = Append(list, j)]]
           put == [q EXCEPT !.pending = [q.pending EXCEPT ![j.pr] = [list EXCEPT ![i] = j]]]
           forgot == [put EXCEPT !.seen = Forgotten(q.seen, KeyOf(list[i]))]
<1>1. list \in Seq(Job) /\ j.pr \in PR
  BY PayloadTypes, Fields
<1>2. CASE i = 0
  <2>1. Append(list, j) \in Seq(Job)
    BY <1>1, AppendProperties
  <2>2. [q.pending EXCEPT ![j.pr] = Append(list, j)] \in [PR -> Seq(Job)]
    BY <1>1, <2>1, Fields
  <2>3. appended \in Queue
    BY <2>2, Columns
  <2>4. PushCoalesced(q, j) = appended
    BY <1>2 DEF PushCoalesced, Queue
  <2>5. PushedPending(q, j) = appended.pending /\ PushedSeen(q, j) = q.seen /\ PushedStates(q, j) = q.states
    BY <1>2 DEF Queue, PushedPending, PushedSeen, PushedStates, Withdraws
  <2> HIDE DEF list, i
  <2> QED BY <2>3, <2>4, <2>5 DEF Queue
<1>3. CASE i # 0
  <2>1. i \in DOMAIN list /\ list[i] \in Job
    BY <1>1, <1>3, PushedAtWhere, ElementOfSeq, LenProperties
  <2>2. [list EXCEPT ![i] = j] \in Seq(Job)
    BY <1>1, <2>1, ExceptSeq, LenProperties
  <2>3. [q.pending EXCEPT ![j.pr] = [list EXCEPT ![i] = j]] \in [PR -> Seq(Job)]
    BY <1>1, <2>2, Fields
  <2>4. put \in Queue
    BY <2>3, Columns
  <2>5. put = [q EXCEPT !.pending[j.pr][i] = j] /\ put.seen = q.seen
    BY <1>1 DEF Queue
  <2>6. CASE ~Automatic(list[i])
    <3>1. PushCoalesced(q, j) = put
      BY <1>3, <2>5, <2>6 DEF PushCoalesced
    <3>2. /\ PushedPending(q, j) = put.pending /\ PushedSeen(q, j) = q.seen
          /\ PushedStates(q, j) = q.states
      BY <1>3, <2>6 DEF Queue, PushedPending, PushedSeen, PushedStates, Withdraws, PushedOver
    <3> HIDE DEF list, i
    <3> QED BY <2>4, <3>1, <3>2 DEF Queue
  <2>7. CASE Automatic(list[i])
    <3>0. KeyOf(list[i]) \in Key /\ "cancelled" \in JobState
      BY <2>1, PayloadTypes DEF JobState
    <3>1. Forgotten(q.seen, KeyOf(list[i])) \in Seq(Key)
      <4> HIDE DEF list, i
      <4> QED BY <3>0, ForgottenKeys, Fields
    <3>2. forgot \in Queue
      BY <2>4, <3>1, Columns
    <3>3. forgot.states = q.states /\ forgot.queue = q.queue /\ forgot.inFlight = q.inFlight
          /\ forgot.completed = q.completed /\ forgot.pending = put.pending
          /\ forgot.seen = Forgotten(q.seen, KeyOf(list[i]))
      BY DEF Queue
    <3>4. PushCoalesced(q, j) = Become(forgot, list[i], "cancelled")
      BY <1>3, <2>5, <2>7 DEF PushCoalesced
    <3> HIDE DEF forgot
    <3> DEFINE r == Become(forgot, list[i], "cancelled")
    <3>5. /\ r \in Queue /\ r.seen = forgot.seen /\ r.completed = forgot.completed
          /\ r.queue = forgot.queue /\ r.inFlight = forgot.inFlight /\ r.pending = forgot.pending
          /\ r.states = [forgot.states EXCEPT ![KeyOf(list[i])] = "cancelled"]
      <4> HIDE DEF list, i, put
      <4> QED BY <2>1, <3>0, <3>2, BecomeEffect
    <3>6. /\ PushedPending(q, j) = put.pending /\ PushedSeen(q, j) = forgot.seen
          /\ PushedStates(q, j) = [q.states EXCEPT ![KeyOf(list[i])] = "cancelled"]
      BY <1>3, <2>7, <3>3 DEF Queue, PushedPending, PushedSeen, PushedStates, Withdraws, PushedOver
    <3> HIDE DEF r, put, list, i
    <3> QED BY <3>3, <3>4, <3>5, <3>6 DEF r
  <2> QED BY <2>6, <2>7
<1> QED BY <1>2, <1>3

\* enqueue begins with the key in seen and the state submitted.
LEMMA SubmittedEffect ==
  ASSUME NEW q \in Queue, NEW j \in Job
  PROVE  LET r == Submitted(q, j)
         IN  /\ r \in Queue /\ r.completed = q.completed /\ r.queue = q.queue /\ r.states = q.states
             /\ r.inFlight = q.inFlight /\ r.pending = q.pending /\ r.deadLetters = q.deadLetters
             /\ r.seen = Trimmed(Added(q.seen, KeyOf(j)))
<1>1. KeyOf(j) \in Key /\ q.seen \in Seq(Key)
  BY PayloadTypes, Fields
<1>2. Trimmed(Added(q.seen, KeyOf(j))) \in Seq(Key)
  BY <1>1, AddedKeys, TrimmedType
<1>3. Submitted(q, j) = [q EXCEPT !.seen = Trimmed(Added(q.seen, KeyOf(j)))]
  BY DEF Submitted
<1> QED BY <1>2, <1>3 DEF Queue

\* An end of a job deletes the claim of its pull request and nothing else.
LEMMA FreedEffect ==
  ASSUME NEW q \in Queue, NEW j \in Job
  PROVE  LET r == Freed(q, j)
         IN  /\ r \in Queue /\ r.seen = q.seen /\ r.completed = q.completed /\ r.queue = q.queue
             /\ r.states = q.states /\ r.pending = q.pending /\ r.deadLetters = q.deadLetters
             /\ r.inFlight = [q.inFlight EXCEPT ![j.pr] = NoJob]
<1>1. Freed(q, j) = [q EXCEPT !.inFlight = [q.inFlight EXCEPT ![j.pr] = NoJob]]
  BY DEF Freed, Queue
<1>2. [q.inFlight EXCEPT ![j.pr] = NoJob] \in [PR -> Job \cup {NoJob}]
  BY Fields
<1> QED BY <1>1, <1>2 DEF Queue

\* What an enqueue leaves in line or behind the claim of the pull request.
LEMMA EnqueuedEffect ==
  ASSUME NEW q \in Queue, NEW j \in Job
  PROVE  LET s == Submitted(q, j)
             r == Become(s, j, "ready")
         IN  /\ r \in Queue /\ r.seen = Trimmed(Added(q.seen, KeyOf(j))) /\ r.completed = q.completed
             /\ r.queue = q.queue /\ r.pending = q.pending /\ r.inFlight = q.inFlight
             /\ r.states = [q.states EXCEPT ![KeyOf(j)] = "ready"]
             /\ Enqueued(q, j) \in Queue
             /\ \/ Enqueued(q, j) = q
                \/ ~Refuses(q, j) /\ Enqueued(q, j) = s
                \/ /\ ~Refuses(q, j) /\ q.inFlight[j.pr] # NoJob
                   /\ Enqueued(q, j) = PushCoalesced(r, j)
                \/ /\ ~Refuses(q, j) /\ q.inFlight[j.pr] = NoJob
                   /\ Enqueued(q, j) = [r EXCEPT !.queue = Append(r.queue, Now(j))]
<1> DEFINE s == Submitted(q, j)
           r == Become(s, j, "ready")
           lined == [r EXCEPT !.queue = Append(r.queue, Now(j))]
<1>0. "ready" \in JobState
  BY DEF JobState
<1>1. /\ s \in Queue /\ s.completed = q.completed /\ s.queue = q.queue /\ s.states = q.states
      /\ s.inFlight = q.inFlight /\ s.pending = q.pending /\ s.seen = Trimmed(Added(q.seen, KeyOf(j)))
  BY SubmittedEffect
<1> HIDE DEF s
<1>2. /\ r \in Queue /\ r.seen = s.seen /\ r.completed = s.completed /\ r.queue = s.queue
      /\ r.inFlight = s.inFlight /\ r.pending = s.pending
      /\ r.states = [s.states EXCEPT ![KeyOf(j)] = "ready"]
  BY <1>0, <1>1, BecomeEffect
<1> HIDE DEF r
<1>3. /\ r.seen = Trimmed(Added(q.seen, KeyOf(j))) /\ r.completed = q.completed
      /\ r.queue = q.queue /\ r.pending = q.pending /\ r.inFlight = q.inFlight
      /\ r.states = [q.states EXCEPT ![KeyOf(j)] = "ready"]
  BY <1>1, <1>2
<1>4. PushCoalesced(r, j) \in Queue
  BY <1>2, PushEffect
<1>5. lined \in Queue
  <2>1. Now(j) \in Waiting /\ q.queue \in Seq(Waiting)
    BY Fields DEF Now, Waiting
  <2>2. Append(r.queue, Now(j)) \in Seq(Waiting)
    BY <1>3, <2>1, AppendProperties
  <2> QED BY <1>2, <2>2 DEF Queue
<1>6. \/ Enqueued(q, j) = q
      \/ ~Refuses(q, j) /\ Enqueued(q, j) = s
      \/ /\ ~Refuses(q, j) /\ q.inFlight[j.pr] # NoJob
         /\ Enqueued(q, j) = PushCoalesced(r, j)
      \/ /\ ~Refuses(q, j) /\ q.inFlight[j.pr] = NoJob
         /\ Enqueued(q, j) = lined
  <2>1. Enqueued(q, j) =
          IF Refuses(q, j) THEN q
          ELSE IF ~MayBecome(q, j, "ready") THEN s
          ELSE IF r.inFlight[j.pr] # NoJob THEN PushCoalesced(r, j) ELSE lined
    BY <1>3 DEF Enqueued, r, s
  <2> HIDE DEF lined
  <2> QED BY <1>3, <2>1
<1>7. Enqueued(q, j) \in Queue
  <2> HIDE DEF lined
  <2> QED BY <1>1, <1>4, <1>5, <1>6
<1> QED BY <1>2, <1>3, <1>6, <1>7 DEF r, s

\* markCompleted frees the claim, notes the keys and writes the state.
LEMMA CompletedEffect ==
  ASSUME NEW q \in Queue, NEW j \in Job, NEW draft \in BOOLEAN
  PROVE  LET r == Completed(q, j, draft)
         IN  /\ r \in Queue /\ r.seen = q.seen /\ r.completed = Trimmed(Marked(q.completed, j, draft))
             /\ r.queue = q.queue /\ r.pending = q.pending
             /\ r.inFlight = [q.inFlight EXCEPT ![j.pr] = NoJob]
             /\ r.states = [q.states EXCEPT ![KeyOf(j)] = "succeeded"]
<1> DEFINE a == [q EXCEPT !.completed = Trimmed(Marked(q.completed, j, draft))]
           b == Become(a, j, "succeeded")
           r == Freed(b, j)
<1>0. "succeeded" \in JobState
  BY DEF JobState
<1>1. Trimmed(Marked(q.completed, j, draft)) \in Seq(Key)
  <2>1. /\ q.completed \in Seq(Key)
        /\ KeyOf(j) \in Key /\ BareOf(j) \in Key /\ DraftOf(j) \in Key
    BY PayloadTypes, Fields
  <2>2. Marked(q.completed, j, draft) \in Seq(Key)
    BY <2>1, AddedKeys DEF Marked
  <2> QED BY <2>2, TrimmedType
<1>2. /\ a \in Queue /\ a.seen = q.seen /\ a.queue = q.queue /\ a.pending = q.pending
      /\ a.completed = Trimmed(Marked(q.completed, j, draft))
      /\ a.inFlight = q.inFlight /\ a.states = q.states
  BY <1>1 DEF Queue
<1> HIDE DEF a
<1>3. /\ b \in Queue /\ b.seen = a.seen /\ b.completed = a.completed /\ b.queue = a.queue
      /\ b.inFlight = a.inFlight /\ b.pending = a.pending
      /\ b.states = [a.states EXCEPT ![KeyOf(j)] = "succeeded"]
  BY <1>0, <1>2, BecomeEffect
<1> HIDE DEF b
<1>4. /\ r \in Queue /\ r.seen = b.seen /\ r.completed = b.completed /\ r.queue = b.queue
      /\ r.states = b.states /\ r.pending = b.pending
      /\ r.inFlight = [b.inFlight EXCEPT ![j.pr] = NoJob]
  BY <1>3, FreedEffect
<1>5. Completed(q, j, draft) = r
  BY DEF Completed, r, a, b
<1> HIDE DEF r
<1> QED BY <1>2, <1>3, <1>4, <1>5

FailState(dead) == IF dead THEN "dead-lettered" ELSE "failed"

\* markFailed frees the claim, forgets the key and buries the job or not.
LEMMA FailedEffect ==
  ASSUME NEW q \in Queue, NEW j \in Job, NEW dead \in BOOLEAN
  PROVE  LET r == Failed(q, j, dead)
         IN  /\ r \in Queue /\ r.seen = Forgotten(q.seen, KeyOf(j)) /\ r.completed = q.completed
             /\ r.queue = q.queue /\ r.pending = q.pending
             /\ r.inFlight = [q.inFlight EXCEPT ![j.pr] = NoJob]
             /\ r.states = [q.states EXCEPT ![KeyOf(j)] = FailState(dead)]
<1> DEFINE a == [q EXCEPT !.seen = Forgotten(q.seen, KeyOf(j))]
           b == Freed(a, j)
           c == IF dead THEN [b EXCEPT !.deadLetters = <<j>> \o b.deadLetters] ELSE b
           to == FailState(dead)
           r == Become(c, j, to)
<1>0. to \in JobState
  BY DEF JobState, FailState
<1>1. Forgotten(q.seen, KeyOf(j)) \in Seq(Key)
  BY PayloadTypes, ForgottenKeys, Fields
<1>2. /\ a \in Queue /\ a.completed = q.completed /\ a.queue = q.queue /\ a.pending = q.pending
      /\ a.seen = Forgotten(q.seen, KeyOf(j)) /\ a.inFlight = q.inFlight /\ a.states = q.states
  BY <1>1 DEF Queue
<1> HIDE DEF a
<1>3. /\ b \in Queue /\ b.seen = a.seen /\ b.completed = a.completed /\ b.queue = a.queue
      /\ b.states = a.states /\ b.pending = a.pending
      /\ b.inFlight = [a.inFlight EXCEPT ![j.pr] = NoJob]
  BY <1>2, FreedEffect
<1> HIDE DEF b
<1>4. /\ c \in Queue /\ c.seen = b.seen /\ c.completed = b.completed /\ c.queue = b.queue
      /\ c.states = b.states /\ c.pending = b.pending /\ c.inFlight = b.inFlight
  <2>1. b.deadLetters \in Seq(Job)
    BY <1>3, Fields
  <2>2. <<j>> \o b.deadLetters \in Seq(Job)
    BY <2>1, ConsKeys
  <2> QED BY <1>3, <2>2 DEF Queue
<1>5. Failed(q, j, dead) = r
  BY DEF Failed, FailState, a, b
<1> HIDE DEF c, to
<1>6. /\ r \in Queue /\ r.seen = c.seen /\ r.completed = c.completed /\ r.queue = c.queue
      /\ r.inFlight = c.inFlight /\ r.pending = c.pending
      /\ r.states = [c.states EXCEPT ![KeyOf(j)] = to]
  BY <1>0, <1>4, BecomeEffect
<1> HIDE DEF r
<1>7. r.states = [q.states EXCEPT ![KeyOf(j)] = to]
  BY <1>2, <1>3, <1>4, <1>6
<1> QED BY <1>2, <1>3, <1>4, <1>5, <1>6, <1>7 DEF to

\* A job handed back, or the job that waited behind it, at the head.
BackEntry(q, j, early) ==
  IF q.pending[j.pr] = <<>> THEN [job |-> j, early |-> early] ELSE Now(Head(q.pending[j.pr]))
BackPending(q, j) ==
  IF q.pending[j.pr] = <<>> THEN q.pending ELSE [q.pending EXCEPT ![j.pr] = Tail(q.pending[j.pr])]
BackState(q, j) == IF q.pending[j.pr] = <<>> THEN "ready" ELSE "cancelled"
BackStates(q, j) == [q.states EXCEPT ![KeyOf(j)] = BackState(q, j)]

\* returnToQueue frees the claim and puts the job, or the review that waits in
\* its place, first in the line.
LEMMA ReturnedEffect ==
  ASSUME NEW q \in Queue, NEW j \in Job, NEW early \in BOOLEAN
  PROVE  LET r == Returned(q, j, early)
         IN  /\ r \in Queue /\ r.seen = q.seen /\ r.completed = q.completed
             /\ r.inFlight = [q.inFlight EXCEPT ![j.pr] = NoJob]
             /\ r.queue = <<BackEntry(q, j, early)>> \o q.queue
             /\ r.pending = BackPending(q, j)
             /\ r.states = BackStates(q, j)
<1> DEFINE list == q.pending[j.pr]
           a == Freed(q, j)
           back == [job |-> j, early |-> early]
           b == IF list # <<>> THEN [a EXCEPT !.pending = [q.pending EXCEPT ![j.pr] = Tail(list)],
                                              !.queue = <<Now(Head(list))>> \o q.queue]
                ELSE [a EXCEPT !.queue = <<back>> \o q.queue]
           to == IF list = <<>> THEN "ready" ELSE "cancelled"
           r == Become(b, j, to)
<1>0. to \in JobState
  BY DEF JobState
<1>1. list \in Seq(Job) /\ j.pr \in PR /\ q.queue \in Seq(Waiting) /\ q.pending \in [PR -> Seq(Job)]
  BY PayloadTypes, Fields
<1>2. /\ a \in Queue /\ a.seen = q.seen /\ a.completed = q.completed /\ a.queue = q.queue
      /\ a.states = q.states /\ a.pending = q.pending
      /\ a.inFlight = [q.inFlight EXCEPT ![j.pr] = NoJob]
  BY FreedEffect
<1>3. r = Returned(q, j, early)
  BY <1>2 DEF Returned, Queue
<1> HIDE DEF a
<1>4. <<back>> \o q.queue \in Seq(Waiting)
  <2>1. back \in Waiting
    BY DEF Waiting
  <2> HIDE DEF back
  <2> QED BY <1>1, <2>1, ConsKeys
<1>5. ASSUME list # <<>>
      PROVE  /\ <<Now(Head(list))>> \o q.queue \in Seq(Waiting)
             /\ [q.pending EXCEPT ![j.pr] = Tail(list)] \in [PR -> Seq(Job)]
  <2>1. Head(list) \in Job /\ Tail(list) \in Seq(Job)
    BY <1>1, <1>5, TailKeys
  <2>2. Now(Head(list)) \in Waiting
    BY <2>1 DEF Now, Waiting
  <2>3. <<Now(Head(list))>> \o q.queue \in Seq(Waiting)
    BY <1>1, <2>2, ConsKeys
  <2> HIDE DEF list
  <2> QED BY <1>1, <2>1, <2>3
<1>6. b \in Queue /\ b.seen = a.seen /\ b.completed = a.completed /\ b.states = a.states /\ b.inFlight = a.inFlight
  <2> HIDE DEF list, back
  <2> QED BY <1>2, <1>4, <1>5 DEF Queue
<1>7. /\ list # <<>> => b.queue = <<Now(Head(list))>> \o q.queue /\ b.pending = [q.pending EXCEPT ![j.pr] = Tail(list)]
      /\ list = <<>> => b.queue = <<back>> \o q.queue /\ b.pending = q.pending
  <2> HIDE DEF list, back
  <2> QED BY <1>2 DEF Queue
<1> HIDE DEF b
<1>8. /\ r \in Queue /\ r.seen = b.seen /\ r.completed = b.completed /\ r.queue = b.queue
      /\ r.inFlight = b.inFlight /\ r.pending = b.pending
      /\ r.states = [b.states EXCEPT ![KeyOf(j)] = to]
  <2> HIDE DEF to, list
  <2> QED BY <1>0, <1>6, BecomeEffect
<1> HIDE DEF r
<1>9. r.states = [q.states EXCEPT ![KeyOf(j)] = to]
  <2> HIDE DEF to, list
  <2> QED BY <1>2, <1>6, <1>8
<1>10. /\ r.queue = <<IF list = <<>> THEN back ELSE Now(Head(list))>> \o q.queue
       /\ r.pending = IF list = <<>> THEN q.pending ELSE [q.pending EXCEPT ![j.pr] = Tail(list)]
  <2>1. CASE list = <<>>
    BY <1>7, <1>8, <2>1
  <2>2. CASE list # <<>>
    BY <1>7, <1>8, <2>2
  <2> QED BY <2>1, <2>2
<1> QED BY <1>2, <1>3, <1>6, <1>8, <1>9, <1>10 DEF BackEntry, BackPending, BackState, BackStates

\* releaseLockAndDrain moves the first of the list to the line.
LEMMA DrainedEffect ==
  ASSUME NEW q \in Queue, NEW p \in PR
  PROVE  LET r == Drained(q, p)
             list == q.pending[p]
         IN  /\ r \in Queue
             /\ list = <<>> => r = q
             /\ list # <<>> => /\ r.queue = Append(q.queue, Now(Head(list)))
                               /\ r.pending = [q.pending EXCEPT ![p] = Tail(list)]
                               /\ r.seen = q.seen /\ r.completed = q.completed
                               /\ r.states = q.states /\ r.inFlight = q.inFlight
<1> DEFINE list == q.pending[p]
<1>1. list \in Seq(Job) /\ q.queue \in Seq(Waiting) /\ q.pending \in [PR -> Seq(Job)]
  BY Fields
<1>2. CASE list = <<>>
  BY <1>2 DEF Drained
<1>3. CASE list # <<>>
  <2> DEFINE r == [q EXCEPT !.pending = [q.pending EXCEPT ![p] = Tail(list)],
                            !.queue = Append(q.queue, Now(Head(list)))]
  <2>1. Head(list) \in Job /\ Tail(list) \in Seq(Job)
    BY <1>1, <1>3, TailKeys
  <2>2. Now(Head(list)) \in Waiting
    BY <2>1 DEF Now, Waiting
  <2>3. Append(q.queue, Now(Head(list))) \in Seq(Waiting)
    BY <1>1, <2>2, AppendProperties
  <2>4. [q.pending EXCEPT ![p] = Tail(list)] \in [PR -> Seq(Job)]
    <3> HIDE DEF list
    <3> QED BY <1>1, <2>1
  <2>5. Drained(q, p) = r
    BY <1>3 DEF Drained, Queue
  <2> HIDE DEF list
  <2> QED BY <1>3, <2>3, <2>4, <2>5 DEF Queue, list
<1> QED BY <1>2, <1>3

\* A replay queues its job where the key may be ready again.
LEMMA ReplayedEffect ==
  ASSUME NEW q \in Queue, NEW i \in DOMAIN q.deadLetters
  PROVE  LET r == Replayed(q, i)
             j == q.deadLetters[i]
         IN  /\ j \in Job /\ r \in Queue /\ r.seen = Trimmed(Added(q.seen, KeyOf(j)))
             /\ r.completed = q.completed /\ r.pending = q.pending /\ r.inFlight = q.inFlight
             /\ MayBecome(q, j, "ready") => /\ r.queue = Append(q.queue, Now(j))
                                            /\ r.states = [q.states EXCEPT ![KeyOf(j)] = "ready"]
             /\ ~MayBecome(q, j, "ready") => r.queue = q.queue /\ r.states = q.states
<1> DEFINE j == q.deadLetters[i]
           a == Submitted(q, j)
           b == [a EXCEPT !.deadLetters = RemoveAt(a.deadLetters, i)]
           c == IF MayBecome(q, j, "ready") THEN [b EXCEPT !.queue = Append(q.queue, Now(j))] ELSE b
           r == IF MayBecome(q, j, "ready") THEN Become(c, j, "ready") ELSE c
<1>0. "ready" \in JobState
  BY DEF JobState
<1>1. j \in Job /\ q.queue \in Seq(Waiting) /\ q.deadLetters \in Seq(Job)
  BY Fields, LenProperties, ElementOfSeq
<1>2. Append(q.queue, Now(j)) \in Seq(Waiting)
  <2>1. Now(j) \in Waiting
    BY <1>1 DEF Now, Waiting
  <2> QED BY <1>1, <2>1, AppendProperties
<1>3. /\ a \in Queue /\ a.completed = q.completed /\ a.queue = q.queue /\ a.states = q.states
      /\ a.inFlight = q.inFlight /\ a.pending = q.pending /\ a.deadLetters = q.deadLetters
      /\ a.seen = Trimmed(Added(q.seen, KeyOf(j)))
  <2> HIDE DEF j
  <2> QED BY <1>1, SubmittedEffect
<1>4. r = Replayed(q, i)
  BY <1>3 DEF Replayed, Queue
<1> HIDE DEF a, j
<1>5. /\ b \in Queue /\ b.completed = a.completed /\ b.queue = a.queue /\ b.states = a.states
      /\ b.inFlight = a.inFlight /\ b.pending = a.pending /\ b.seen = a.seen
  <2>1. RemoveAt(a.deadLetters, i) \in Seq(Job)
    BY <1>1, <1>3, RemoveAtPlaces
  <2> QED BY <1>3, <2>1 DEF Queue
<1> HIDE DEF b
<1>6. /\ c \in Queue /\ c.completed = b.completed /\ c.states = b.states
      /\ c.inFlight = b.inFlight /\ c.pending = b.pending /\ c.seen = b.seen
      /\ c.queue = IF MayBecome(q, j, "ready") THEN Append(q.queue, Now(j)) ELSE b.queue
  BY <1>2, <1>5 DEF Queue
<1> HIDE DEF c
<1>7. LET d == Become(c, j, "ready")
      IN  /\ d \in Queue /\ d.seen = c.seen /\ d.completed = c.completed /\ d.queue = c.queue
          /\ d.inFlight = c.inFlight /\ d.pending = c.pending
          /\ d.states = [c.states EXCEPT ![KeyOf(j)] = "ready"]
  BY <1>0, <1>1, <1>6, BecomeEffect
<1>8. r \in Queue /\ r.completed = c.completed /\ r.inFlight = c.inFlight /\ r.pending = c.pending
      /\ r.seen = c.seen /\ r.queue = c.queue
      /\ r.states = IF MayBecome(q, j, "ready") THEN [c.states EXCEPT ![KeyOf(j)] = "ready"] ELSE c.states
  BY <1>6, <1>7
<1> HIDE DEF r
<1> QED BY <1>1, <1>3, <1>4, <1>5, <1>6, <1>8 DEF j

-----------------------------------------------------------------------------
(* dequeue: one look, and how often there is one.                          *)

\* The job that is looked at first is one that is due.
LEMMA NextIsDue ==
  ASSUME NEW q \in Queue, Due(q) # {}
  PROVE  Next1(q) \in Due(q) /\ Due(q) \subseteq DOMAIN q.queue
<1> DEFINE n == Len(q.queue)
           rank == [i \in Due(q) |-> q.queue[i].job.priority]
<1>1. n \in Nat /\ DOMAIN q.queue = 1..n /\ \A i \in 1..n : q.queue[i] \in Waiting
  BY Fields, LenProperties, ElementOfSeq
<1>2. Min({InspectionWindow, n}) \in Nat /\ Min({InspectionWindow, n}) <= n
  <2>1. {InspectionWindow, n} \subseteq Nat /\ {InspectionWindow, n} # {}
    BY <1>1, DedupAssumption
  <2>2. Min({InspectionWindow, n}) \in {InspectionWindow, n} /\ \A k \in {InspectionWindow, n} : Min({InspectionWindow, n}) <= k
    <3> HIDE DEF n
    <3> QED BY <2>1, MinInSet
  <2> HIDE DEF n
  <2> QED BY <2>1, <2>2
<1>3. Due(q) \subseteq 1..n
  <2> HIDE DEF n
  <2> QED BY <1>1, <1>2 DEF Due, n
<1>4. rank \in [Due(q) -> Nat]
  <2>1. \A i \in Due(q) : q.queue[i].job \in Job
    BY <1>1, <1>3 DEF Waiting
  <2>2. \A i \in Due(q) : q.queue[i].job.priority \in Nat
    BY <2>1, PayloadTypes DEF IsPayload
  <2> QED BY <2>2
<1>5. \E i \in Due(q) : \A k \in Due(q) : rank[k] < rank[i] \/ (rank[k] = rank[i] /\ i <= k)
  <2> HIDE DEF rank, n
  <2> QED BY <1>1, <1>3, <1>4, FirstExists
<1>6. \E i \in Due(q) : \A k \in Due(q) :
        \/ q.queue[i].job.priority > q.queue[k].job.priority
        \/ q.queue[i].job.priority = q.queue[k].job.priority /\ i <= k
  <2>1. \A i, k \in Due(q) : rank[k] < rank[i] \/ (rank[k] = rank[i] /\ i <= k) =>
          \/ q.queue[i].job.priority > q.queue[k].job.priority
          \/ q.queue[i].job.priority = q.queue[k].job.priority /\ i <= k
    BY <1>4
  <2> HIDE DEF rank
  <2> QED BY <1>5, <2>1
<1> QED BY <1>1, <1>3, <1>6 DEF Next1

\* What one look does with the job it takes out of the line.
LEMMA InspectEffect ==
  ASSUME NEW q \in Queue, Due(q) # {}
  PROVE  LET n == Next1(q)
             j == q.queue[n].job
             rest == [q EXCEPT !.queue = RemoveAt(q.queue, n)]
             r == Inspect(q)
         IN  /\ n \in DOMAIN q.queue /\ j \in Job
             /\ rest \in Queue /\ rest.queue = RemoveAt(q.queue, n)
             /\ rest.seen = q.seen /\ rest.completed = q.completed /\ rest.states = q.states
             /\ rest.inFlight = q.inFlight /\ rest.pending = q.pending
             /\ \/ AlreadyDone(q, j) /\ r.q = rest /\ r.job = NoJob
                \/ /\ ~AlreadyDone(q, j) /\ q.inFlight[j.pr] # NoJob
                   /\ r.q = PushCoalesced(rest, j) /\ r.job = NoJob
                \/ /\ ~AlreadyDone(q, j) /\ q.inFlight[j.pr] = NoJob
                   /\ r.q \in Queue /\ r.q.queue = RemoveAt(q.queue, n) /\ r.q.seen = q.seen
                   /\ r.q.completed = q.completed /\ r.q.pending = q.pending
                   /\ r.q.inFlight = [q.inFlight EXCEPT ![j.pr] = j]
                   /\ \/ /\ MayBecome(q, j, "claimed") /\ r.job = j
                         /\ r.q.states = [q.states EXCEPT ![KeyOf(j)] = "claimed"]
                      \/ ~MayBecome(q, j, "claimed") /\ r.job = Thrown /\ r.q.states = q.states
<1> DEFINE n == Next1(q)
           j == q.queue[n].job
           rest == [q EXCEPT !.queue = RemoveAt(q.queue, n)]
           claimed == [rest EXCEPT !.inFlight = [q.inFlight EXCEPT ![j.pr] = j]]
           r == Inspect(q)
<1>0. "claimed" \in JobState
  BY DEF JobState
<1>1. n \in DOMAIN q.queue /\ q.queue \in Seq(Waiting)
  BY NextIsDue, Fields
<1>2. j \in Job
  <2>1. q.queue[n] \in Waiting
    BY <1>1, ElementOfSeq, LenProperties
  <2> QED BY <2>1 DEF Waiting
<1>3. RemoveAt(q.queue, n) \in Seq(Waiting)
  BY <1>1, RemoveAtPlaces
<1>4. /\ rest \in Queue /\ rest.queue = RemoveAt(q.queue, n)
      /\ rest.seen = q.seen /\ rest.completed = q.completed /\ rest.states = q.states
      /\ rest.inFlight = q.inFlight /\ rest.pending = q.pending
  <2> HIDE DEF n
  <2> QED BY <1>3 DEF Queue
<1>5. r = IF AlreadyDone(q, j) THEN [q |-> rest, job |-> NoJob]
          ELSE IF q.inFlight[j.pr] # NoJob THEN [q |-> PushCoalesced(rest, j), job |-> NoJob]
          ELSE IF MayBecome(q, j, "claimed") THEN [q |-> Become(claimed, j, "claimed"), job |-> j]
          ELSE [q |-> claimed, job |-> Thrown]
  BY <1>4 DEF Inspect, Queue
<1> HIDE DEF n, j, rest, r
<1>6. /\ claimed \in Queue /\ claimed.queue = rest.queue /\ claimed.seen = q.seen
      /\ claimed.completed = q.completed /\ claimed.states = q.states /\ claimed.pending = q.pending
      /\ claimed.inFlight = [q.inFlight EXCEPT ![j.pr] = j]
  <2>1. [q.inFlight EXCEPT ![j.pr] = j] \in [PR -> Job \cup {NoJob}]
    BY <1>2, Fields
  <2> QED BY <1>4, <2>1 DEF Queue
<1> HIDE DEF claimed
<1>7. LET d == Become(claimed, j, "claimed")
      IN  /\ d \in Queue /\ d.seen = claimed.seen /\ d.completed = claimed.completed
          /\ d.queue = claimed.queue /\ d.inFlight = claimed.inFlight /\ d.pending = claimed.pending
          /\ d.states = [claimed.states EXCEPT ![KeyOf(j)] = "claimed"]
  BY <1>0, <1>2, <1>6, BecomeEffect
<1>8. \/ AlreadyDone(q, j) /\ r.q = rest /\ r.job = NoJob
      \/ ~AlreadyDone(q, j) /\ q.inFlight[j.pr] # NoJob /\ r.q = PushCoalesced(rest, j) /\ r.job = NoJob
      \/ /\ ~AlreadyDone(q, j) /\ q.inFlight[j.pr] = NoJob
         /\ \/ MayBecome(q, j, "claimed") /\ r.job = j /\ r.q = Become(claimed, j, "claimed")
            \/ ~MayBecome(q, j, "claimed") /\ r.job = Thrown /\ r.q = claimed
  BY <1>5
<1>9. \/ AlreadyDone(q, j) /\ r.q = rest /\ r.job = NoJob
      \/ ~AlreadyDone(q, j) /\ q.inFlight[j.pr] # NoJob /\ r.q = PushCoalesced(rest, j) /\ r.job = NoJob
      \/ /\ ~AlreadyDone(q, j) /\ q.inFlight[j.pr] = NoJob
         /\ r.q \in Queue /\ r.q.queue = RemoveAt(q.queue, n) /\ r.q.seen = q.seen
         /\ r.q.completed = q.completed /\ r.q.pending = q.pending
         /\ r.q.inFlight = [q.inFlight EXCEPT ![j.pr] = j]
         /\ \/ /\ MayBecome(q, j, "claimed") /\ r.job = j
               /\ r.q.states = [q.states EXCEPT ![KeyOf(j)] = "claimed"]
            \/ ~MayBecome(q, j, "claimed") /\ r.job = Thrown /\ r.q.states = q.states
  BY <1>4, <1>6, <1>7, <1>8
<1> QED BY <1>1, <1>2, <1>4, <1>9 DEF n, j, rest, r

\* The function that dequeue is defined by exists, and is in every set that
\* has its start and is closed under one look.
LEMMA DequeuedIn ==
  ASSUME NEW q, NEW G, [q |-> q, job |-> NoJob] \in G, \A r \in G : LooksOn(r) \in G
  PROVE  Dequeued(q) \in G
<1> DEFINE start == [q |-> q, job |-> NoJob]
           W == InspectionWindow
           Def(n, f) == f = [i \in 0..n |-> IF i = 0 THEN start ELSE LooksOn(f[i - 1])]
           Missing == {n \in Nat : \A f : ~ Def(n, f)}
<1>0. W \in Nat
  BY DedupAssumption
<1>1. 0 \notin Missing
  <2>1. Def(0, [i \in 0..0 |-> start])
    OBVIOUS
  <2> HIDE DEF Def
  <2> QED BY <2>1
<1>2. ASSUME NEW n \in Nat, n \notin Missing PROVE n + 1 \notin Missing
  <2>1. PICK f : Def(n, f)
    BY <1>2
  <2> DEFINE g == [i \in 0..(n + 1) |-> IF i = 0 THEN start ELSE LooksOn(f[i - 1])]
  <2> HIDE DEF start
  <2>2. \A i \in 0..n : i \in 0..(n + 1) /\ g[i] = f[i]
    <3>1. \A i \in 0..n : i \in 0..(n + 1)
      OBVIOUS
    <3>2. \A i \in 0..n : f[i] = IF i = 0 THEN start ELSE LooksOn(f[i - 1])
      BY <2>1, Zenon
    <3>3. \A i \in 0..(n + 1) : g[i] = IF i = 0 THEN start ELSE LooksOn(f[i - 1])
      BY Zenon
    <3> HIDE DEF g
    <3> QED BY <3>1, <3>2, <3>3, Zenon
  <2>3. \A i \in 0..(n + 1) : i # 0 => i - 1 \in 0..n
    OBVIOUS
  <2>4. \A i \in 0..(n + 1) : g[i] = IF i = 0 THEN start ELSE LooksOn(g[i - 1])
    <3>1. \A i \in 0..(n + 1) : g[i] = IF i = 0 THEN start ELSE LooksOn(f[i - 1])
      BY Zenon
    <3> HIDE DEF g
    <3> QED BY <2>2, <2>3, <3>1, Zenon
  <2>5. g = [i \in 0..(n + 1) |-> g[i]]
    BY Zenon
  <2>6. Def(n + 1, g)
    <3> HIDE DEF g
    <3> QED BY <2>4, <2>5, Zenon
  <2> HIDE DEF g, Def
  <2> QED BY <2>6
<1>3. Missing = {}
  <2>1. Missing \subseteq Nat
    OBVIOUS
  <2> HIDE DEF Missing
  <2> SUFFICES ASSUME Missing # {} PROVE FALSE
    OBVIOUS
  <2>2. PICK i \in Missing : \A k \in Missing : i <= k
    BY <2>1, LeastExists
  <2>3. i # 0 /\ i \in Nat
    BY <1>1, <2>1
  <2>4. i - 1 \in Nat /\ i - 1 \notin Missing
    BY <2>2, <2>3
  <2>5. (i - 1) + 1 \notin Missing
    BY <1>2, <2>4
  <2> QED BY <2>3, <2>5
<1> DEFINE look == CHOOSE f : Def(W, f)
<1>4. Def(W, look)
  <2>1. \E f : Def(W, f)
    <3> HIDE DEF Def
    <3> QED BY <1>0, <1>3
  <2> QED BY <2>1, Zenon
<1>5. Dequeued(q) = look[W]
  BY Zenon DEF Dequeued
<1> HIDE DEF look
<1>6. \A i \in 0..W : look[i] = IF i = 0 THEN start ELSE LooksOn(look[i - 1])
  BY <1>4, Zenon
<1> DEFINE Bad == {i \in 0..W : look[i] \notin G}
<1>7. Bad = {}
  <2>1. Bad \subseteq Nat
    BY <1>0
  <2>2. \A i \in 0..W : i = 0 \/ i - 1 \in 0..W
    BY <1>0
  <2>3. \A i \in Bad : i # 0 /\ i - 1 \in Bad
    <3> SUFFICES ASSUME NEW i \in Bad PROVE i # 0 /\ i - 1 \in Bad
      OBVIOUS
    <3>1. i \in 0..W /\ look[i] \notin G /\ start \in G
      OBVIOUS
    <3>2. i # 0
      BY <1>6, <3>1, Zenon
    <3>3. look[i - 1] \notin G
      BY <1>6, <3>1, <3>2, Zenon
    <3> QED BY <2>2, <3>1, <3>2, <3>3
  <2> HIDE DEF Bad
  <2> SUFFICES ASSUME Bad # {} PROVE FALSE
    OBVIOUS
  <2>4. PICK i \in Bad : \A k \in Bad : i <= k
    BY <2>1, LeastExists
  <2>5. i <= i - 1 /\ i \in Nat
    BY <2>1, <2>3, <2>4
  <2> QED BY <2>5
<1>8. W \in 0..W
  BY <1>0
<1> QED BY <1>5, <1>7, <1>8

-----------------------------------------------------------------------------
(* Commands behind the claim of a pull request.                            *)

Commands(list) == {list[i] : i \in {k \in DOMAIN list : ~list[k].review}}
KeepsBehind(q, r) == \A p \in PR : Commands(q.pending[p]) \subseteq Commands(r.pending[p])

\* A job that comes behind a claim takes no command's place.
LEMMA PushKeeps ==
  ASSUME NEW q \in Queue, NEW j \in Job
  PROVE  KeepsBehind(q, PushCoalesced(q, j))
<1> DEFINE list == q.pending[j.pr]
           i == PushedAt(list, j)
           r == PushCoalesced(q, j)
<1>0. r.pending = PushedPending(q, j)
  BY PushEffect
<1>1. list \in Seq(Job) /\ j.pr \in PR /\ q.pending \in [PR -> Seq(Job)] /\ DOMAIN list = 1..Len(list) /\ Len(list) \in Nat
  BY PayloadTypes, Fields, LenProperties
<1>2. CASE i = 0
  <2>1. r.pending = [q.pending EXCEPT ![j.pr] = Append(list, j)]
    BY <1>0, <1>2 DEF PushedPending
  <2>2. /\ DOMAIN Append(list, j) = 1..(Len(list) + 1)
        /\ \A k \in 1..Len(list) : Append(list, j)[k] = list[k]
    BY <1>1, AppendProperties, LenProperties
  <2>3. \A k \in DOMAIN list : k \in DOMAIN Append(list, j) /\ Append(list, j)[k] = list[k]
    BY <1>1, <2>2
  <2>4. Commands(list) \subseteq Commands(Append(list, j))
    <3> DEFINE more == Append(list, j)
    <3> HIDE DEF list, more
    <3> QED BY <2>3 DEF Commands
  <2>5. \A p \in PR : Commands(q.pending[p]) \subseteq Commands(r.pending[p])
    <3> HIDE DEF r, i
    <3> QED BY <1>1, <2>1, <2>4
  <2> QED BY <2>5 DEF KeepsBehind
<1>3. CASE i # 0
  <2>1. r.pending = [q.pending EXCEPT ![j.pr] = [list EXCEPT ![i] = j]]
    BY <1>0, <1>3 DEF PushedPending
  <2>2. i \in DOMAIN list /\ list[i].review
    BY <1>1, <1>3, PushedAtWhere
  <2>3. Commands(list) \subseteq Commands([list EXCEPT ![i] = j])
    <3> HIDE DEF list, i
    <3> QED BY <2>2 DEF Commands
  <2>4. \A p \in PR : Commands(q.pending[p]) \subseteq Commands(r.pending[p])
    <3> HIDE DEF r, i
    <3> QED BY <1>1, <2>1, <2>3
  <2> QED BY <2>4 DEF KeepsBehind
<1> QED BY <1>2, <1>3

\* Nor does a job that is enqueued.
LEMMA EnqueuedKeeps ==
  ASSUME NEW q \in Queue, NEW j \in Job
  PROVE  Enqueued(q, j) \in Queue /\ KeepsBehind(q, Enqueued(q, j))
<1> DEFINE s == Submitted(q, j)
           r == Become(s, j, "ready")
<1>1. r \in Queue /\ r.pending = q.pending /\ s.pending = q.pending
  BY EnqueuedEffect, SubmittedEffect
<1>2. KeepsBehind(r, PushCoalesced(r, j))
  <2> HIDE DEF r
  <2> QED BY <1>1, PushKeeps
<1>3. [r EXCEPT !.queue = Append(r.queue, Now(j))].pending = r.pending
  <2> HIDE DEF r
  <2> QED BY <1>1 DEF Queue
<1>4. \/ Enqueued(q, j) = q \/ Enqueued(q, j) = s \/ Enqueued(q, j) = PushCoalesced(r, j)
      \/ Enqueued(q, j) = [r EXCEPT !.queue = Append(r.queue, Now(j))]
  BY EnqueuedEffect
<1>5. Enqueued(q, j) \in Queue
  BY EnqueuedEffect
<1> HIDE DEF r, s
<1> QED BY <1>1, <1>2, <1>3, <1>4, <1>5 DEF KeepsBehind

\* What a dequeue ends with: a queue, and a job or none or the error.
Looked1(q) == {r \in [q : Queue, job : Job \cup {NoJob, Thrown}] : KeepsBehind(q, r.q)}

\* dequeue looks at several jobs and takes no command from behind a claim.
LEMMA DequeuedKeeps ==
  ASSUME NEW q \in Queue
  PROVE  Dequeued(q) \in Looked1(q)
<1>1. [q |-> q, job |-> NoJob] \in Looked1(q)
  BY DEF Looked1, KeepsBehind
<1>2. ASSUME NEW r \in Looked1(q) PROVE LooksOn(r) \in Looked1(q)
  <2>1. CASE r.job # NoJob \/ Due(r.q) = {}
    BY <2>1 DEF LooksOn
  <2>2. CASE ~(r.job # NoJob \/ Due(r.q) = {})
    <3> DEFINE x == r.q
               t == Inspect(x)
               rest == [x EXCEPT !.queue = RemoveAt(x.queue, Next1(x))]
               j == x.queue[Next1(x)].job
    <3>1. x \in Queue /\ Due(x) # {} /\ KeepsBehind(q, x) /\ LooksOn(r) = t
      BY <2>2 DEF Looked1, LooksOn
    <3>2. t \in [q : Queue, job : Job \cup {NoJob, Thrown}]
      <4>1. t = [q |-> t.q, job |-> t.job]
        BY DEF Inspect
      <4>2. PushCoalesced(rest, j) \in Queue
        <5>1. rest \in Queue /\ j \in Job
          BY <3>1, InspectEffect
        <5> HIDE DEF rest, j
        <5> QED BY <5>1, PushEffect
      <4>3. t.q \in Queue /\ t.job \in Job \cup {NoJob, Thrown}
        <5> HIDE DEF t
        <5> QED BY <3>1, <4>2, InspectEffect DEF t
      <4> HIDE DEF t
      <4> QED BY <4>1, <4>3
    <3>3. KeepsBehind(x, t.q)
      <4>1. rest \in Queue /\ j \in Job /\ rest.pending = x.pending
        BY <3>1, InspectEffect
      <4>2. KeepsBehind(rest, PushCoalesced(rest, j))
        <5> HIDE DEF rest, j
        <5> QED BY <4>1, PushKeeps
      <4>3. t.q.pending = x.pending \/ t.q = PushCoalesced(rest, j)
        BY <3>1, <4>1, InspectEffect
      <4> HIDE DEF t, rest, j
      <4> QED BY <4>1, <4>2, <4>3 DEF KeepsBehind
    <3> HIDE DEF t, x
    <3> QED BY <3>1, <3>2, <3>3 DEF Looked1, KeepsBehind
  <2> QED BY <2>1, <2>2
<1> HIDE DEF Looked1
<1> QED BY <1>1, <1>2, DequeuedIn

\* The first of the jobs behind a claim may leave it for the line.
Lets(q, r) ==
  \A p \in PR : \A j \in Commands(q.pending[p]) :
    j \in Commands(r.pending[p]) \/ \E i \in DOMAIN r.queue : r.queue[i].job = j

\* The head of a list that enters the line is still there.
LEMMA HeadLets ==
  ASSUME NEW q \in Queue, NEW p \in PR, q.pending[p] # <<>>, NEW r \in Queue,
         r.pending = [q.pending EXCEPT ![p] = Tail(q.pending[p])],
         \E i \in DOMAIN r.queue : r.queue[i].job = Head(q.pending[p])
  PROVE  Lets(q, r)
<1> DEFINE list == q.pending[p]
           rest == Tail(list)
<1>1. list \in Seq(Job) /\ q.pending \in [PR -> Seq(Job)]
  BY Fields
<1>2. /\ DOMAIN rest = 1..Len(rest) /\ Len(rest) \in Nat /\ DOMAIN list = 1..(Len(rest) + 1)
      /\ list[1] = Head(list) /\ \A i \in 1..Len(rest) : list[i + 1] = rest[i]
  BY <1>1, HeadTailProperties, LenProperties, EmptySeq
<1> HIDE DEF rest
<1>3. ASSUME NEW j \in Commands(list) PROVE j = Head(list) \/ j \in Commands(rest)
  <2>1. PICK k \in DOMAIN list : list[k] = j /\ ~j.review
    BY <1>3 DEF Commands
  <2>2. CASE k = 1
    BY <1>2, <2>1, <2>2
  <2>3. CASE k # 1
    <3>1. k - 1 \in DOMAIN rest /\ (k - 1) + 1 = k
      BY <1>2, <2>1, <2>3
    <3>2. rest[k - 1] = j
      BY <1>2, <2>1, <3>1
    <3> QED BY <2>1, <3>1, <3>2 DEF Commands
  <2> QED BY <2>2, <2>3
<1> HIDE DEF list
<1>4. r.pending[p] = rest /\ \A x \in PR : x # p => r.pending[x] = q.pending[x]
  BY <1>1 DEF rest, list
<1> QED BY <1>3, <1>4 DEF Lets, list

\* returnToQueue lets a command through only into the line.
LEMMA ReturnedLets ==
  ASSUME NEW q \in Queue, NEW j \in Job, NEW early \in BOOLEAN
  PROVE  Returned(q, j, early) \in Queue /\ Lets(q, Returned(q, j, early))
<1> DEFINE r == Returned(q, j, early)
           list == q.pending[j.pr]
<1>0. r.queue = <<BackEntry(q, j, early)>> \o q.queue /\ r.pending = BackPending(q, j)
  BY ReturnedEffect, Zenon
<1>1. r \in Queue /\ j.pr \in PR /\ list \in Seq(Job) /\ q.queue \in Seq(Waiting)
  BY ReturnedEffect, PayloadTypes, Fields
<1>2. CASE list = <<>>
  <2>1. r.pending = q.pending
    BY <1>0, <1>2 DEF BackPending
  <2> QED BY <1>1, <2>1 DEF Lets
<1>3. CASE list # <<>>
  <2>1. r.queue = <<Now(Head(list))>> \o q.queue /\ r.pending = [q.pending EXCEPT ![j.pr] = Tail(list)]
    BY <1>0, <1>3 DEF BackEntry, BackPending
  <2>2. Head(list) \in Job
    BY <1>1, <1>3, TailKeys
  <2>3. <<Now(Head(list))>> \in Seq(Waiting) /\ Len(<<Now(Head(list))>>) = 1
    BY <2>2 DEF Now, Waiting
  <2>4. /\ Len(r.queue) = 1 + Len(q.queue) /\ Len(q.queue) \in Nat /\ r.queue \in Seq(Waiting)
        /\ \A i \in 1..(1 + Len(q.queue)) : r.queue[i] = IF i <= 1 THEN <<Now(Head(list))>>[i] ELSE q.queue[i - 1]
    <3> HIDE DEF r, list
    <3> QED BY <1>1, <2>1, <2>3, ConcatProperties, LenProperties
  <2>5. 1 \in DOMAIN r.queue /\ r.queue[1] = Now(Head(list))
    <3>1. 1 \in 1..(1 + Len(q.queue)) /\ DOMAIN r.queue = 1..(1 + Len(q.queue))
      BY <2>4, LenProperties
    <3> HIDE DEF r, list
    <3> QED BY <2>4, <3>1
  <2>6. r.queue[1].job = Head(list)
    <3> HIDE DEF r, list
    <3> QED BY <2>5 DEF Now
  <2>7. Lets(q, r)
    <3>1. \E i \in DOMAIN r.queue : r.queue[i].job = Head(list)
      BY <2>5, <2>6, Zenon
    <3>2. r \in Queue /\ j.pr \in PR /\ r.pending = [q.pending EXCEPT ![j.pr] = Tail(list)]
      BY <1>1, <2>1, Zenon
    <3> HIDE DEF r
    <3> QED BY <1>3, <3>1, <3>2, HeadLets
  <2> QED BY <1>1, <2>7
<1> QED BY <1>1, <1>2, <1>3

\* So does releaseLockAndDrain.
LEMMA DrainedLets ==
  ASSUME NEW q \in Queue, NEW p \in PR
  PROVE  Drained(q, p) \in Queue /\ Lets(q, Drained(q, p))
<1> DEFINE r == Drained(q, p)
           list == q.pending[p]
<1>1. r \in Queue /\ list \in Seq(Job) /\ q.queue \in Seq(Waiting)
  BY DrainedEffect, Fields
<1>2. CASE list = <<>>
  <2>1. r.pending = q.pending
    BY <1>2, DrainedEffect
  <2> QED BY <1>1, <2>1 DEF Lets
<1>3. CASE list # <<>>
  <2>1. r.queue = Append(q.queue, Now(Head(list))) /\ r.pending = [q.pending EXCEPT ![p] = Tail(list)]
    BY <1>3, DrainedEffect
  <2>2. Now(Head(list)) \in Waiting
    <3>1. Head(list) \in Job
      BY <1>1, <1>3, TailKeys
    <3> QED BY <3>1 DEF Now, Waiting
  <2>3. Len(q.queue) + 1 \in DOMAIN r.queue /\ r.queue[Len(q.queue) + 1] = Now(Head(list))
    <3>1. Len(q.queue) \in Nat
      BY <1>1, LenProperties
    <3> HIDE DEF r, list
    <3> QED BY <1>1, <2>1, <2>2, <3>1, AppendProperties, LenProperties
  <2>4. r.queue[Len(q.queue) + 1].job = Head(list)
    <3> HIDE DEF r, list
    <3> QED BY <2>3 DEF Now
  <2>5. Lets(q, r)
    <3> HIDE DEF r
    <3> QED BY <1>1, <1>3, <2>1, <2>3, <2>4, HeadLets
  <2> QED BY <1>1, <2>5
<1> QED BY <1>1, <1>2, <1>3

-----------------------------------------------------------------------------
(* What the steps of the whole specification do to the queue.              *)

\* A worker that is not idle has a job, and one that will retry may.
Stages == {"idle", "claimed", "running", "applied", "retry", "drain"}
AtWork ==
  /\ mq \in Queue
  /\ held \in [Worker -> Job \cup {NoJob}] /\ stage \in [Worker -> Stages]
  /\ \A w \in Worker : stage[w] # "idle" => held[w] \in Job
  /\ \A w \in Worker : stage[w] = "retry" => MayRetry(held[w])

\* At the start the workers are idle.
LEMMA AtWorkInit == Init => AtWork
<1> SUFFICES ASSUME Init PROVE AtWork
  OBVIOUS
<1>1. mq = EmptyQueue /\ held = [w \in Worker |-> NoJob] /\ stage = [w \in Worker |-> "idle"]
  BY DEF Init, QueueInit
<1>2. mq \in Queue
  BY <1>1, EmptyIsQueue, Zenon
<1>3. "idle" \in Stages /\ "retry" # "idle"
  BY DEF Stages
<1> QED BY <1>1, <1>2, <1>3 DEF AtWork

\* What keeps the commands lets none go.
LEMMA SameBehind ==
  ASSUME NEW q \in Queue, NEW r \in Queue, KeepsBehind(q, r) \/ r.pending = q.pending
  PROVE  Lets(q, r)
BY DEF KeepsBehind, Lets

\* A worker moves on with the job it has.
LEMMA Onwards ==
  ASSUME AtWork, NEW w \in Worker, NEW s \in Stages, At(w, s), held' = held, mq' \in Queue,
         s # "idle" => held[w] \in Job, s = "retry" => MayRetry(held[w])
  PROVE  AtWork'
BY DEF AtWork, At

\* What a worker does with its job keeps the commands.
LEMMA WorkerSteps ==
  ASSUME AtWork, NEW w \in Worker, stage[w] # "idle",
         \/ MarkRunning(w) \/ EnqueueAutoApply(w) \/ MarkCompleted(w) \/ FailFinal(w)
         \/ FailTransient(w) \/ Retry(w) \/ ReturnToQueue(w) \/ ReleaseLockAndDrain(w)
  PROVE  AtWork' /\ Lets(mq, mq')
<1> DEFINE j == held[w]
<1>0. mq \in Queue /\ j \in Job /\ j.pr \in PR
  BY PayloadTypes DEF AtWork
<1>1. {"running", "applied", "drain", "retry", "idle"} \subseteq Stages
  BY DEF Stages
<1>2. CASE MarkRunning(w)
  <2>0. "running" \in JobState
    BY DEF JobState
  <2>1. mq' \in Queue /\ mq'.pending = mq.pending
    BY <1>0, <1>2, <2>0, BecomeEffect DEF MarkRunning
  <2>2. AtWork'
    BY <1>0, <1>1, <1>2, <2>1, Onwards DEF MarkRunning
  <2> QED BY <1>0, <2>1, <2>2, SameBehind
<1>3. CASE EnqueueAutoApply(w)
  <2>1. mq' \in Queue /\ KeepsBehind(mq, mq')
    BY <1>0, <1>3, EnqueuedKeeps DEF EnqueueAutoApply
  <2>2. AtWork'
    BY <1>0, <1>1, <1>3, <2>1, Onwards DEF EnqueueAutoApply
  <2> QED BY <1>0, <2>1, <2>2, SameBehind
<1>4. CASE MarkCompleted(w)
  <2>1. PICK draft \in BOOLEAN : mq' = Completed(mq, j, draft)
    BY <1>4 DEF MarkCompleted
  <2>2. mq' \in Queue /\ mq'.pending = mq.pending
    BY <1>0, <2>1, CompletedEffect, Zenon
  <2>3. AtWork'
    BY <1>0, <1>1, <1>4, <2>2, Onwards DEF MarkCompleted
  <2> QED BY <1>0, <2>2, <2>3, SameBehind
<1>5. CASE FailFinal(w) \/ FailTransient(w)
  <2>1. PICK dead \in BOOLEAN : mq' = Failed(mq, j, dead)
    BY <1>5 DEF FailFinal, FailTransient
  <2>2. mq' \in Queue /\ mq'.pending = mq.pending
    BY <1>0, <2>1, FailedEffect, Zenon
  <2>3. AtWork'
    BY <1>0, <1>1, <1>5, <2>2, Onwards DEF FailFinal, FailTransient
  <2> QED BY <1>0, <2>2, <2>3, SameBehind
<1>6. CASE Retry(w)
  <2>1. Retried(j) \in Job
    <3>1. MayRetry(j)
      BY <1>6 DEF AtWork, Retry
    <3> QED BY <1>0, <3>1, RetryAssumption DEF MayRetry
  <2>2. mq' \in Queue /\ KeepsBehind(mq, mq')
    BY <1>0, <1>6, <2>1, EnqueuedKeeps DEF Retry
  <2>3. AtWork'
    BY <1>0, <1>1, <1>6, <2>2, Onwards DEF Retry
  <2> QED BY <1>0, <2>2, <2>3, SameBehind
<1>7. CASE ReturnToQueue(w)
  <2>1. PICK early \in BOOLEAN : mq' = Returned(mq, j, early)
    BY <1>7 DEF ReturnToQueue
  <2>2. mq' \in Queue /\ Lets(mq, mq')
    BY <1>0, <2>1, ReturnedLets, Zenon
  <2>3. AtWork'
    BY <1>0, <1>1, <1>7, <2>2, Onwards DEF ReturnToQueue
  <2> QED BY <2>2, <2>3
<1>8. CASE ReleaseLockAndDrain(w)
  <2>1. mq' \in Queue /\ Lets(mq, mq')
    BY <1>0, <1>8, DrainedLets DEF ReleaseLockAndDrain
  <2>2. AtWork'
    BY <1>1, <1>8, <2>1 DEF ReleaseLockAndDrain, AtWork, At
  <2> QED BY <2>1, <2>2
<1> QED BY <1>2, <1>3, <1>4, <1>5, <1>6, <1>7, <1>8

\* So does taking a job.
LEMMA DequeueSteps ==
  ASSUME AtWork, NEW w \in Worker, Dequeue(w)
  PROVE  AtWork' /\ Lets(mq, mq')
<1> DEFINE d == Dequeued(mq)
<1>1. mq \in Queue /\ d \in Looked1(mq) /\ mq' = d.q
  BY DequeuedKeeps DEF AtWork, Dequeue
<1>2. d.q \in Queue /\ d.job \in Job \cup {NoJob, Thrown} /\ KeepsBehind(mq, d.q)
  <2> HIDE DEF d
  <2> QED BY <1>1 DEF Looked1
<1>3. \/ UNCHANGED <<held, stage>>
      \/ d.job \in Job /\ held' = [held EXCEPT ![w] = d.job] /\ At(w, "claimed")
  BY <1>2 DEF Dequeue
<1> HIDE DEF d
<1>4. "claimed" \in Stages
  BY DEF Stages
<1>5. AtWork'
  BY <1>1, <1>2, <1>3, <1>4 DEF AtWork, At
<1> QED BY <1>1, <1>2, <1>5, SameBehind

\* So does every step of the queue.
LEMMA QueueSteps ==
  ASSUME AtWork, QueueNext
  PROVE  AtWork' /\ Lets(mq, mq')
<1>1. ASSUME NEW w \in Worker, MarkRunning(w) \/ EnqueueAutoApply(w) \/ MarkCompleted(w) \/ FailFinal(w)
             \/ FailTransient(w) \/ Retry(w) \/ ReturnToQueue(w) \/ ReleaseLockAndDrain(w)
      PROVE  AtWork' /\ Lets(mq, mq')
  <2>1. stage[w] # "idle"
    BY <1>1 DEF MarkRunning, EnqueueAutoApply, MarkCompleted, FailFinal, FailTransient, Retry,
       ReturnToQueue, ReleaseLockAndDrain
  <2> QED BY <1>1, <2>1, WorkerSteps
<1>2. CASE BecomesDue
  <2>1. PICK i \in DOMAIN mq.queue : mq' = [mq EXCEPT !.queue[i].early = FALSE] /\ UNCHANGED <<held, stage>>
    BY <1>2 DEF BecomesDue
  <2> DEFINE e == [mq.queue[i] EXCEPT !.early = FALSE]
             line == [mq.queue EXCEPT ![i] = e]
  <2>2. mq \in Queue /\ mq.queue \in Seq(Waiting)
    BY Fields DEF AtWork
  <2>3. e \in Waiting
    <3>1. mq.queue[i] \in Waiting
      BY <2>2, ElementOfSeq, LenProperties
    <3> QED BY <3>1 DEF Waiting
  <2>4. line \in Seq(Waiting)
    <3> HIDE DEF e
    <3> QED BY <2>2, <2>3, ExceptSeq, LenProperties
  <2>5. mq' = [mq EXCEPT !.queue = line]
    BY <2>1, <2>2 DEF Queue
  <2>6. mq' \in Queue /\ mq'.pending = mq.pending
    <3> HIDE DEF line
    <3> QED BY <2>2, <2>4, <2>5 DEF Queue
  <2> QED BY <2>1, <2>2, <2>6, SameBehind DEF AtWork
<1>3. CASE ReplayDeadLetter
  <2>1. PICK i \in DOMAIN mq.deadLetters : mq' = Replayed(mq, i) /\ UNCHANGED <<held, stage>>
    BY <1>3 DEF ReplayDeadLetter
  <2>2. mq \in Queue
    BY DEF AtWork
  <2>3. mq' \in Queue /\ mq'.pending = mq.pending
    BY <2>1, <2>2, ReplayedEffect, Zenon
  <2> QED BY <2>1, <2>2, <2>3, SameBehind DEF AtWork
<1> QED BY <1>1, <1>2, <1>3, DequeueSteps DEF QueueNext

-----------------------------------------------------------------------------
(* Where a key is: in the line, behind the claim of its pull request, in   *)
(* flight, or nowhere.                                                     *)

jobKey == [j \in Job |-> KeyOf(j)]
entryKey == [e \in Waiting |-> KeyOf(e.job)]
Line(q) == Keys(q.queue, entryKey)
Parked(q, p) == Keys(q.pending[p], jobKey)
Flies(q, p) == q.inFlight[p] # NoJob
Seen(q) == KeySet(q.seen)

\* It is in one of these places, and there once.
Apart(q) ==
  /\ Single(q.queue, entryKey)
  /\ \A p \in PR : Single(q.pending[p], jobKey) /\ \A k \in Parked(q, p) : k[1] = p /\ k \notin Line(q)
  /\ \A p \in PR : Flies(q, p) => /\ q.inFlight[p].pr = p
                                  /\ KeyOf(q.inFlight[p]) \notin Line(q)
                                  /\ KeyOf(q.inFlight[p]) \notin Parked(q, p)

\* What is in one of them is in seen, so that it is not enqueued again, and
\* what waits is ready.
KnownReady(q) ==
  /\ \A k \in Line(q) : k \in Seen(q) /\ q.states[k] = "ready"
  /\ \A p \in PR : \A k \in Parked(q, p) : k \in Seen(q) /\ q.states[k] = "ready"
  /\ \A p \in PR : Flies(q, p) => KeyOf(q.inFlight[p]) \in Seen(q)

\* What is ready waits, or was done meanwhile.  K holds the key of a job that
\* is on its way from one place to another.
Promised(j) == Automatic(j) \/ ~j.review
ReadyWaits(q, K) ==
  \A j \in Job : KeyOf(j) \notin K /\ q.states[KeyOf(j)] = "ready" /\ Promised(j) =>
    KeyOf(j) \in Line(q) \/ KeyOf(j) \in Parked(q, j.pr) \/ AlreadyDone(q, j)

ClaimedFlies(q) ==
  \A j \in Job : q.states[KeyOf(j)] \in {"claimed", "running"} =>
    Flies(q, j.pr) /\ KeyOf(q.inFlight[j.pr]) = KeyOf(j)

Accounts(q, K) ==
  /\ q \in Queue
  /\ Apart(q) /\ KnownReady(q) /\ ReadyWaits(q, K) /\ ClaimedFlies(q)
  /\ Distinct(q.seen) /\ Distinct(q.completed)

\* A key on its way: it is nowhere, and it is ready.
Nowhere(q, k) ==
  k \notin Line(q) /\ \A p \in PR : k \notin Parked(q, p) /\ (Flies(q, p) => KeyOf(q.inFlight[p]) # k)
Loose(q, k) == Nowhere(q, k) /\ k \in Seen(q) /\ q.states[k] = "ready"

\* Two jobs of one key are done together.
LEMMA DoneTogether ==
  ASSUME NEW q, NEW i \in Job, NEW j \in Job, KeyOf(i) = KeyOf(j)
  PROVE  /\ AlreadyDone(q, i) <=> AlreadyDone(q, j)
         /\ Promised(i) <=> Promised(j)
         /\ i.pr = j.pr
<1>1. i.review = j.review /\ i.pr = j.pr /\ i.sha = j.sha /\ i.variant = j.variant
  BY KeyAssumption DEF KeyOf
<1>2. (Automatic(i) <=> Automatic(j)) /\ BareOf(i) = BareOf(j)
  BY <1>1 DEF Automatic, BareOf
<1> QED BY <1>1, <1>2 DEF AlreadyDone, IsCompleted, Promised

\* What is nowhere and unseen may be anything but claimed or running.
LEMMA UnseenNowhere ==
  ASSUME NEW q, Accounts(q, {}), NEW k, k \notin Seen(q)
  PROVE  Nowhere(q, k)
BY DEF Accounts, Nowhere, KnownReady

\* The done marks only grow.
LEMMA MoreDone ==
  ASSUME NEW q \in Queue, NEW r \in Queue, NEW j \in Job, AlreadyDone(q, j),
         KeySet(q.completed) \subseteq KeySet(r.completed)
  PROVE  AlreadyDone(r, j)
<1>1. ToSet(q.completed) \subseteq ToSet(r.completed)
  BY KeySetIs, Fields
<1> QED BY <1>1 DEF AlreadyDone, IsCompleted

\* A key that was on its way gets a place in the line or behind a claim.
LEMMA PutInPlace ==
  ASSUME NEW q, NEW r \in Queue, NEW k, Accounts(q, {k}), Loose(q, k),
         r.seen = q.seen, r.completed = q.completed, r.states = q.states, r.inFlight = q.inFlight,
         Single(r.queue, entryKey), \A p \in PR : Single(r.pending[p], jobKey),
         \/ Line(r) = Line(q) \cup {k} /\ \A p \in PR : Parked(r, p) = Parked(q, p)
         \/ /\ Line(r) = Line(q)
            /\ \A p \in PR : Parked(r, p) = IF p = k[1] THEN Parked(q, p) \cup {k} ELSE Parked(q, p)
  PROVE  Accounts(r, {})
<1> USE DEF Flies, Seen
<1>1. Apart(r)
  BY DEF Accounts, Apart, Loose, Nowhere
<1>2. KnownReady(r)
  BY DEF Accounts, KnownReady, Loose
<1>3. ReadyWaits(r, {})
  <2> SUFFICES ASSUME NEW j \in Job, r.states[KeyOf(j)] = "ready", Promised(j)
               PROVE  KeyOf(j) \in Line(r) \/ KeyOf(j) \in Parked(r, j.pr) \/ AlreadyDone(r, j)
    BY DEF ReadyWaits
  <2>1. KeyOf(j)[1] = j.pr /\ j.pr \in PR
    BY PayloadTypes
  <2>2. CASE KeyOf(j) = k
    BY <2>1, <2>2
  <2>3. CASE KeyOf(j) # k
    BY <2>1, <2>3 DEF Accounts, ReadyWaits, AlreadyDone
  <2> QED BY <2>2, <2>3
<1>4. ClaimedFlies(r)
  BY DEF Accounts, ClaimedFlies
<1> QED BY <1>1, <1>2, <1>3, <1>4 DEF Accounts

\* A key leaves its place.
LEMMA TakeOut ==
  ASSUME NEW q, NEW r \in Queue, NEW k, Accounts(q, {}),
         r.seen = q.seen, r.completed = q.completed, r.states = q.states, r.inFlight = q.inFlight,
         Single(r.queue, entryKey), \A p \in PR : Single(r.pending[p], jobKey),
         \/ /\ Line(q) = Line(r) \cup {k} /\ k \notin Line(r)
            /\ \A p \in PR : Parked(r, p) = Parked(q, p)
         \/ /\ Line(r) = Line(q)
            /\ \E p \in PR : /\ Parked(q, p) = Parked(r, p) \cup {k} /\ k \notin Parked(r, p)
                             /\ \A x \in PR : x # p => Parked(r, x) = Parked(q, x)
  PROVE  Accounts(r, {k}) /\ Loose(r, k)
<1> USE DEF Flies, Seen
<1>1. Apart(r)
  BY DEF Accounts, Apart
<1>2. KnownReady(r)
  BY DEF Accounts, KnownReady
<1>3. ReadyWaits(r, {k})
  BY PayloadTypes DEF Accounts, ReadyWaits, AlreadyDone
<1>4. ClaimedFlies(r)
  BY DEF Accounts, ClaimedFlies
<1>5. Nowhere(r, k)
  <2>1. k \notin Line(r) /\ \A p \in PR : k \notin Parked(r, p)
    BY DEF Accounts, Apart
  <2>2. ASSUME NEW p \in PR, Flies(r, p) PROVE KeyOf(r.inFlight[p]) # k
    <3>1. KeyOf(r.inFlight[p])[1] = p
      BY <2>2 DEF Accounts, Apart, KeyOf
    <3> QED BY <2>2, <3>1 DEF Accounts, Apart
  <2> QED BY <2>1, <2>2 DEF Nowhere
<1>6. k \in Seen(r) /\ r.states[k] = "ready"
  BY DEF Accounts, KnownReady
<1> QED BY <1>1, <1>2, <1>3, <1>4, <1>5, <1>6 DEF Accounts, Loose

\* A job that was done meanwhile may be dropped.
LEMMA DropDone ==
  ASSUME NEW q, NEW j \in Job, Accounts(q, {KeyOf(j)}), AlreadyDone(q, j)
  PROVE  Accounts(q, {})
<1>1. \A i \in Job : KeyOf(i) = KeyOf(j) => AlreadyDone(q, i)
  BY DoneTogether
<1> QED BY <1>1 DEF Accounts, ReadyWaits

\* The line and the lists behind claims hold keys.
LEMMA PlacesAreKeys ==
  ASSUME NEW q \in Queue
  PROVE  Line(q) \subseteq Key /\ \A p \in PR : Parked(q, p) \subseteq Key
<1>1. ASSUME NEW S, NEW s \in Seq(S), NEW f, \A e \in S : f[e] \in Key
      PROVE  Keys(s, f) \subseteq Key
  <2>1. \A i \in DOMAIN s : s[i] \in S
    BY LenProperties, ElementOfSeq
  <2> QED BY <1>1, <2>1 DEF Keys
<1>2. \A e \in Waiting : entryKey[e] \in Key
  BY PayloadTypes DEF Waiting, entryKey
<1>3. \A i \in Job : jobKey[i] \in Key
  <2>1. \A i \in Job : KeyOf(i) \in Key
    BY PayloadTypes
  <2> QED BY <2>1, Zenon DEF jobKey
<1>4. q.queue \in Seq(Waiting) /\ \A p \in PR : q.pending[p] \in Seq(Job)
  BY Fields
<1> QED BY <1>1, <1>2, <1>3, <1>4 DEF Line, Parked

\* A key on its way is claimed.
LEMMA Claims1 ==
  ASSUME NEW q, NEW r \in Queue, NEW j \in Job, Accounts(q, {KeyOf(j)}), Loose(q, KeyOf(j)),
         ~Flies(q, j.pr), r.inFlight = [q.inFlight EXCEPT ![j.pr] = j],
         r.states = [q.states EXCEPT ![KeyOf(j)] = "claimed"],
         r.seen = q.seen, r.completed = q.completed, r.queue = q.queue, r.pending = q.pending
  PROVE  Accounts(r, {})
<1> DEFINE k == KeyOf(j)
<1>1. /\ j.pr \in PR /\ k \in Key /\ k[1] = j.pr /\ j # NoJob
      /\ q.inFlight \in [PR -> Job \cup {NoJob}] /\ q.states \in [Key -> JobState]
  BY PayloadTypes, Fields DEF Accounts
<1>2. \A i \in Job : KeyOf(i) \in Key /\ KeyOf(i)[1] = i.pr /\ i.pr \in PR
  BY PayloadTypes
<1>3. Line(r) = Line(q) /\ \A p \in PR : Parked(r, p) = Parked(q, p)
  BY DEF Line, Parked
<1>4. \A x \in Key : x # k => r.states[x] = q.states[x]
  BY <1>1
<1>5. r.states[k] = "claimed"
  BY <1>1
<1>6. r.inFlight[j.pr] = j /\ \A p \in PR : p # j.pr => r.inFlight[p] = q.inFlight[p]
  BY <1>1
<1>7. Apart(r)
  BY <1>1, <1>3, <1>6 DEF Accounts, Apart, Loose, Nowhere, Flies
<1>8. KnownReady(r)
  <2>1. Line(q) \subseteq Key /\ \A p \in PR : Parked(q, p) \subseteq Key
    BY PlacesAreKeys DEF Accounts
  <2> QED BY <1>1, <1>3, <1>4, <1>6, <2>1 DEF Accounts, KnownReady, Loose, Nowhere, Flies, Seen
<1>9. ReadyWaits(r, {})
  BY <1>2, <1>3, <1>4, <1>5 DEF Accounts, ReadyWaits, AlreadyDone
<1>10. ClaimedFlies(r)
  BY <1>1, <1>2, <1>4, <1>6 DEF Accounts, ClaimedFlies, Flies, Loose
<1> QED BY <1>7, <1>8, <1>9, <1>10 DEF Accounts

\* What a key's state change leaves alone.
LEMMA OtherStates ==
  ASSUME NEW q \in Queue, NEW r \in Queue, NEW j \in Job, NEW to,
         r.states = [q.states EXCEPT ![KeyOf(j)] = to]
  PROVE  /\ KeyOf(j) \in Key /\ r.states[KeyOf(j)] = to
         /\ \A x \in Key : x # KeyOf(j) => r.states[x] = q.states[x]
<1>1. KeyOf(j) \in Key /\ q.states \in [Key -> JobState]
  BY PayloadTypes, Fields
<1> QED BY <1>1

\* A claim ends: its key is nowhere, and unless it is ready again all is well.
LEMMA Frees ==
  ASSUME NEW q, NEW r \in Queue, NEW j \in Job, Accounts(q, {}), q.inFlight[j.pr] = j,
         NEW to, to \notin {"claimed", "running"},
         r.inFlight = [q.inFlight EXCEPT ![j.pr] = NoJob],
         r.states = [q.states EXCEPT ![KeyOf(j)] = to], r.queue = q.queue, r.pending = q.pending,
         Distinct(r.seen), Seen(q) \ {KeyOf(j)} \subseteq Seen(r),
         Distinct(r.completed), KeySet(q.completed) \subseteq KeySet(r.completed)
  PROVE  /\ Accounts(r, {KeyOf(j)}) /\ Nowhere(r, KeyOf(j)) /\ ~Flies(r, j.pr)
         /\ to # "ready" => Accounts(r, {})
<1> DEFINE k == KeyOf(j)
<1>1. /\ j.pr \in PR /\ k \in Key /\ k[1] = j.pr /\ j # NoJob
      /\ q.inFlight \in [PR -> Job \cup {NoJob}]
  BY PayloadTypes, Fields DEF Accounts
<1>2. \A i \in Job : KeyOf(i) \in Key /\ KeyOf(i)[1] = i.pr /\ i.pr \in PR
  BY PayloadTypes
<1>3. Line(r) = Line(q) /\ \A p \in PR : Parked(r, p) = Parked(q, p)
  BY DEF Line, Parked
<1>4. r.states[k] = to /\ \A x \in Key : x # k => r.states[x] = q.states[x]
  BY OtherStates DEF Accounts
<1>5. r.inFlight[j.pr] = NoJob /\ \A p \in PR : p # j.pr => r.inFlight[p] = q.inFlight[p]
  BY <1>1
<1>6. Line(q) \subseteq Key /\ \A p \in PR : Parked(q, p) \subseteq Key
  BY PlacesAreKeys DEF Accounts
<1>7. \A p \in PR : Flies(r, p) => p # j.pr /\ Flies(q, p) /\ KeyOf(r.inFlight[p])[1] = p
  BY <1>5 DEF Accounts, Apart, Flies, KeyOf
<1>8. k \notin Line(q) /\ \A p \in PR : k \notin Parked(q, p)
  BY <1>1 DEF Accounts, Apart, Flies
<1>9. Nowhere(r, k)
  BY <1>1, <1>3, <1>7, <1>8 DEF Nowhere
<1>10. Apart(r)
  BY <1>3, <1>5, <1>7 DEF Accounts, Apart, Flies
<1>11. KnownReady(r)
  <2>1. \A x \in Line(r) : x \in Seen(r) /\ r.states[x] = "ready"
    BY <1>3, <1>4, <1>6, <1>8 DEF Accounts, KnownReady
  <2>2. \A p \in PR : \A x \in Parked(r, p) : x \in Seen(r) /\ r.states[x] = "ready"
    BY <1>3, <1>4, <1>6, <1>8 DEF Accounts, KnownReady
  <2>3. \A p \in PR : Flies(r, p) => KeyOf(r.inFlight[p]) \in Seen(r)
    BY <1>1, <1>5, <1>7 DEF Accounts, KnownReady
  <2> QED BY <2>1, <2>2, <2>3 DEF KnownReady
<1>12. ASSUME NEW i \in Job, AlreadyDone(q, i) PROVE AlreadyDone(r, i)
  BY <1>12, MoreDone DEF Accounts
<1>13. ReadyWaits(r, {k})
  BY <1>2, <1>3, <1>4, <1>12 DEF Accounts, ReadyWaits
<1>14. ClaimedFlies(r)
  BY <1>2, <1>4, <1>5 DEF Accounts, ClaimedFlies, Flies
<1>15. to # "ready" => ReadyWaits(r, {})
  BY <1>4, <1>13 DEF ReadyWaits
<1> QED BY <1>5, <1>9, <1>10, <1>11, <1>13, <1>14, <1>15 DEF Accounts, Flies

\* A job in flight starts to run.
LEMMA Runs ==
  ASSUME NEW q, NEW r \in Queue, NEW j \in Job, Accounts(q, {}), q.inFlight[j.pr] = j,
         r.states = [q.states EXCEPT ![KeyOf(j)] = "running"], r.inFlight = q.inFlight,
         r.queue = q.queue, r.pending = q.pending, r.seen = q.seen, r.completed = q.completed
  PROVE  Accounts(r, {})
<1> DEFINE k == KeyOf(j)
<1>1. j.pr \in PR /\ k \in Key /\ j # NoJob
  BY PayloadTypes
<1>2. \A i \in Job : KeyOf(i) \in Key /\ KeyOf(i)[1] = i.pr /\ i.pr \in PR
  BY PayloadTypes
<1>3. Line(r) = Line(q) /\ \A p \in PR : Parked(r, p) = Parked(q, p)
  BY DEF Line, Parked
<1>4. r.states[k] = "running" /\ \A x \in Key : x # k => r.states[x] = q.states[x]
  BY OtherStates DEF Accounts
<1>5. Line(q) \subseteq Key /\ \A p \in PR : Parked(q, p) \subseteq Key
  BY PlacesAreKeys DEF Accounts
<1>6. k \notin Line(q) /\ \A p \in PR : k \notin Parked(q, p)
  <2>1. KeyOf(j)[1] = j.pr
    BY <1>2
  <2> QED BY <1>1, <2>1 DEF Accounts, Apart, Flies
<1>7. Apart(r)
  BY <1>3 DEF Accounts, Apart, Flies
<1>8. KnownReady(r)
  BY <1>3, <1>4, <1>5, <1>6 DEF Accounts, KnownReady, Flies, Seen
<1>9. ReadyWaits(r, {})
  BY <1>2, <1>3, <1>4 DEF Accounts, ReadyWaits, AlreadyDone
<1>10. ClaimedFlies(r)
  <2> SUFFICES ASSUME NEW i \in Job, r.states[KeyOf(i)] \in {"claimed", "running"}
               PROVE  Flies(r, i.pr) /\ KeyOf(r.inFlight[i.pr]) = KeyOf(i)
    BY DEF ClaimedFlies
  <2>1. CASE KeyOf(i) = k
    BY <1>1, <1>2, <2>1 DEF Flies, KeyOf
  <2>2. CASE KeyOf(i) # k
    BY <1>2, <1>4, <2>2 DEF Accounts, ClaimedFlies, Flies
  <2> QED BY <2>1, <2>2
<1> QED BY <1>7, <1>8, <1>9, <1>10 DEF Accounts

\* A key enters seen.
LEMMA SeenGrows ==
  ASSUME NEW q, NEW r \in Queue, Accounts(q, {}), Seen(q) \subseteq Seen(r), Distinct(r.seen),
         r.states = q.states, r.inFlight = q.inFlight, r.queue = q.queue, r.pending = q.pending,
         r.completed = q.completed
  PROVE  Accounts(r, {})
<1>1. Line(r) = Line(q) /\ \A p \in PR : Parked(r, p) = Parked(q, p)
  BY DEF Line, Parked
<1>2. Apart(r)
  BY <1>1 DEF Accounts, Apart, Flies
<1>3. KnownReady(r)
  BY <1>1 DEF Accounts, KnownReady, Flies
<1>4. ReadyWaits(r, {}) /\ ClaimedFlies(r)
  <2>1. \A i \in Job : i.pr \in PR
    BY PayloadTypes
  <2> QED BY <1>1, <2>1 DEF Accounts, ReadyWaits, ClaimedFlies, AlreadyDone, Flies
<1> QED BY <1>2, <1>3, <1>4 DEF Accounts

\* A key that is nowhere becomes ready, on its way to its place.
LEMMA Starts ==
  ASSUME NEW q, NEW r \in Queue, NEW j \in Job, Accounts(q, {}), Nowhere(q, KeyOf(j)),
         KeyOf(j) \in Seen(q), r.states = [q.states EXCEPT ![KeyOf(j)] = "ready"],
         r.inFlight = q.inFlight, r.queue = q.queue, r.pending = q.pending, r.seen = q.seen,
         r.completed = q.completed
  PROVE  Accounts(r, {KeyOf(j)}) /\ Loose(r, KeyOf(j))
<1> DEFINE k == KeyOf(j)
<1>1. \A i \in Job : KeyOf(i) \in Key /\ i.pr \in PR
  BY PayloadTypes
<1>2. Line(r) = Line(q) /\ \A p \in PR : Parked(r, p) = Parked(q, p)
  BY DEF Line, Parked
<1>3. r.states[k] = "ready" /\ \A x \in Key : x # k => r.states[x] = q.states[x]
  BY OtherStates DEF Accounts
<1>4. Line(q) \subseteq Key /\ \A p \in PR : Parked(q, p) \subseteq Key
  BY PlacesAreKeys DEF Accounts
<1>5. Apart(r)
  BY <1>2 DEF Accounts, Apart, Flies
<1>6. KnownReady(r)
  BY <1>2, <1>3, <1>4 DEF Accounts, KnownReady, Nowhere, Flies, Seen
<1>7. ReadyWaits(r, {k})
  BY <1>1, <1>2, <1>3 DEF Accounts, ReadyWaits, AlreadyDone
<1>8. ClaimedFlies(r)
  BY <1>1, <1>3 DEF Accounts, ClaimedFlies, Flies
<1>9. Loose(r, k)
  BY <1>2, <1>3 DEF Loose, Nowhere, Flies, Seen
<1> QED BY <1>5, <1>6, <1>7, <1>8, <1>9 DEF Accounts

\* A job on its way is put behind its pull request: it is appended, or takes
\* the place of a review, whose key is gone from there.
LEMMA Pushes ==
  ASSUME NEW q, NEW j \in Job, Accounts(q, {KeyOf(j)}), Loose(q, KeyOf(j))
  PROVE  Accounts(PushCoalesced(q, j), {})
<1> DEFINE k == KeyOf(j)
           list == q.pending[j.pr]
           n == PushedAt(list, j)
           old == list[n]
           x == KeyOf(old)
           r == PushCoalesced(q, j)
<1>1. /\ q \in Queue /\ j.pr \in PR /\ k \in Key /\ k[1] = j.pr /\ list \in Seq(Job)
      /\ q.pending \in [PR -> Seq(Job)] /\ q.seen \in Seq(Key)
  BY PayloadTypes, Fields DEF Accounts
<1>2. \A i \in Job : KeyOf(i) \in Key /\ KeyOf(i)[1] = i.pr /\ i.pr \in PR
  BY PayloadTypes
<1>3. jobKey[j] = k
  BY DEF jobKey
<1>4. /\ r \in Queue /\ r.queue = q.queue /\ r.inFlight = q.inFlight /\ r.completed = q.completed
      /\ Line(r) = Line(q)
  BY <1>1, PushEffect DEF Line
<1>0. r.pending = PushedPending(q, j) /\ r.seen = PushedSeen(q, j) /\ r.states = PushedStates(q, j)
  BY <1>1, PushEffect
<1>5. Single(list, jobKey) /\ k \notin Keys(list, jobKey)
  BY <1>1 DEF Accounts, Apart, Loose, Nowhere, Parked
<1>6. CASE n = 0
  <2>1. r.pending = [q.pending EXCEPT ![j.pr] = Append(list, j)] /\ r.seen = q.seen /\ r.states = q.states
    <3> HIDE DEF r
    <3> QED BY <1>0, <1>6 DEF PushedPending, PushedSeen, PushedStates, Withdraws
  <2>2. Keys(Append(list, j), jobKey) = Keys(list, jobKey) \cup {k} /\ Single(Append(list, j), jobKey)
    <3> HIDE DEF list, k
    <3> QED BY <1>1, <1>3, <1>5, AppendKeys
  <2> HIDE DEF r, n
  <2>3. \A p \in PR : Parked(r, p) = IF p = k[1] THEN Parked(q, p) \cup {k} ELSE Parked(q, p)
    BY <1>1, <2>1, <2>2 DEF Parked
  <2>4. \A p \in PR : Single(r.pending[p], jobKey)
    BY <1>1, <2>1, <2>2 DEF Accounts, Apart
  <2>5. Single(r.queue, entryKey)
    BY <1>4 DEF Accounts, Apart
  <2>6. Accounts(r, {})
    BY <1>4, <2>1, <2>3, <2>4, <2>5, PutInPlace
  <2> QED BY <2>6 DEF r
<1>7. CASE n # 0
  <2>1. n \in DOMAIN list /\ old.review /\ old \in Job
    BY <1>1, <1>7, PushedAtWhere, LenProperties, ElementOfSeq
  <2>2. /\ r.pending = [q.pending EXCEPT ![j.pr] = [list EXCEPT ![n] = j]]
        /\ Automatic(old) => r.seen = Forgotten(q.seen, x) /\ r.states = [q.states EXCEPT ![x] = "cancelled"]
        /\ ~Automatic(old) => r.seen = q.seen /\ r.states = q.states
    <3> HIDE DEF r
    <3> QED BY <1>0, <1>7 DEF PushedPending, PushedSeen, PushedStates, Withdraws, PushedOver
  <2> DEFINE put == [list EXCEPT ![n] = j]
  <2>3. jobKey[old] = x
    <3> HIDE DEF old
    <3> QED BY <2>1 DEF jobKey
  <2>4. /\ Single(put, jobKey) /\ k \in Keys(put, jobKey)
        /\ x \in Keys(list, jobKey) /\ x \notin Keys(put, jobKey)
        /\ \A y \in Keys(put, jobKey) : y = k \/ (y \in Keys(list, jobKey) /\ y # x)
        /\ \A y \in Keys(list, jobKey) : y = x \/ y \in Keys(put, jobKey)
    <3>1. /\ Single(put, jobKey) /\ jobKey[j] \in Keys(put, jobKey)
          /\ jobKey[list[n]] \in Keys(list, jobKey) /\ jobKey[list[n]] \notin Keys(put, jobKey)
          /\ \A y \in Keys(put, jobKey) :
               y = jobKey[j] \/ (y \in Keys(list, jobKey) /\ y # jobKey[list[n]])
          /\ \A y \in Keys(list, jobKey) : y = jobKey[list[n]] \/ y \in Keys(put, jobKey)
      <4>1. jobKey[j] \notin Keys(list, jobKey)
        BY <1>3, <1>5
      <4> HIDE DEF list, n
      <4>2. list \in Seq(Job) /\ n \in DOMAIN list /\ j \in Job /\ Single(list, jobKey)
        BY <1>1, <1>5, <2>1
      <4> QED BY <4>1, <4>2, ReplaceKeys, Zenon
    <3> HIDE DEF put, list, k, x
    <3> QED BY <1>3, <2>3, <3>1
  <2>8. /\ Parked(r, j.pr) = Keys(put, jobKey) /\ Parked(q, j.pr) = Keys(list, jobKey)
        /\ \A p \in PR : p # j.pr => Parked(r, p) = Parked(q, p) /\ r.pending[p] = q.pending[p]
        /\ r.pending[j.pr] = put
    <3> HIDE DEF r, put
    <3> QED BY <1>1, <2>2 DEF Parked, put
  <2>9. x \in Key /\ x[1] = j.pr /\ x # k
    <3>1. x \in Key
      BY <1>2, <2>1
    <3>2. x[1] = j.pr
      <4> HIDE DEF x
      <4> QED BY <1>1, <2>4, <2>8 DEF Accounts, Apart
    <3>3. x # k
      BY <1>5, <2>4
    <3> QED BY <3>1, <3>2, <3>3
  <2>10. /\ \A y \in Key : y # x => r.states[y] = q.states[y]
         /\ r.states[x] = q.states[x] \/ r.states[x] = "cancelled"
         /\ Automatic(old) => r.states[x] = "cancelled"
    <3>1. q.states \in [Key -> JobState]
      BY <1>1, Fields
    <3> HIDE DEF r, x, old
    <3> QED BY <2>2, <2>9, <3>1
  <2>11. Seen(q) \ {x} \subseteq Seen(r) /\ Distinct(r.seen)
    <3>1. Distinct(q.seen)
      BY DEF Accounts
    <3>2. KeySet(q.seen) \ {x} \subseteq KeySet(Forgotten(q.seen, x)) /\ Distinct(Forgotten(q.seen, x))
      <4> HIDE DEF x
      <4> QED BY <1>1, <2>9, <3>1, ForgottenKeys
    <3> HIDE DEF r, x, old
    <3> QED BY <2>2, <3>1, <3>2 DEF Seen
  <2> HIDE DEF r, n, put, list
  <2>12. Line(q) \subseteq Key /\ \A p \in PR : Parked(q, p) \subseteq Key
    BY <1>1, PlacesAreKeys
  <2>13. \A p \in PR : Flies(r, p) => Flies(q, p) /\ r.inFlight[p] = q.inFlight[p] /\ KeyOf(q.inFlight[p])[1] = p
    BY <1>4 DEF Accounts, Apart, Flies, KeyOf
  <2>14. \A p \in PR : \A y \in Parked(q, p) : y[1] = p /\ y \notin Line(q)
    BY DEF Accounts, Apart
  <2> HIDE DEF k, x
  <2>15. Apart(r)
    <3>1. Single(r.queue, entryKey)
      BY <1>4 DEF Accounts, Apart
    <3>2. ASSUME NEW p \in PR
          PROVE Single(r.pending[p], jobKey) /\ \A y \in Parked(r, p) : y[1] = p /\ y \notin Line(r)
      <4>1. CASE p = j.pr
        <5>1. k \notin Line(q)
          BY DEF Loose, Nowhere, k
        <5> QED BY <1>1, <1>4, <2>4, <2>8, <2>14, <4>1, <5>1
      <4>2. CASE p # j.pr
        BY <1>4, <2>8, <2>14, <4>2 DEF Accounts, Apart
      <4> QED BY <4>1, <4>2
    <3>3. ASSUME NEW p \in PR, Flies(r, p)
          PROVE  /\ r.inFlight[p].pr = p /\ KeyOf(r.inFlight[p]) \notin Line(r)
                 /\ KeyOf(r.inFlight[p]) \notin Parked(r, p)
      <4>1. /\ Flies(q, p) /\ q.inFlight[p].pr = p /\ KeyOf(q.inFlight[p]) \notin Line(q)
            /\ KeyOf(q.inFlight[p]) \notin Parked(q, p) /\ KeyOf(q.inFlight[p]) # k
        BY <2>13, <3>3 DEF Accounts, Apart, Loose, Nowhere, k
      <4> QED BY <1>4, <2>4, <2>8, <2>13, <3>3, <4>1
    <3> QED BY <3>1, <3>2, <3>3 DEF Apart
  <2>16. KnownReady(r)
    <3>1. ASSUME NEW y \in Line(r) PROVE y \in Seen(r) /\ r.states[y] = "ready"
      <4>1. y # x /\ y \in Key /\ y \in Seen(q) /\ q.states[y] = "ready"
        BY <1>1, <1>4, <2>4, <2>8, <2>12, <2>14 DEF Accounts, KnownReady
      <4> QED BY <2>10, <2>11, <4>1
    <3>2. ASSUME NEW p \in PR, NEW y \in Parked(r, p) PROVE y \in Seen(r) /\ r.states[y] = "ready"
      <4>1. CASE y = k
        BY <1>1, <2>9, <2>10, <2>11, <4>1 DEF Loose, k
      <4>2. CASE y # k
        <5>1. y \in Parked(q, p) /\ y # x
          BY <1>1, <2>4, <2>8, <2>9, <2>14, <4>2
        <5>2. y \in Key /\ y \in Seen(q) /\ q.states[y] = "ready"
          BY <2>12, <5>1 DEF Accounts, KnownReady
        <5> QED BY <2>10, <2>11, <5>1, <5>2
      <4> QED BY <4>1, <4>2
    <3>3. ASSUME NEW p \in PR, Flies(r, p) PROVE KeyOf(r.inFlight[p]) \in Seen(r)
      <4>1. KeyOf(q.inFlight[p]) # x /\ KeyOf(q.inFlight[p]) \in Seen(q) /\ r.inFlight[p] = q.inFlight[p]
        BY <2>4, <2>8, <2>9, <2>13, <3>3 DEF Accounts, Apart, KnownReady
      <4> QED BY <2>11, <4>1
    <3> QED BY <3>1, <3>2, <3>3 DEF KnownReady
  <2>17. ReadyWaits(r, {})
    <3> SUFFICES ASSUME NEW i \in Job, r.states[KeyOf(i)] = "ready", Promised(i)
                 PROVE  KeyOf(i) \in Line(r) \/ KeyOf(i) \in Parked(r, i.pr) \/ AlreadyDone(r, i)
      BY DEF ReadyWaits
    <3>1. CASE KeyOf(i) = k
      BY <1>1, <1>2, <2>4, <2>8, <3>1
    <3>2. CASE KeyOf(i) = x
      <4>1. Promised(old)
        BY <2>1, <3>2, DoneTogether DEF x
      <4>2. Automatic(old)
        BY <2>1, <4>1 DEF Promised
      <4> QED BY <2>10, <3>2, <4>2
    <3>3. CASE KeyOf(i) # k /\ KeyOf(i) # x
      <4>1. q.states[KeyOf(i)] = "ready"
        BY <1>2, <2>10, <3>3
      <4>2. KeyOf(i) \in Line(q) \/ KeyOf(i) \in Parked(q, i.pr) \/ AlreadyDone(q, i)
        BY <3>3, <4>1 DEF Accounts, ReadyWaits, k
      <4> QED BY <1>2, <1>4, <2>4, <2>8, <3>3, <4>2 DEF AlreadyDone
    <3> QED BY <3>1, <3>2, <3>3
  <2>18. ClaimedFlies(r)
    <3> SUFFICES ASSUME NEW i \in Job, r.states[KeyOf(i)] \in {"claimed", "running"}
                 PROVE  Flies(r, i.pr) /\ KeyOf(r.inFlight[i.pr]) = KeyOf(i)
      BY DEF ClaimedFlies
    <3>1. q.states[KeyOf(i)] \in {"claimed", "running"}
      BY <1>2, <2>10
    <3> QED BY <1>4, <3>1 DEF Accounts, ClaimedFlies, Flies
  <2>19. Accounts(r, {})
    BY <1>4, <2>11, <2>15, <2>16, <2>17, <2>18 DEF Accounts
  <2> QED BY <2>19 DEF r
<1> QED BY <1>6, <1>7

\* Nothing is trimmed: a key that is submitted is seen.
LEMMA SubmittedSees ==
  ASSUME RoomForAll, NEW q, Accounts(q, {}), NEW j \in Job
  PROVE  LET s == Submitted(q, j)
         IN  /\ Accounts(s, {}) /\ Seen(s) = Seen(q) \cup {KeyOf(j)}
             /\ KeyOf(j) \notin Seen(q) => Nowhere(s, KeyOf(j))
<1> DEFINE s == Submitted(q, j)
           k == KeyOf(j)
<1>1. q \in Queue /\ q.seen \in Seq(Key) /\ k \in Key /\ Distinct(q.seen)
  BY PayloadTypes, Fields DEF Accounts
<1>2. /\ s \in Queue /\ s.completed = q.completed /\ s.queue = q.queue /\ s.states = q.states
      /\ s.inFlight = q.inFlight /\ s.pending = q.pending
      /\ s.seen = Trimmed(Added(q.seen, k))
  BY <1>1, SubmittedEffect
<1> HIDE DEF s, k
<1>3. /\ Added(q.seen, k) \in Seq(Key) /\ KeySet(Added(q.seen, k)) = KeySet(q.seen) \cup {k}
      /\ Distinct(Added(q.seen, k))
  BY <1>1, AddedKeys
<1>4. Distinct(s.seen) /\ Seen(s) = Seen(q) \cup {k}
  BY <1>2, <1>3, NotTrimmed DEF Seen
<1>5. Accounts(s, {})
  BY <1>2, <1>4, SeenGrows
<1>6. ASSUME k \notin Seen(q) PROVE Nowhere(s, k)
  BY <1>2, <1>6, UnseenNowhere DEF Nowhere, Line, Parked, Flies
<1> QED BY <1>4, <1>5, <1>6 DEF s, k

\* A key on its way joins the line, at its end or at its head.
LEMMA LinesUp ==
  ASSUME NEW q, NEW j \in Job, Accounts(q, {KeyOf(j)}), Loose(q, KeyOf(j)), NEW r \in Queue,
         NEW e \in Waiting, e.job = j, r.queue = Append(q.queue, e) \/ r.queue = <<e>> \o q.queue,
         r.seen = q.seen, r.completed = q.completed,
         r.states = q.states, r.inFlight = q.inFlight, r.pending = q.pending
  PROVE  Accounts(r, {})
<1> DEFINE k == KeyOf(j)
<1>1. entryKey[e] = k
  BY DEF entryKey
<1>2. q.queue \in Seq(Waiting) /\ Single(q.queue, entryKey) /\ k \notin Keys(q.queue, entryKey)
  BY Fields DEF Accounts, Apart, Loose, Nowhere, Line
<1>3. Keys(r.queue, entryKey) = Keys(q.queue, entryKey) \cup {k} /\ Single(r.queue, entryKey)
  <2> HIDE DEF k
  <2>1. CASE r.queue = Append(q.queue, e)
    BY <1>1, <1>2, <2>1, AppendKeys
  <2>2. CASE r.queue = <<e>> \o q.queue
    BY <1>1, <1>2, <2>2, ConsKeys
  <2> QED BY <2>1, <2>2
<1>4. Line(r) = Line(q) \cup {k} /\ \A p \in PR : Parked(r, p) = Parked(q, p)
  BY <1>3 DEF Line, Parked
<1>5. \A p \in PR : Single(r.pending[p], jobKey)
  BY DEF Accounts, Apart
<1> QED BY <1>3, <1>4, <1>5, PutInPlace

\* enqueue keeps the accounts: the key is new, or refused.
LEMMA EnqueuedAccounts ==
  ASSUME RoomForAll, NEW q, Accounts(q, {}), NEW j \in Job
  PROVE  Accounts(Enqueued(q, j), {}) /\ Enqueued(q, j).inFlight = q.inFlight
<1> DEFINE s == Submitted(q, j)
           r == Become(s, j, "ready")
           k == KeyOf(j)
           lined == [r EXCEPT !.queue = Append(r.queue, Now(j))]
<1>1. q \in Queue /\ q.seen \in Seq(Key) /\ "ready" \in JobState
  BY Fields DEF Accounts, JobState
<1>2. /\ r \in Queue /\ r.inFlight = q.inFlight /\ Enqueued(q, j) \in Queue
      /\ \/ Enqueued(q, j) = q
         \/ ~Refuses(q, j) /\ Enqueued(q, j) = s
         \/ ~Refuses(q, j) /\ Enqueued(q, j) = PushCoalesced(r, j)
         \/ ~Refuses(q, j) /\ Enqueued(q, j) = lined
  <2> HIDE DEF s, r, lined
  <2> QED BY <1>1, EnqueuedEffect DEF s, r, lined
<1>3. /\ Accounts(s, {}) /\ Seen(s) = Seen(q) \cup {k}
      /\ k \notin Seen(q) => Nowhere(s, k)
  BY SubmittedSees
<1>4. s \in Queue /\ s.inFlight = q.inFlight
  BY <1>1, SubmittedEffect
<1> HIDE DEF s
<1>5. /\ r \in Queue /\ r.seen = s.seen /\ r.completed = s.completed /\ r.queue = s.queue
      /\ r.inFlight = s.inFlight /\ r.pending = s.pending
      /\ r.states = [s.states EXCEPT ![k] = "ready"]
  BY <1>1, <1>4, BecomeEffect
<1> HIDE DEF r
<1>6. ASSUME ~Refuses(q, j) PROVE Accounts(r, {k}) /\ Loose(r, k)
  <2>1. k \notin Seen(q)
    BY <1>1, <1>6, KeySetIs DEF Refuses, Seen
  <2> QED BY <1>3, <1>5, <2>1, Starts
<1>7. CASE ~Refuses(q, j) /\ Enqueued(q, j) = PushCoalesced(r, j)
  <2>1. PushCoalesced(r, j).inFlight = r.inFlight
    BY <1>2, PushEffect
  <2>2. Accounts(PushCoalesced(r, j), {})
    BY <1>6, <1>7, Pushes
  <2> QED BY <1>2, <1>7, <2>1, <2>2
<1>8. CASE ~Refuses(q, j) /\ Enqueued(q, j) = lined
  <2>1. /\ lined.queue = Append(r.queue, Now(j)) /\ lined.seen = r.seen /\ lined.states = r.states
        /\ lined.completed = r.completed /\ lined.inFlight = r.inFlight /\ lined.pending = r.pending
    BY <1>2 DEF Queue
  <2>2. lined \in Queue
    BY <1>2, <1>8
  <2> HIDE DEF lined
  <2>3. Now(j) \in Waiting /\ Now(j).job = j
    BY DEF Now, Waiting
  <2>4. Accounts(lined, {})
    BY <1>6, <1>8, <2>1, <2>2, <2>3, LinesUp
  <2> QED BY <1>2, <1>8, <2>1, <2>4
<1> HIDE DEF lined
<1> QED BY <1>2, <1>3, <1>4, <1>7, <1>8

\* One look keeps the accounts: the job it takes out of the line was done, is
\* put behind the claim of its pull request, or is claimed.  What waits is
\* ready, so that no claim is refused.
Claiming(q, r) ==
  \/ r.job = NoJob /\ r.q.inFlight = q.inFlight
  \/ /\ r.job \in Job /\ q.inFlight[r.job.pr] = NoJob
     /\ r.q.inFlight = [q.inFlight EXCEPT ![r.job.pr] = r.job]

\* One look of dequeue keeps them: the job is dropped as done, put behind the
\* claim, or claimed.
LEMMA LookAccounts ==
  ASSUME NEW q, Accounts(q, {}), Due(q) # {}
  PROVE  Accounts(Inspect(q).q, {}) /\ Claiming(q, Inspect(q))
<1> DEFINE n == Next1(q)
           j == q.queue[n].job
           k == KeyOf(j)
           rest == [q EXCEPT !.queue = RemoveAt(q.queue, n)]
           r == Inspect(q)
<1>1. /\ q \in Queue /\ q.queue \in Seq(Waiting) /\ q.completed \in Seq(Key)
  BY Fields DEF Accounts
<1>2. /\ n \in DOMAIN q.queue /\ j \in Job
      /\ rest \in Queue /\ rest.queue = RemoveAt(q.queue, n)
      /\ rest.seen = q.seen /\ rest.completed = q.completed /\ rest.states = q.states
      /\ rest.inFlight = q.inFlight /\ rest.pending = q.pending
      /\ \/ AlreadyDone(q, j) /\ r.q = rest /\ r.job = NoJob
         \/ /\ ~AlreadyDone(q, j) /\ q.inFlight[j.pr] # NoJob
            /\ r.q = PushCoalesced(rest, j) /\ r.job = NoJob
         \/ /\ ~AlreadyDone(q, j) /\ q.inFlight[j.pr] = NoJob
            /\ r.q \in Queue /\ r.q.queue = RemoveAt(q.queue, n) /\ r.q.seen = q.seen
            /\ r.q.completed = q.completed /\ r.q.pending = q.pending
            /\ r.q.inFlight = [q.inFlight EXCEPT ![j.pr] = j]
            /\ \/ /\ MayBecome(q, j, "claimed") /\ r.job = j
                  /\ r.q.states = [q.states EXCEPT ![KeyOf(j)] = "claimed"]
               \/ ~MayBecome(q, j, "claimed") /\ r.job = Thrown /\ r.q.states = q.states
  BY <1>1, InspectEffect
<1> HIDE DEF rest, r
<1>3. entryKey[q.queue[n]] = k
  <2>1. q.queue[n] \in Waiting
    BY <1>1, <1>2, ElementOfSeq, LenProperties
  <2> HIDE DEF n
  <2> QED BY <2>1, Zenon DEF entryKey
<1>4. /\ Single(rest.queue, entryKey) /\ Line(q) = Line(rest) \cup {k} /\ k \notin Line(rest)
      /\ \A p \in PR : Parked(rest, p) = Parked(q, p) /\ Single(rest.pending[p], jobKey)
  <2>1. Single(q.queue, entryKey) /\ \A p \in PR : Single(q.pending[p], jobKey)
    BY DEF Accounts, Apart
  <2>2. /\ Keys(q.queue, entryKey) = Keys(RemoveAt(q.queue, n), entryKey) \cup {entryKey[q.queue[n]]}
        /\ Single(RemoveAt(q.queue, n), entryKey)
        /\ entryKey[q.queue[n]] \notin Keys(RemoveAt(q.queue, n), entryKey)
    <3> HIDE DEF n
    <3> QED BY <1>1, <1>2, <2>1, RemoveKeys
  <2> HIDE DEF n, k
  <2> QED BY <1>2, <1>3, <2>1, <2>2 DEF Line, Parked
<1> HIDE DEF n
<1>5. Accounts(rest, {k}) /\ Loose(rest, k)
  <2> HIDE DEF k
  <2> QED BY <1>2, <1>4, TakeOut
<1>6. MayBecome(q, j, "claimed")
  <2>1. q.states[k] = "ready"
    BY <1>2, <1>5 DEF Loose
  <2> QED BY <2>1 DEF MayBecome, CanTransition
<1>7. CASE AlreadyDone(q, j) /\ r.q = rest /\ r.job = NoJob
  <2>1. AlreadyDone(rest, j)
    BY <1>2, <1>7 DEF AlreadyDone
  <2>2. Accounts(rest, {})
    BY <1>2, <1>5, <2>1, DropDone
  <2> QED BY <1>2, <1>7, <2>2 DEF Claiming, r
<1>8. CASE ~AlreadyDone(q, j) /\ q.inFlight[j.pr] # NoJob /\ r.q = PushCoalesced(rest, j) /\ r.job = NoJob
  <2>1. Accounts(PushCoalesced(rest, j), {})
    BY <1>2, <1>5, Pushes
  <2>2. PushCoalesced(rest, j).inFlight = q.inFlight
    BY <1>2, PushEffect
  <2> QED BY <1>8, <2>1, <2>2 DEF Claiming, r
<1>9. CASE /\ ~AlreadyDone(q, j) /\ q.inFlight[j.pr] = NoJob
           /\ r.q \in Queue /\ r.q.queue = RemoveAt(q.queue, n) /\ r.q.seen = q.seen
           /\ r.q.completed = q.completed /\ r.q.pending = q.pending
           /\ r.q.inFlight = [q.inFlight EXCEPT ![j.pr] = j]
           /\ r.job = j /\ r.q.states = [q.states EXCEPT ![KeyOf(j)] = "claimed"]
  <2>1. ~Flies(rest, j.pr)
    BY <1>2, <1>9 DEF Flies
  <2>2. /\ r.q.queue = rest.queue /\ r.q.seen = rest.seen /\ r.q.completed = rest.completed
        /\ r.q.pending = rest.pending /\ r.q.inFlight = [rest.inFlight EXCEPT ![j.pr] = j]
        /\ r.q.states = [rest.states EXCEPT ![KeyOf(j)] = "claimed"] /\ r.q \in Queue
    BY <1>2, <1>9
  <2>3. Accounts(r.q, {})
    <3> DEFINE x == r.q
    <3> HIDE DEF x
    <3>1. /\ x.queue = rest.queue /\ x.seen = rest.seen /\ x.completed = rest.completed
          /\ x.pending = rest.pending /\ x.inFlight = [rest.inFlight EXCEPT ![j.pr] = j]
          /\ x.states = [rest.states EXCEPT ![KeyOf(j)] = "claimed"] /\ x \in Queue
      BY <2>2 DEF x
    <3> HIDE DEF j
    <3>2. Accounts(x, {})
      BY <1>2, <1>5, <2>1, <3>1, Claims1 DEF k
    <3> QED BY <3>2 DEF x
  <2> QED BY <1>2, <1>9, <2>3 DEF Claiming, r
<1> QED BY <1>2, <1>6, <1>7, <1>8, <1>9

\* So does a dequeue, which looks until it claims something.
Looked2(q) == {r \in [q : Queue, job : Job \cup {NoJob}] : Accounts(r.q, {}) /\ Claiming(q, r)}

\* All the looks of dequeue keep them.
LEMMA DequeuedAccounts ==
  ASSUME NEW q, Accounts(q, {})
  PROVE  Dequeued(q) \in Looked2(q)
<1>0. q \in Queue
  BY DEF Accounts
<1>1. [q |-> q, job |-> NoJob] \in Looked2(q)
  BY <1>0 DEF Looked2, Claiming
<1>2. ASSUME NEW r \in Looked2(q) PROVE LooksOn(r) \in Looked2(q)
  <2>1. CASE r.job # NoJob \/ Due(r.q) = {}
    BY <2>1 DEF LooksOn
  <2>2. CASE ~(r.job # NoJob \/ Due(r.q) = {})
    <3> DEFINE x == r.q
               t == Inspect(x)
    <3>1. /\ Accounts(x, {}) /\ Due(x) # {} /\ LooksOn(r) = t
          /\ x.inFlight = q.inFlight
      <4>1. r.job = NoJob /\ NoJob \notin Job
        BY <2>2, NoJobAssumption
      <4> QED BY <2>2, <4>1 DEF Looked2, LooksOn, Claiming
    <3> HIDE DEF x
    <3>2. Accounts(t.q, {}) /\ Claiming(x, t)
      BY <3>1, LookAccounts
    <3>3. t = [q |-> t.q, job |-> t.job]
      BY DEF Inspect
    <3> HIDE DEF t
    <3>4. Claiming(q, t)
      BY <3>1, <3>2 DEF Claiming
    <3>5. t.q \in Queue /\ t.job \in Job \cup {NoJob}
      BY <3>2 DEF Accounts, Claiming
    <3>6. t \in [q : Queue, job : Job \cup {NoJob}]
      BY <3>3, <3>5
    <3> QED BY <3>1, <3>2, <3>4, <3>6 DEF Looked2
  <2> QED BY <2>1, <2>2
<1> HIDE DEF Looked2
<1> QED BY <1>1, <1>2, DequeuedIn

\* The first of the jobs behind a claim is on its way.
LEMMA HeadLeaves ==
  ASSUME NEW q, Accounts(q, {}), NEW p \in PR, q.pending[p] # <<>>, NEW r \in Queue,
         r.pending = [q.pending EXCEPT ![p] = Tail(q.pending[p])],
         r.seen = q.seen, r.completed = q.completed, r.states = q.states,
         r.inFlight = q.inFlight, r.queue = q.queue
  PROVE  LET h == Head(q.pending[p])
         IN  h \in Job /\ Accounts(r, {KeyOf(h)}) /\ Loose(r, KeyOf(h))
<1> DEFINE list == q.pending[p]
           h == Head(list)
           k == KeyOf(h)
<1>1. list \in Seq(Job) /\ q.pending \in [PR -> Seq(Job)]
  BY Fields DEF Accounts
<1>2. /\ \A x \in PR : Single(q.pending[x], jobKey)
      /\ Single(q.queue, entryKey)
  BY DEF Accounts, Apart
<1>3. /\ h \in Job /\ Keys(list, jobKey) = Keys(Tail(list), jobKey) \cup {jobKey[h]}
      /\ Single(Tail(list), jobKey) /\ jobKey[h] \notin Keys(Tail(list), jobKey)
  <2>1. list # <<>> /\ Single(list, jobKey)
    BY <1>2
  <2> HIDE DEF list
  <2> QED BY <1>1, <2>1, TailKeys
<1>4. jobKey[h] = k
  <2>1. h \in Job
    BY <1>3
  <2> HIDE DEF h
  <2> QED BY <2>1, Zenon DEF jobKey
<1>5. r.pending[p] = Tail(list) /\ \A x \in PR : x # p => r.pending[x] = q.pending[x]
  BY <1>1
<1> HIDE DEF h
<1>6. \A x \in PR : Single(r.pending[x], jobKey)
  BY <1>2, <1>3, <1>5
<1> HIDE DEF k
<1>7. /\ Line(r) = Line(q) /\ Parked(q, p) = Parked(r, p) \cup {k} /\ k \notin Parked(r, p)
      /\ \A x \in PR : x # p => Parked(r, x) = Parked(q, x)
  BY <1>3, <1>4, <1>5 DEF Line, Parked
<1>8. Accounts(r, {k}) /\ Loose(r, k)
  BY <1>2, <1>6, <1>7, TakeOut
<1> QED BY <1>3, <1>8 DEF k, h

\* releaseLockAndDrain keeps them.
LEMMA DrainedAccounts ==
  ASSUME NEW q, Accounts(q, {}), NEW p \in PR
  PROVE  Accounts(Drained(q, p), {}) /\ Drained(q, p).inFlight = q.inFlight
<1> DEFINE list == q.pending[p]
           h == Head(list)
           r == Drained(q, p)
           mid == [q EXCEPT !.pending = [q.pending EXCEPT ![p] = Tail(list)]]
<1>1. /\ q \in Queue /\ r \in Queue /\ list \in Seq(Job) /\ q.pending \in [PR -> Seq(Job)]
      /\ list = <<>> => r = q
      /\ list # <<>> => /\ r.queue = Append(q.queue, Now(Head(list)))
                        /\ r.pending = [q.pending EXCEPT ![p] = Tail(list)]
                        /\ r.seen = q.seen /\ r.completed = q.completed
                        /\ r.states = q.states /\ r.inFlight = q.inFlight
  BY DrainedEffect, Fields DEF Accounts
<1> HIDE DEF r
<1>2. CASE list = <<>>
  BY <1>1, <1>2 DEF r
<1>3. CASE list # <<>>
  <2>1. mid \in Queue
    <3>1. Tail(list) \in Seq(Job)
      BY <1>1, <1>3, TailKeys
    <3>2. [q.pending EXCEPT ![p] = Tail(list)] \in [PR -> Seq(Job)]
      <4> HIDE DEF list
      <4> QED BY <1>1, <3>1
    <3> QED BY <1>1, <3>2, Columns
  <2>2. /\ mid.pending = [q.pending EXCEPT ![p] = Tail(list)] /\ mid.seen = q.seen
        /\ mid.completed = q.completed /\ mid.states = q.states /\ mid.inFlight = q.inFlight
        /\ mid.queue = q.queue
    BY <1>1 DEF Queue
  <2> HIDE DEF mid
  <2>3. h \in Job /\ Accounts(mid, {KeyOf(h)}) /\ Loose(mid, KeyOf(h))
    BY <1>1, <1>3, <2>1, <2>2, HeadLeaves
  <2> HIDE DEF h
  <2>4. Now(h) \in Waiting /\ Now(h).job = h
    BY <2>3 DEF Now, Waiting
  <2>5. Accounts(r, {})
    <3>1. /\ r.queue = Append(mid.queue, Now(h)) /\ r.pending = mid.pending /\ r.seen = mid.seen
          /\ r.completed = mid.completed /\ r.states = mid.states /\ r.inFlight = mid.inFlight
      BY <1>1, <1>3, <2>2 DEF h
    <3> QED BY <1>1, <2>3, <2>4, <3>1, LinesUp
  <2> QED BY <1>1, <1>3, <2>5 DEF r
<1> QED BY <1>2, <1>3

\* A job that is handed back waits at the head of the line again, or the job
\* that waited behind it does.
HasClaim(q, j) == q.inFlight[j.pr] = j

\* returnToQueue keeps them and ends the claim.
LEMMA ReturnedAccounts ==
  ASSUME NEW q, Accounts(q, {}), NEW j \in Job, HasClaim(q, j), NEW early \in BOOLEAN
  PROVE  /\ Accounts(Returned(q, j, early), {})
         /\ Returned(q, j, early).inFlight = [q.inFlight EXCEPT ![j.pr] = NoJob]
<1> DEFINE list == q.pending[j.pr]
           k == KeyOf(j)
           to == BackState(q, j)
           e == BackEntry(q, j, early)
           r == Returned(q, j, early)
           freed == [q EXCEPT !.inFlight = [q.inFlight EXCEPT ![j.pr] = NoJob],
                              !.states = [q.states EXCEPT ![k] = to]]
<1>1. /\ q \in Queue /\ j.pr \in PR /\ k \in Key /\ j # NoJob /\ list \in Seq(Job)
      /\ q.pending \in [PR -> Seq(Job)] /\ q.inFlight \in [PR -> Job \cup {NoJob}]
      /\ q.states \in [Key -> JobState]
  BY PayloadTypes, Fields DEF Accounts
<1>2. to \in {"ready", "cancelled"} /\ to \in JobState
  BY DEF BackState, JobState
<1>3. /\ r \in Queue /\ r.seen = q.seen /\ r.completed = q.completed
      /\ r.inFlight = [q.inFlight EXCEPT ![j.pr] = NoJob]
      /\ r.queue = <<e>> \o q.queue
      /\ r.pending = BackPending(q, j)
      /\ r.states = [q.states EXCEPT ![k] = to]
  <2>1. q \in Queue
    BY <1>1
  <2>2. r \in Queue /\ r.seen = q.seen /\ r.completed = q.completed
    BY <2>1, ReturnedEffect, Zenon
  <2>3. r.inFlight = [q.inFlight EXCEPT ![j.pr] = NoJob]
    BY <2>1, ReturnedEffect, Zenon
  <2>4. r.queue = <<e>> \o q.queue
    BY <2>1, ReturnedEffect, Zenon
  <2>5. r.pending = BackPending(q, j)
    BY <2>1, ReturnedEffect, Zenon
  <2>6. r.states = BackStates(q, j)
    BY <2>1, ReturnedEffect, Zenon
  <2>7. BackStates(q, j) = [q.states EXCEPT ![k] = to]
    BY DEF BackStates
  <2> HIDE DEF r, to, e, k
  <2> QED BY <2>2, <2>3, <2>4, <2>5, <2>6, <2>7
<1> HIDE DEF r, to, e
<1>4. /\ freed \in Queue /\ freed.seen = q.seen /\ freed.completed = q.completed
      /\ freed.queue = q.queue /\ freed.pending = q.pending
      /\ freed.inFlight = [q.inFlight EXCEPT ![j.pr] = NoJob]
      /\ freed.states = [q.states EXCEPT ![k] = to]
  <2>1. [q.inFlight EXCEPT ![j.pr] = NoJob] \in [PR -> Job \cup {NoJob}]
    BY <1>1
  <2>2. [q.states EXCEPT ![k] = to] \in [Key -> JobState]
    BY <1>1, <1>2
  <2> HIDE DEF k
  <2> QED BY <1>1, <2>1, <2>2 DEF Queue
<1> HIDE DEF freed
<1>5. /\ Accounts(freed, {k}) /\ Nowhere(freed, k)
      /\ to # "ready" => Accounts(freed, {})
  <2>1. Distinct(q.seen) /\ Distinct(q.completed)
    BY DEF Accounts
  <2>2. to \notin {"claimed", "running"} /\ Seen(q) \ {k} \subseteq Seen(freed)
    BY <1>2, <1>4 DEF Seen
  <2>3. /\ Distinct(freed.seen) /\ Distinct(freed.completed)
        /\ KeySet(q.completed) \subseteq KeySet(freed.completed)
    BY <1>4, <2>1
  <2> QED BY <1>4, <2>2, <2>3, Frees, Zenon DEF HasClaim
<1>6. CASE list = <<>>
  <2>1. to = "ready" /\ r.pending = q.pending /\ e = [job |-> j, early |-> early]
    BY <1>3, <1>6 DEF to, e, BackState, BackPending, BackEntry
  <2>2. e \in Waiting /\ e.job = j
    BY <2>1 DEF Waiting
  <2>3. Loose(freed, k)
    <3>1. k \in Seen(q)
      BY <1>1 DEF Accounts, KnownReady, Flies, HasClaim
    <3>2. freed.states[k] = "ready"
      BY <1>1, <1>4, <2>1
    <3> QED BY <1>4, <1>5, <3>1, <3>2 DEF Loose, Seen
  <2>4. /\ r.queue = <<e>> \o freed.queue /\ r.pending = freed.pending /\ r.seen = freed.seen
        /\ r.completed = freed.completed /\ r.states = freed.states /\ r.inFlight = freed.inFlight
    BY <1>3, <1>4, <2>1
  <2>5. Accounts(r, {})
    BY <1>3, <1>5, <2>2, <2>3, <2>4, LinesUp
  <2> QED BY <1>3, <2>5 DEF r
<1>7. CASE list # <<>>
  <2> DEFINE h == Head(list)
             tails == [q.pending EXCEPT ![j.pr] = Tail(list)]
             mid == [freed EXCEPT !.pending = tails]
  <2>1. to = "cancelled" /\ r.pending = tails /\ e = Now(h)
    BY <1>3, <1>7 DEF to, e, BackState, BackPending, BackEntry
  <2>2. tails \in [PR -> Seq(Job)]
    <3>1. Tail(list) \in Seq(Job)
      BY <1>1, <1>7, TailKeys
    <3> HIDE DEF list
    <3> QED BY <1>1, <3>1
  <2>3. /\ mid \in Queue /\ mid.pending = tails /\ mid.seen = freed.seen
        /\ mid.completed = freed.completed /\ mid.states = freed.states
        /\ mid.inFlight = freed.inFlight /\ mid.queue = freed.queue
    <3> HIDE DEF tails
    <3> QED BY <1>4, <2>2 DEF Queue
  <2> HIDE DEF mid
  <2>4. h \in Job /\ Accounts(mid, {KeyOf(h)}) /\ Loose(mid, KeyOf(h))
    <3>1. Accounts(freed, {}) /\ freed.pending[j.pr] # <<>> /\ freed.pending[j.pr] = list
      BY <1>2, <1>4, <1>5, <1>7, <2>1
    <3>2. mid.pending = [freed.pending EXCEPT ![j.pr] = Tail(freed.pending[j.pr])]
      BY <1>4, <2>3
    <3>3. LET g == Head(freed.pending[j.pr])
          IN  g \in Job /\ Accounts(mid, {KeyOf(g)}) /\ Loose(mid, KeyOf(g))
      <4> HIDE DEF list, tails, h
      <4> QED BY <1>1, <2>3, <3>1, <3>2, HeadLeaves
    <3> QED BY <3>1, <3>3
  <2> HIDE DEF h, tails
  <2>5. e \in Waiting /\ e.job = h
    BY <2>1, <2>4 DEF Now, Waiting
  <2>6. /\ r.queue = <<e>> \o mid.queue /\ r.pending = mid.pending /\ r.seen = mid.seen
        /\ r.completed = mid.completed /\ r.states = mid.states /\ r.inFlight = mid.inFlight
    BY <1>3, <1>4, <2>1, <2>3
  <2>7. Accounts(r, {})
    BY <1>3, <2>4, <2>5, <2>6, LinesUp
  <2> QED BY <1>3, <2>7 DEF r
<1> QED BY <1>6, <1>7

\* A job ends, well or badly.
LEMMA MarkedKeys ==
  ASSUME NEW s \in Seq(Key), Distinct(s), NEW j \in Job, NEW draft \in BOOLEAN
  PROVE  LET t == Marked(s, j, draft)
         IN  t \in Seq(Key) /\ Distinct(t) /\ KeySet(s) \subseteq KeySet(t)
<1>1. KeyOf(j) \in Key /\ BareOf(j) \in Key /\ DraftOf(j) \in Key
  BY PayloadTypes
<1>2. \A k \in Key : /\ Added(s, k) \in Seq(Key) /\ Distinct(Added(s, k))
                     /\ KeySet(s) \subseteq KeySet(Added(s, k))
  BY AddedKeys
<1>3. LET u == Added(Added(s, KeyOf(j)), BareOf(j))
      IN  u \in Seq(Key) /\ Distinct(u) /\ KeySet(s) \subseteq KeySet(u)
  <2> DEFINE a == Added(s, KeyOf(j))
  <2>1. a \in Seq(Key) /\ Distinct(a) /\ KeySet(s) \subseteq KeySet(a)
    BY <1>1, <1>2
  <2> HIDE DEF a
  <2>2. /\ Added(a, BareOf(j)) \in Seq(Key) /\ Distinct(Added(a, BareOf(j)))
        /\ KeySet(a) \subseteq KeySet(Added(a, BareOf(j)))
    BY <1>1, <2>1, AddedKeys
  <2> QED BY <2>1, <2>2 DEF a
<1> QED BY <1>1, <1>2, <1>3 DEF Marked

\* markCompleted keeps them and ends the claim.
LEMMA CompletedAccounts ==
  ASSUME RoomForAll, NEW q, Accounts(q, {}), NEW j \in Job, HasClaim(q, j), NEW draft \in BOOLEAN
  PROVE  /\ Accounts(Completed(q, j, draft), {})
         /\ Completed(q, j, draft).inFlight = [q.inFlight EXCEPT ![j.pr] = NoJob]
<1> DEFINE r == Completed(q, j, draft)
           t == Marked(q.completed, j, draft)
<1>1. q \in Queue /\ q.completed \in Seq(Key) /\ Distinct(q.completed) /\ Distinct(q.seen)
  BY Fields DEF Accounts
<1>2. t \in Seq(Key) /\ Distinct(t) /\ KeySet(q.completed) \subseteq KeySet(t)
  BY <1>1, MarkedKeys
<1>3. /\ r \in Queue /\ r.seen = q.seen /\ r.completed = Trimmed(t)
      /\ r.queue = q.queue /\ r.pending = q.pending
      /\ r.inFlight = [q.inFlight EXCEPT ![j.pr] = NoJob]
      /\ r.states = [q.states EXCEPT ![KeyOf(j)] = "succeeded"]
  BY <1>1, CompletedEffect
<1> HIDE DEF r, t
<1>4. r.completed = t
  BY <1>2, <1>3, NotTrimmed
<1>5. /\ Distinct(r.seen) /\ Seen(q) \ {KeyOf(j)} \subseteq Seen(r)
      /\ Distinct(r.completed) /\ KeySet(q.completed) \subseteq KeySet(r.completed)
  BY <1>1, <1>2, <1>3, <1>4 DEF Seen
<1>6. "succeeded" \notin {"claimed", "running"} /\ "succeeded" # "ready"
  OBVIOUS
<1>7. Accounts(r, {})
  BY <1>3, <1>5, <1>6, Frees, Zenon DEF HasClaim
<1> QED BY <1>3, <1>7 DEF r

\* markFailed keeps them and ends the claim.
LEMMA FailedAccounts ==
  ASSUME NEW q, Accounts(q, {}), NEW j \in Job, HasClaim(q, j), NEW dead \in BOOLEAN
  PROVE  /\ Accounts(Failed(q, j, dead), {})
         /\ Failed(q, j, dead).inFlight = [q.inFlight EXCEPT ![j.pr] = NoJob]
<1> DEFINE r == Failed(q, j, dead)
           k == KeyOf(j)
<1>1. /\ q \in Queue /\ q.seen \in Seq(Key) /\ Distinct(q.seen) /\ Distinct(q.completed)
      /\ k \in Key
  BY PayloadTypes, Fields DEF Accounts
<1>2. /\ r \in Queue /\ r.seen = Forgotten(q.seen, k) /\ r.completed = q.completed
      /\ r.queue = q.queue /\ r.pending = q.pending
      /\ r.inFlight = [q.inFlight EXCEPT ![j.pr] = NoJob]
      /\ r.states = [q.states EXCEPT ![k] = FailState(dead)]
  <2>1. q \in Queue
    BY <1>1
  <2> QED BY <2>1, FailedEffect, Zenon
<1> HIDE DEF r, k
<1>3. Distinct(Forgotten(q.seen, k)) /\ KeySet(q.seen) \ {k} \subseteq KeySet(Forgotten(q.seen, k))
  BY <1>1, ForgottenKeys
<1>4. /\ Distinct(r.seen) /\ Seen(q) \ {k} \subseteq Seen(r)
      /\ Distinct(r.completed) /\ KeySet(q.completed) \subseteq KeySet(r.completed)
  BY <1>1, <1>2, <1>3 DEF Seen
<1>5. FailState(dead) \notin {"claimed", "running"} /\ FailState(dead) # "ready"
  BY DEF FailState
<1>6. Accounts(r, {})
  BY <1>2, <1>4, <1>5, Frees, Zenon DEF HasClaim, k
<1> QED BY <1>2, <1>6 DEF r

\* markRunning keeps them.
LEMMA RunningAccounts ==
  ASSUME NEW q, Accounts(q, {}), NEW j \in Job, HasClaim(q, j)
  PROVE  /\ Accounts(Become(q, j, "running"), {})
         /\ Become(q, j, "running").inFlight = q.inFlight
<1> DEFINE r == Become(q, j, "running")
<1>1. q \in Queue /\ "running" \in JobState
  BY DEF Accounts, JobState
<1>2. /\ r \in Queue /\ r.seen = q.seen /\ r.completed = q.completed /\ r.queue = q.queue
      /\ r.inFlight = q.inFlight /\ r.pending = q.pending
      /\ r.states = [q.states EXCEPT ![KeyOf(j)] = "running"]
  BY <1>1, BecomeEffect
<1> HIDE DEF r
<1>3. Accounts(r, {})
  BY <1>2, Runs, Zenon DEF HasClaim
<1> QED BY <1>2, <1>3 DEF r

\* A replay: the key of a dead letter was forgotten when it failed.
LEMMA ReplayedAccounts ==
  ASSUME RoomForAll, NEW q, Accounts(q, {}), NEW i \in DOMAIN q.deadLetters,
         ~Contains(q.seen, KeyOf(q.deadLetters[i]))
  PROVE  Accounts(Replayed(q, i), {}) /\ Replayed(q, i).inFlight = q.inFlight
<1> DEFINE j == q.deadLetters[i]
           k == KeyOf(j)
           r == Replayed(q, i)
           s == Submitted(q, j)
           m == Become(s, j, "ready")
<1>1. q \in Queue /\ q.seen \in Seq(Key) /\ "ready" \in JobState
  BY Fields DEF Accounts, JobState
<1>2. /\ j \in Job /\ r \in Queue /\ r.seen = Trimmed(Added(q.seen, k))
      /\ r.completed = q.completed /\ r.pending = q.pending /\ r.inFlight = q.inFlight
      /\ MayBecome(q, j, "ready") => /\ r.queue = Append(q.queue, Now(j))
                                     /\ r.states = [q.states EXCEPT ![k] = "ready"]
      /\ ~MayBecome(q, j, "ready") => r.queue = q.queue /\ r.states = q.states
  BY <1>1, ReplayedEffect
<1>3. k \notin Seen(q)
  BY <1>1, KeySetIs DEF Seen
<1> HIDE DEF j, r
<1>4. /\ s \in Queue /\ s.completed = q.completed /\ s.queue = q.queue /\ s.states = q.states
      /\ s.inFlight = q.inFlight /\ s.pending = q.pending
      /\ s.seen = Trimmed(Added(q.seen, k))
  BY <1>1, <1>2, SubmittedEffect
<1>5. Accounts(s, {}) /\ Seen(s) = Seen(q) \cup {k} /\ Nowhere(s, k)
  BY <1>2, <1>3, SubmittedSees
<1> HIDE DEF s
<1>6. CASE ~MayBecome(q, j, "ready")
  <2>1. Seen(s) \subseteq Seen(r) /\ Distinct(r.seen)
    BY <1>2, <1>4, <1>5 DEF Accounts, Seen
  <2>2. Accounts(r, {})
    BY <1>2, <1>4, <1>5, <1>6, <2>1, SeenGrows
  <2> QED BY <1>2, <2>2 DEF r
<1>7. CASE MayBecome(q, j, "ready")
  <2>1. /\ m \in Queue /\ m.seen = s.seen /\ m.completed = s.completed /\ m.queue = s.queue
        /\ m.inFlight = s.inFlight /\ m.pending = s.pending
        /\ m.states = [s.states EXCEPT ![k] = "ready"]
    BY <1>1, <1>2, <1>4, BecomeEffect
  <2> HIDE DEF m
  <2>2. Accounts(m, {k}) /\ Loose(m, k)
    <3>1. k \in Seen(s)
      BY <1>5
    <3> QED BY <1>2, <1>5, <2>1, <3>1, Starts
  <2>3. Now(j) \in Waiting /\ Now(j).job = j
    BY <1>2 DEF Now, Waiting
  <2>4. /\ r.queue = Append(m.queue, Now(j)) /\ r.seen = m.seen /\ r.completed = m.completed
        /\ r.states = m.states /\ r.inFlight = m.inFlight /\ r.pending = m.pending
    BY <1>2, <1>4, <1>7, <2>1
  <2>5. Accounts(r, {})
    BY <1>2, <2>2, <2>3, <2>4, LinesUp
  <2> QED BY <1>2, <2>5 DEF r
<1> QED BY <1>6, <1>7

\* Time passes for a job that was handed back.
LEMMA DueAccounts ==
  ASSUME NEW q, Accounts(q, {}), NEW i \in DOMAIN q.queue, NEW r,
         r = [q EXCEPT !.queue[i].early = FALSE]
  PROVE  Accounts(r, {}) /\ r.inFlight = q.inFlight
<1> DEFINE e == [q.queue[i] EXCEPT !.early = FALSE]
           t == [q.queue EXCEPT ![i] = e]
<1>1. q \in Queue /\ q.queue \in Seq(Waiting) /\ q.queue[i] \in Waiting
  BY Fields, ElementOfSeq, LenProperties DEF Accounts
<1>2. e \in Waiting /\ e.job = q.queue[i].job
  BY <1>1 DEF Waiting
<1>3. r = [q EXCEPT !.queue = t]
  BY <1>1 DEF Queue
<1>4. entryKey[e] = entryKey[q.queue[i]]
  <2> HIDE DEF e
  <2> QED BY <1>1, <1>2 DEF entryKey
<1> HIDE DEF e
<1>5. t \in Seq(Waiting) /\ DOMAIN t = DOMAIN q.queue /\ t[i] = e
      /\ \A x \in DOMAIN q.queue : x # i => t[x] = q.queue[x]
  BY <1>1, <1>2, ExceptSeq, LenProperties, ElementOfSeq
<1> HIDE DEF t
<1>6. Single(q.queue, entryKey)
  BY DEF Accounts, Apart
<1>7. \A x \in DOMAIN q.queue : entryKey[t[x]] = entryKey[q.queue[x]]
  BY <1>4, <1>5
<1>8. Keys(t, entryKey) = Keys(q.queue, entryKey) /\ Single(t, entryKey)
  BY <1>5, <1>6, <1>7 DEF Keys, Single
<1>9. /\ r \in Queue /\ r.queue = t /\ r.seen = q.seen /\ r.completed = q.completed
      /\ r.states = q.states /\ r.inFlight = q.inFlight /\ r.pending = q.pending
  BY <1>1, <1>3, <1>5 DEF Queue
<1>10. Line(r) = Line(q) /\ \A p \in PR : Parked(r, p) = Parked(q, p)
  BY <1>8, <1>9 DEF Line, Parked
<1>11. Apart(r)
  BY <1>8, <1>9, <1>10 DEF Accounts, Apart, Flies
<1>12. KnownReady(r)
  BY <1>9, <1>10 DEF Accounts, KnownReady, Flies, Seen
<1>13. ReadyWaits(r, {}) /\ ClaimedFlies(r)
  <2>1. ASSUME NEW x \in Job PROVE x.pr \in PR
    BY PayloadTypes
  <2> QED BY <1>9, <1>10, <2>1 DEF Accounts, ReadyWaits, ClaimedFlies, AlreadyDone, Flies
<1> QED BY <1>9, <1>11, <1>12, <1>13 DEF Accounts

\* A fresh process accounts for every job: there is none.
LEMMA EmptyAccounts == Accounts(EmptyQueue, {}) /\ EmptyQueue.inFlight = [p \in PR |-> NoJob]
<1> DEFINE q == EmptyQueue
<1>1. /\ q \in Queue /\ q.queue = <<>> /\ q.seen = <<>> /\ q.completed = <<>>
      /\ q.inFlight = [p \in PR |-> NoJob] /\ q.pending = [p \in PR |-> <<>>]
      /\ \A k \in Key : q.states[k] = "submitted"
  BY EmptyIsQueue DEF EmptyQueue
<1> HIDE DEF q
<1>2. DOMAIN <<>> = {}
  OBVIOUS
<1>3. \A f : Keys(<<>>, f) = {} /\ Single(<<>>, f)
  BY <1>2 DEF Keys, Single
<1>4. Line(q) = {} /\ \A p \in PR : Parked(q, p) = {} /\ ~Flies(q, p)
  BY <1>1, <1>3 DEF Line, Parked, Flies
<1>5. Apart(q) /\ KnownReady(q)
  BY <1>1, <1>3, <1>4 DEF Apart, KnownReady
<1>6. ReadyWaits(q, {}) /\ ClaimedFlies(q)
  <2>1. ASSUME NEW x \in Job PROVE KeyOf(x) \in Key
    BY PayloadTypes
  <2> QED BY <1>1, <2>1 DEF ReadyWaits, ClaimedFlies
<1> QED BY <1>1, <1>3, <1>5, <1>6 DEF Accounts, Distinct, q

-----------------------------------------------------------------------------
(* The jobs in flight are in the hands of the workers.                     *)

Active == {"claimed", "running", "applied"}
Hands ==
  /\ \A w \in Worker : stage[w] \in Active => mq.inFlight[held[w].pr] = held[w]
  /\ \A v, w \in Worker :
       stage[v] \in Active /\ stage[w] \in Active /\ held[v].pr = held[w].pr => v = w
  /\ \A p \in PR : Flies(mq, p) => \E w \in Worker : stage[w] \in Active /\ held[w] = mq.inFlight[p]
Accounted == Accounts(mq, {}) /\ Hands

\* Nobody claims anything and nobody's claim ends.
LEMMA HandsSame ==
  ASSUME Hands, mq'.inFlight = mq.inFlight,
         \A w \in Worker : /\ stage'[w] \in Active <=> stage[w] \in Active
                           /\ stage[w] \in Active => held'[w] = held[w]
  PROVE  Hands'
BY DEF Hands, Flies

\* An idle worker claims a job of a pull request that has no claim.
LEMMA HandsClaim ==
  ASSUME AtWork, Hands, NEW w \in Worker, stage[w] = "idle", NEW j \in Job,
         mq.inFlight[j.pr] = NoJob, mq'.inFlight = [mq.inFlight EXCEPT ![j.pr] = j],
         held' = [held EXCEPT ![w] = j], At(w, "claimed")
  PROVE  Hands'
<1>1. /\ j.pr \in PR /\ j # NoJob /\ mq.inFlight \in [PR -> Job \cup {NoJob}]
      /\ "idle" \notin Active /\ "claimed" \in Active
  BY PayloadTypes, Fields DEF AtWork, Active
<1>2. /\ mq'.inFlight[j.pr] = j /\ held'[w] = j /\ stage'[w] = "claimed"
      /\ \A p \in PR : p # j.pr => mq'.inFlight[p] = mq.inFlight[p]
      /\ \A v \in Worker : v # w => held'[v] = held[v] /\ stage'[v] = stage[v]
  BY <1>1 DEF AtWork, At
<1>3. \A v \in Worker : stage[v] \in Active => held[v] \in Job /\ held[v].pr \in PR /\ held[v].pr # j.pr
  <2> SUFFICES ASSUME NEW v \in Worker, stage[v] \in Active
               PROVE  held[v] \in Job /\ held[v].pr \in PR /\ held[v].pr # j.pr
    OBVIOUS
  <2>1. held[v] \in Job /\ mq.inFlight[held[v].pr] = held[v]
    BY <1>1 DEF AtWork, Hands
  <2>2. held[v].pr \in PR /\ held[v] # NoJob
    BY <2>1, PayloadTypes
  <2> QED BY <2>1, <2>2
<1>4. \A v \in Worker : stage'[v] \in Active => mq'.inFlight[held'[v].pr] = held'[v]
  BY <1>2, <1>3 DEF Hands
<1>5. \A u, v \in Worker :
        stage'[u] \in Active /\ stage'[v] \in Active /\ held'[u].pr = held'[v].pr => u = v
  BY <1>2, <1>3 DEF Hands
<1>6. \A p \in PR : Flies(mq', p) => \E v \in Worker : stage'[v] \in Active /\ held'[v] = mq'.inFlight[p]
  <2> SUFFICES ASSUME NEW p \in PR, Flies(mq', p)
               PROVE  \E v \in Worker : stage'[v] \in Active /\ held'[v] = mq'.inFlight[p]
    OBVIOUS
  <2>1. CASE p = j.pr
    BY <1>1, <1>2, <2>1
  <2>2. CASE p # j.pr
    <3>1. PICK v \in Worker : stage[v] \in Active /\ held[v] = mq.inFlight[p]
      BY <1>2, <2>2 DEF Hands, Flies
    <3>2. v # w
      BY <1>1, <3>1
    <3> QED BY <1>2, <2>2, <3>1, <3>2
  <2> QED BY <2>1, <2>2
<1> QED BY <1>4, <1>5, <1>6 DEF Hands

\* The claim of a worker ends.
LEMMA HandsFree ==
  ASSUME AtWork, Accounted, NEW w \in Worker, stage[w] \in Active,
         mq'.inFlight = [mq.inFlight EXCEPT ![held[w].pr] = NoJob], held' = held,
         NEW s, s \notin Active, At(w, s)
  PROVE  Hands'
<1> DEFINE j == held[w]
<1>1. /\ j.pr \in PR /\ j \in Job /\ mq.inFlight \in [PR -> Job \cup {NoJob}] /\ mq.inFlight[j.pr] = j
  <2>1. j \in Job /\ mq.inFlight[j.pr] = j
    BY DEF AtWork, Accounted, Hands, Active
  <2> QED BY <2>1, PayloadTypes, Fields DEF AtWork
<1>2. /\ mq'.inFlight[j.pr] = NoJob /\ stage'[w] \notin Active
      /\ \A p \in PR : p # j.pr => mq'.inFlight[p] = mq.inFlight[p]
      /\ \A v \in Worker : v # w => stage'[v] = stage[v]
  BY <1>1 DEF AtWork, At
<1>3. \A v \in Worker : v # w /\ stage[v] \in Active => held[v].pr \in PR /\ held[v].pr # j.pr
  <2> SUFFICES ASSUME NEW v \in Worker, v # w, stage[v] \in Active
               PROVE  held[v].pr \in PR /\ held[v].pr # j.pr
    OBVIOUS
  <2>1. held[v] \in Job
    BY DEF AtWork, Active
  <2>2. held[v].pr \in PR
    BY <2>1, PayloadTypes
  <2> QED BY <2>2 DEF Accounted, Hands
<1>4. \A v \in Worker : stage'[v] \in Active => v # w /\ mq'.inFlight[held[v].pr] = held[v]
  BY <1>2, <1>3 DEF Accounted, Hands
<1>5. \A u, v \in Worker : stage'[u] \in Active /\ stage'[v] \in Active /\ held[u].pr = held[v].pr => u = v
  BY <1>2 DEF Accounted, Hands
<1>6. \A p \in PR : Flies(mq', p) => \E v \in Worker : stage'[v] \in Active /\ held[v] = mq'.inFlight[p]
  <2> SUFFICES ASSUME NEW p \in PR, Flies(mq', p)
               PROVE  \E v \in Worker : stage'[v] \in Active /\ held[v] = mq'.inFlight[p]
    OBVIOUS
  <2>1. p # j.pr /\ mq'.inFlight[p] = mq.inFlight[p] /\ Flies(mq, p)
    BY <1>2 DEF Flies
  <2>2. PICK v \in Worker : stage[v] \in Active /\ held[v] = mq.inFlight[p]
    BY <2>1 DEF Accounted, Hands
  <2>3. held[v].pr = p
    BY <2>1, <2>2 DEF Accounted, Accounts, Apart
  <2>4. v # w
    BY <2>1, <2>3
  <2> QED BY <1>2, <2>1, <2>2, <2>4
<1> QED BY <1>4, <1>5, <1>6 DEF Hands

\* So it does with its workers idle.
LEMMA AccountedEmpty ==
  ASSUME mq = EmptyQueue, stage = [w \in Worker |-> "idle"]
  PROVE  Accounted
<1>1. Accounts(mq, {}) /\ mq.inFlight = [p \in PR |-> NoJob]
  BY EmptyAccounts, Zenon
<1>2. \A w \in Worker : stage[w] \notin Active
  BY DEF Active
<1> QED BY <1>1, <1>2 DEF Accounted, Hands, Flies

\* What a worker does with its job keeps the accounts and the hands.
LEMMA WorkerAccounts ==
  ASSUME RoomForAll, AtWork, Accounted, NEW w \in Worker,
         \/ MarkRunning(w) \/ EnqueueAutoApply(w) \/ MarkCompleted(w) \/ FailFinal(w)
         \/ FailTransient(w) \/ Retry(w) \/ ReturnToQueue(w) \/ ReleaseLockAndDrain(w)
  PROVE  Accounted'
<1> DEFINE j == held[w]
<1>0. Accounts(mq, {}) /\ Hands
  BY DEF Accounted
<1>1. /\ {"running", "applied", "claimed"} \subseteq Active
      /\ "drain" \notin Active /\ "retry" \notin Active /\ "idle" \notin Active
  BY DEF Active
<1>2. ASSUME stage[w] \in Active PROVE j \in Job /\ HasClaim(mq, j)
  BY <1>0, <1>2 DEF AtWork, Hands, Active, HasClaim
<1>3. ASSUME stage[w] # "idle" PROVE j \in Job
  BY <1>3 DEF AtWork
<1>4. ASSUME NEW s, At(w, s), held' = held, mq'.inFlight = mq.inFlight,
             s \in Active <=> stage[w] \in Active
      PROVE  Hands'
  <2>1. \A v \in Worker : stage'[v] \in Active <=> stage[v] \in Active
    BY <1>4 DEF At, AtWork
  <2> QED BY <1>0, <1>4, <2>1, HandsSame
<1>5. CASE MarkRunning(w)
  <2>1. stage[w] \in Active /\ mq' = Become(mq, j, "running") /\ At(w, "running") /\ held' = held
    BY <1>1, <1>5 DEF MarkRunning
  <2>2. Accounts(mq', {}) /\ mq'.inFlight = mq.inFlight
    BY <1>0, <1>2, <2>1, RunningAccounts
  <2>3. Hands'
    BY <1>1, <1>4, <2>1, <2>2
  <2> QED BY <2>2, <2>3 DEF Accounted
<1>6. CASE EnqueueAutoApply(w)
  <2>1. /\ stage[w] \in Active /\ At(w, "applied") /\ held' = held
        /\ \E i \in Job : mq' = Enqueued(mq, i)
    BY <1>1, <1>6 DEF EnqueueAutoApply
  <2>2. Accounts(mq', {}) /\ mq'.inFlight = mq.inFlight
    BY <1>0, <2>1, EnqueuedAccounts
  <2>3. Hands'
    BY <1>1, <1>4, <2>1, <2>2
  <2> QED BY <2>2, <2>3 DEF Accounted
<1>7. CASE MarkCompleted(w)
  <2>1. /\ stage[w] \in Active /\ At(w, "drain") /\ held' = held
        /\ \E draft \in BOOLEAN : mq' = Completed(mq, j, draft)
    BY <1>1, <1>7 DEF MarkCompleted
  <2>2. PICK draft \in BOOLEAN : mq' = Completed(mq, j, draft)
    BY <2>1
  <2>3. j \in Job /\ HasClaim(mq, j)
    BY <1>2, <2>1
  <2>4. Accounts(mq', {}) /\ mq'.inFlight = [mq.inFlight EXCEPT ![j.pr] = NoJob]
    BY <1>0, <2>2, <2>3, CompletedAccounts, Zenon
  <2>5. Hands'
    BY <1>1, <2>1, <2>4, HandsFree
  <2> QED BY <2>4, <2>5 DEF Accounted
<1>8. CASE FailFinal(w) \/ FailTransient(w)
  <2>1. /\ stage[w] \in Active /\ held' = held /\ (At(w, "drain") \/ At(w, "retry"))
        /\ \E dead \in BOOLEAN : mq' = Failed(mq, j, dead)
    BY <1>1, <1>8 DEF FailFinal, FailTransient
  <2>2. PICK dead \in BOOLEAN : mq' = Failed(mq, j, dead)
    BY <2>1
  <2>3. j \in Job /\ HasClaim(mq, j)
    BY <1>2, <2>1
  <2>4. Accounts(mq', {}) /\ mq'.inFlight = [mq.inFlight EXCEPT ![j.pr] = NoJob]
    BY <1>0, <2>2, <2>3, FailedAccounts, Zenon
  <2>5. Hands'
    BY <1>1, <2>1, <2>4, HandsFree
  <2> QED BY <2>4, <2>5 DEF Accounted
<1>9. CASE Retry(w)
  <2>1. stage[w] = "retry" /\ mq' = Enqueued(mq, Retried(j)) /\ At(w, "drain") /\ held' = held
    BY <1>9 DEF Retry
  <2>2. Retried(j) \in Job
    <3>1. j \in Job /\ MayRetry(j)
      BY <1>3, <2>1 DEF AtWork
    <3> QED BY <3>1, RetryAssumption DEF MayRetry
  <2>3. Accounts(mq', {}) /\ mq'.inFlight = mq.inFlight
    BY <1>0, <2>1, <2>2, EnqueuedAccounts
  <2>4. Hands'
    BY <1>1, <1>4, <2>1, <2>3
  <2> QED BY <2>3, <2>4 DEF Accounted
<1>10. CASE ReturnToQueue(w)
  <2>1. /\ stage[w] \in Active /\ At(w, "drain") /\ held' = held
        /\ \E early \in BOOLEAN : mq' = Returned(mq, j, early)
    BY <1>1, <1>10 DEF ReturnToQueue
  <2>2. PICK early \in BOOLEAN : mq' = Returned(mq, j, early)
    BY <2>1
  <2>3. j \in Job /\ HasClaim(mq, j)
    BY <1>2, <2>1
  <2>4. Accounts(mq', {}) /\ mq'.inFlight = [mq.inFlight EXCEPT ![j.pr] = NoJob]
    BY <1>0, <2>2, <2>3, ReturnedAccounts, Zenon
  <2>5. Hands'
    BY <1>1, <2>1, <2>4, HandsFree
  <2> QED BY <2>4, <2>5 DEF Accounted
<1>11. CASE ReleaseLockAndDrain(w)
  <2>1. /\ stage[w] = "drain" /\ At(w, "idle") /\ mq' = Drained(mq, j.pr)
        /\ held' = [held EXCEPT ![w] = NoJob]
    BY <1>11 DEF ReleaseLockAndDrain
  <2>2. j.pr \in PR
    BY <1>3, <2>1, PayloadTypes
  <2>3. Accounts(mq', {}) /\ mq'.inFlight = mq.inFlight
    BY <1>0, <2>1, <2>2, DrainedAccounts
  <2>4. \A v \in Worker : /\ stage'[v] \in Active <=> stage[v] \in Active
                          /\ stage[v] \in Active => held'[v] = held[v]
    BY <1>1, <2>1 DEF At, AtWork
  <2>5. Hands'
    BY <1>0, <2>3, <2>4, HandsSame
  <2> QED BY <2>3, <2>5 DEF Accounted
<1> QED BY <1>5, <1>6, <1>7, <1>8, <1>9, <1>10, <1>11

\* So does taking a job: its worker has it in hand.
LEMMA DequeueAccounts ==
  ASSUME AtWork, Accounted, NEW w \in Worker, Dequeue(w)
  PROVE  Accounted'
<1> DEFINE d == Dequeued(mq)
<1>0. Accounts(mq, {}) /\ Hands
  BY DEF Accounted
<1>1. d \in Looked2(mq) /\ mq' = d.q /\ stage[w] = "idle"
  BY <1>0, DequeuedAccounts DEF Dequeue
<1>2. \/ d.job = NoJob /\ UNCHANGED <<held, stage>>
      \/ d.job # NoJob /\ d.job # Thrown /\ held' = [held EXCEPT ![w] = d.job] /\ At(w, "claimed")
      \/ d.job = Thrown /\ UNCHANGED <<held, stage>>
  BY DEF Dequeue
<1> HIDE DEF d
<1>3. Accounts(mq', {}) /\ Claiming(mq, d)
  BY <1>1 DEF Looked2
<1>4. CASE d.job = NoJob /\ UNCHANGED <<held, stage>>
  <2>1. mq'.inFlight = mq.inFlight
    BY <1>1, <1>3, <1>4, NoJobAssumption DEF Claiming
  <2>2. Hands'
    BY <1>0, <1>4, <2>1, HandsSame
  <2> QED BY <1>3, <2>2 DEF Accounted
<1>5. CASE d.job # NoJob /\ d.job # Thrown /\ held' = [held EXCEPT ![w] = d.job] /\ At(w, "claimed")
  <2>1. /\ d.job \in Job /\ mq.inFlight[d.job.pr] = NoJob
        /\ mq'.inFlight = [mq.inFlight EXCEPT ![d.job.pr] = d.job]
    BY <1>1, <1>3, <1>5 DEF Claiming
  <2>2. Hands'
    BY <1>0, <1>1, <1>5, <2>1, HandsClaim
  <2> QED BY <1>3, <2>2 DEF Accounted
<1>6. d.job = Thrown => d.job = NoJob
  <2>1. Thrown \notin Job
    <3>1. \A i \in Job : "pr" \in DOMAIN i
      BY PayloadTypes DEF IsPayload
    <3> QED BY <3>1 DEF Thrown
  <2> QED BY <1>1, <2>1 DEF Looked2
<1> QED BY <1>2, <1>4, <1>5, <1>6

\* The accounts and the hands are what JobsAccounted asks, and more.
LEMMA AccountedSays ==
  ASSUME AtWork, Accounted
  PROVE  JobsAccounted
<1>0. /\ Accounts(mq, {}) /\ Hands /\ mq \in Queue /\ NoJob \notin Job
      /\ mq.queue \in Seq(Waiting) /\ mq.pending \in [PR -> Seq(Job)]
  BY Fields, NoJobAssumption DEF Accounted, Accounts
<1>1. ASSUME NEW j \in Job PROVE j.pr \in PR
  BY PayloadTypes
<1>2. ASSUME NEW p \in PR, mq.inFlight[p] # NoJob
      PROVE  \E w \in Worker : held[w] = mq.inFlight[p] /\ stage[w] \in {"claimed", "running", "applied"}
  BY <1>0, <1>2 DEF Hands, Flies, Active
<1>3. ASSUME NEW j \in Job, mq.states[KeyOf(j)] \in {"claimed", "running"} PROVE InHand(j)
  <2>1. mq.inFlight[j.pr] # NoJob /\ KeyOf(mq.inFlight[j.pr]) = KeyOf(j)
    BY <1>0, <1>3 DEF Accounts, ClaimedFlies, Flies
  <2>2. PICK w \in Worker : held[w] = mq.inFlight[j.pr]
    BY <1>1, <1>2, <2>1
  <2> QED BY <2>1, <2>2 DEF InHand
<1>4. ASSUME NEW j \in Job, mq.states[KeyOf(j)] = "ready", Automatic(j) \/ ~j.review
      PROVE  Waits(j) \/ AlreadyDone(mq, j)
  <2>1. KeyOf(j) \in Line(mq) \/ KeyOf(j) \in Parked(mq, j.pr) \/ AlreadyDone(mq, j)
    BY <1>0, <1>4 DEF Accounts, ReadyWaits, Promised
  <2>2. CASE KeyOf(j) \in Line(mq)
    <3>1. PICK i \in DOMAIN mq.queue : KeyOf(j) = entryKey[mq.queue[i]]
      BY <2>2 DEF Line, Keys
    <3>2. mq.queue[i] \in Waiting
      BY <1>0, ElementOfSeq, LenProperties
    <3>3. entryKey[mq.queue[i]] = KeyOf(mq.queue[i].job)
      BY <3>2, Zenon DEF entryKey
    <3> QED BY <3>1, <3>3 DEF Waits
  <2>3. CASE KeyOf(j) \in Parked(mq, j.pr)
    <3>1. PICK i \in DOMAIN mq.pending[j.pr] : KeyOf(j) = jobKey[mq.pending[j.pr][i]]
      BY <2>3 DEF Parked, Keys
    <3>2. mq.pending[j.pr][i] \in Job
      BY <1>0, <1>1, ElementOfSeq, LenProperties
    <3>3. jobKey[mq.pending[j.pr][i]] = KeyOf(mq.pending[j.pr][i])
      BY <3>2, Zenon DEF jobKey
    <3> QED BY <3>1, <3>3 DEF Waits
  <2> QED BY <2>1, <2>2, <2>3
<1> QED BY <1>2, <1>3, <1>4 DEF JobsAccounted, ClaimsHeld

-----------------------------------------------------------------------------
(* The requests and their claims.                                          *)

USE EventAssumption, ScriptAssumption, IntakeBounds

Work == [at : Place, of : Delivery, tok : 1..MaxClaims]
Rows ==
  /\ events \in [Delivery -> Row \cup {None}]
  /\ bodies \in [Body -> Row \cup {None}]
  /\ handler \in [Handler -> Work \cup {Idle}]
  /\ late \in SUBSET Handler /\ ok \in SUBSET Body
  /\ claims \in 0..MaxClaims
  /\ script \in Script

\* Every request under way has a token of its own.
Fresh ==
  /\ \A h \in Handler : Busy(h) => handler[h].tok <= claims
  /\ \A h1, h2 \in Handler : Busy(h1) /\ Busy(h2) /\ handler[h1].tok = handler[h2].tok => h1 = h2

Held(row, tok) == Owns(row, tok) /\ row.old = FALSE
Owning ==
  \A h \in Handler : Busy(h) /\ h \notin late =>
    Held(events[handler[h].of], handler[h].tok) /\ Held(bodies[BodyOfHandler(h)], handler[h].tok)

IsDone(row) == row # None /\ row.is = "processed"
Recorded ==
  /\ \A b \in Body : IsDone(bodies[b]) => b \in ok
  /\ \A d \in Delivery : IsDone(events[d]) => script.carries[d] \in ok

Inv == Rows /\ Fresh /\ Owning /\ Recorded

LEMMA Carries == ASSUME script \in Script, NEW d \in Delivery PROVE script.carries[d] \in Body
BY DEF IsScript

LEMMA BusyIsWork == ASSUME Rows, NEW h \in Handler PROVE Busy(h) <=> handler[h] \in Work
BY DEF Rows, Busy, Work, Idle, Place

LEMMA InitInv == Init => Inv
BY DEF Init, Inv, Rows, Fresh, Owning, Recorded, IsDone, Busy, None

-----------------------------------------------------------------------------
(* A request moves from one place of its handler to the next: rows and     *)
(* claims stay.                                                            *)

LEMMA GoesInv ==
  ASSUME Inv, NEW h \in Handler, Busy(h), NEW where \in Place, Goes(h, where), UNCHANGED claimVars
  PROVE  Inv'
<1>1. /\ handler' = [handler EXCEPT ![h] = [handler[h] EXCEPT !.at = where]]
      /\ UNCHANGED <<events, bodies, script, late, ok, claims>>
  BY DEF Goes, claimVars
<1>2. handler[h] \in Work
  BY BusyIsWork DEF Inv
<1>3. [handler[h] EXCEPT !.at = where] \in Work
  BY <1>2 DEF Work
<1>4. Rows'
  BY <1>1, <1>3 DEF Inv, Rows
<1>5. \A g \in Handler : Busy(g)' <=> Busy(g)
  BY <1>1, <1>2, <1>3, <1>4, BusyIsWork DEF Inv, Rows, Busy, Work, Idle, Place
<1>6. \A g \in Handler : Busy(g) => handler'[g].tok = handler[g].tok /\ handler'[g].of = handler[g].of
  BY <1>1, <1>2 DEF Inv, Rows, Work
<1>7. Fresh'
  BY <1>1, <1>5, <1>6 DEF Inv, Fresh
<1>8. Owning'
  BY <1>1, <1>5, <1>6 DEF Inv, Owning, Held, Owns, BodyOfHandler
<1>9. Recorded'
  BY <1>1 DEF Inv, Recorded, IsDone
<1> QED BY <1>4, <1>7, <1>8, <1>9 DEF Inv

\* Every step of a handler but the first and the last only moves it.
Moves(h) ==
  \/ PullRequestEvent(h) \/ ConfirmClosed(h) \/ RecordClosed(h)
  \/ IssueCommentEvent(h) \/ ReviewCommentEvent(h) \/ CheckboxEvent(h)
  \/ RefuseCommand(h) \/ EnqueueCommandJob(h) \/ SetPrAutoApply(h) \/ IgnoreFinding(h)
  \/ Reply(h)
  \/ InstallationEvent(h) \/ ListRepos(h) \/ RepositoriesEvent(h)

LEMMA MovesGoes ==
  ASSUME NEW h \in Handler, Moves(h)
  PROVE  Busy(h) /\ (\E where \in Place : Goes(h, where)) /\ UNCHANGED claimVars
<1>0. {"confirm", "closed", "stillOpen", "permit", "reply", "list", "done", "failed"} \subseteq Place
  BY DEF Place
<1>1. ASSUME NEW j, Enqueue(h, j) PROVE \E where \in Place : Goes(h, where)
  BY <1>0, <1>1 DEF Enqueue
<1>2. NoEnqueue(h) => \E where \in Place : Goes(h, where)
  BY <1>0 DEF NoEnqueue
<1>3. Looked(h) => \E where \in Place : Goes(h, where)
  BY <1>0 DEF Looked
<1>4. CASE PullRequestEvent(h)
  BY <1>0, <1>1, <1>2, <1>4 DEF PullRequestEvent, Dispatching
<1>5. CASE ConfirmClosed(h)
  BY <1>0, <1>5 DEF ConfirmClosed
<1>6. CASE RecordClosed(h)
  BY <1>2, <1>6 DEF RecordClosed
<1>7. CASE IssueCommentEvent(h) \/ ReviewCommentEvent(h) \/ CheckboxEvent(h)
  BY <1>3, <1>7 DEF IssueCommentEvent, ReviewCommentEvent, CheckboxEvent, Dispatching
<1>8. CASE RefuseCommand(h)
  BY <1>0, <1>8 DEF RefuseCommand, Permitting
<1>9. CASE EnqueueCommandJob(h)
  BY <1>1, <1>9 DEF EnqueueCommandJob, Permitting
<1>10. CASE SetPrAutoApply(h) \/ IgnoreFinding(h)
  BY <1>0, <1>10 DEF SetPrAutoApply, IgnoreFinding, Permitting
<1>11. CASE Reply(h)
  BY <1>0, <1>1, <1>2, <1>11 DEF Reply
<1>12. CASE InstallationEvent(h)
  BY <1>0, <1>12 DEF InstallationEvent, Dispatching
<1>13. CASE ListRepos(h)
  BY <1>2, <1>13 DEF ListRepos
<1>14. CASE RepositoriesEvent(h)
  BY <1>2, <1>14 DEF RepositoriesEvent, Dispatching
<1> QED BY <1>4, <1>5, <1>6, <1>7, <1>8, <1>9, <1>10, <1>11, <1>12, <1>13, <1>14 DEF Moves

-----------------------------------------------------------------------------
(* Claims and settlements.                                                 *)

LEMMA ReceiveInv == ASSUME Inv, NEW h \in Handler, NEW d \in Delivery, Receive(h, d) PROVE Inv'
<1> DEFINE b == script.carries[d]
           tok == claims + 1
<1>1. b \in Body /\ tok \in 1..MaxClaims /\ claims' = tok /\ ~Busy(h)
      /\ UNCHANGED <<script, late, ok>> /\ ClaimableEvent(events[d])
  BY Carries DEF Inv, Rows, Receive
<1>2. Claimed(tok) \in Row /\ Claimed(tok) # None /\ ~IsDone(Claimed(tok))
  BY <1>1 DEF Claimed, Row, None, IsDone
<1>3. ASSUME NEW g \in Handler, Busy(g), g \notin late
      PROVE  handler[g].of # d /\ (ClaimableBody(bodies[b]) => BodyOfHandler(g) # b)
  BY <1>1, <1>3 DEF Inv, Owning, Held, Owns, ClaimableEvent, ClaimableBody
<1>4. CASE ClaimableBody(bodies[b])
  <2>1. /\ events' = [events EXCEPT ![d] = Claimed(tok)]
        /\ bodies' = [bodies EXCEPT ![b] = Claimed(tok)]
        /\ handler' = [handler EXCEPT ![h] = [at |-> "dispatch", of |-> d, tok |-> tok]]
    BY <1>4 DEF Receive
  <2>2. handler'[h] \in Work
    BY <1>1, <2>1 DEF Inv, Rows, Work, Place
  <2>3. Rows'
    BY <1>1, <1>2, <2>1, <2>2 DEF Inv, Rows
  <2>4. \A g \in Handler \ {h} : handler'[g] = handler[g]
    BY <2>1 DEF Inv, Rows
  <2>5. handler'[h].tok = tok /\ handler'[h].of = d
    BY <2>1 DEF Inv, Rows
  <2>6. Fresh'
    <3>1. \A g \in Handler : Busy(g) => handler[g].tok \in Nat /\ handler[g].tok <= claims
      BY BusyIsWork DEF Inv, Fresh, Work
    <3>2. \A g \in Handler \ {h} : Busy(g)' => Busy(g)
      BY <2>4 DEF Busy
    <3>3. claims \in Nat
      BY DEF Inv, Rows
    <3> QED BY <1>1, <2>4, <2>5, <3>1, <3>2, <3>3 DEF Inv, Fresh
  <2>7. Held(Claimed(tok), tok)
    BY <1>2 DEF Held, Owns, Claimed
  <2>8. Owning'
    <3> SUFFICES ASSUME NEW g \in Handler, Busy(g)', g \notin late'
                 PROVE  /\ Held(events'[handler'[g].of], handler'[g].tok)
                        /\ Held(bodies'[script.carries[handler'[g].of]], handler'[g].tok)
      BY <1>1 DEF Owning, BodyOfHandler, Held, Owns
    <3>1. CASE g = h
      BY <1>1, <2>1, <2>5, <2>7, <3>1 DEF Inv, Rows
    <3>2. CASE g # h
      <4>1. Busy(g) /\ g \notin late /\ handler'[g] = handler[g]
        BY <1>1, <2>4, <3>2 DEF Busy
      <4>2. handler[g].of \in Delivery /\ script.carries[handler[g].of] \in Body
        BY <4>1, BusyIsWork, Carries DEF Inv, Rows, Work
      <4>3. handler[g].of # d /\ script.carries[handler[g].of] # b
        BY <1>3, <1>4, <4>1 DEF BodyOfHandler
      <4> QED BY <2>1, <4>1, <4>2, <4>3 DEF Inv, Rows, Owning, BodyOfHandler
    <3> QED BY <3>1, <3>2
  <2>9. Recorded'
    BY <1>1, <1>2, <2>1 DEF Inv, Rows, Recorded, IsDone
  <2> QED BY <2>3, <2>6, <2>8, <2>9 DEF Inv
<1>5. CASE ~ClaimableBody(bodies[b])
  <2>1. events' = [events EXCEPT ![d] = None] /\ UNCHANGED <<bodies, handler>>
    BY <1>5 DEF Receive
  <2>2. Rows'
    BY <1>1, <2>1 DEF Inv, Rows
  <2>3. Fresh'
    <3>1. \A g \in Handler : Busy(g) => handler[g].tok \in Nat
      BY BusyIsWork DEF Inv, Work
    <3>2. claims \in Nat
      BY DEF Inv, Rows
    <3> QED BY <1>1, <2>1, <3>1, <3>2 DEF Inv, Fresh, Busy
  <2>4. Owning'
    <3> SUFFICES ASSUME NEW g \in Handler, Busy(g), g \notin late
                 PROVE  /\ Held(events'[handler[g].of], handler[g].tok)
                        /\ Held(bodies[BodyOfHandler(g)], handler[g].tok)
      BY <1>1, <2>1 DEF Owning, BodyOfHandler, Held, Owns, Busy
    <3>1. handler[g].of \in Delivery /\ handler[g].of # d
      BY <1>3, BusyIsWork DEF Inv, Work
    <3> QED BY <2>1, <3>1 DEF Inv, Rows, Owning
  <2>5. Recorded'
    BY <1>1, <2>1 DEF Inv, Rows, Recorded, IsDone
  <2> QED BY <2>2, <2>3, <2>4, <2>5 DEF Inv
<1> QED BY <1>4, <1>5

\* What a settlement writes; a row of another token stays as it is.
LEMMA SettledRow ==
  ASSUME Rows, NEW h \in Handler, Busy(h), handler[h].at \in {"done", "failed"},
         NEW row \in Row \cup {None}
  PROVE  /\ Settled(row, h) \in Row \cup {None}
         /\ ~Owns(row, handler[h].tok) => Settled(row, h) = row
         /\ IsDone(Settled(row, h)) => IsDone(row) \/ handler[h].at = "done"
<1>1. Processed \in Row
  BY DEF Processed, Row
<1> QED BY <1>1 DEF Settled, Done, Released, IsDone, None

LEMMA OthersNotOwned ==
  ASSUME Inv, NEW h \in Handler, Busy(h), NEW g \in Handler, g # h, Busy(g), NEW row,
         Held(row, handler[g].tok)
  PROVE  ~Owns(row, handler[h].tok)
BY DEF Inv, Fresh, Held, Owns

LEMMA SettleInv == ASSUME Inv, NEW h \in Handler, Settle(h) PROVE Inv'
<1> DEFINE d == handler[h].of
           b == BodyOfHandler(h)
<1>1. /\ Busy(h) /\ handler[h].at \in {"done", "failed"}
      /\ bodies' = [bodies EXCEPT ![b] = Settled(bodies[b], h)]
      /\ events' = [events EXCEPT ![d] = Settled(events[d], h)]
      /\ ok' = IF handler[h].at = "done" THEN ok \cup {b} ELSE ok
      /\ handler' = [handler EXCEPT ![h] = Idle]
      /\ late' = late \ {h}
      /\ UNCHANGED <<script, claims>>
  BY DEF Settle
<1>2. d \in Delivery /\ b \in Body /\ b = script.carries[d]
  BY <1>1, BusyIsWork, Carries DEF Inv, Rows, Work, BodyOfHandler
<1>3. /\ Settled(bodies[b], h) \in Row \cup {None} /\ Settled(events[d], h) \in Row \cup {None}
      /\ IsDone(Settled(bodies[b], h)) => IsDone(bodies[b]) \/ handler[h].at = "done"
      /\ IsDone(Settled(events[d], h)) => IsDone(events[d]) \/ handler[h].at = "done"
  BY <1>1, <1>2, SettledRow DEF Inv, Rows
<1>4. Rows'
  BY <1>1, <1>2, <1>3 DEF Inv, Rows
<1>5. ~Busy(h)' /\ \A g \in Handler \ {h} : handler'[g] = handler[g]
  BY <1>1 DEF Inv, Rows, Busy
<1>6. Fresh'
  BY <1>1, <1>5 DEF Inv, Fresh, Busy
<1>7. Owning'
  <2> SUFFICES ASSUME NEW g \in Handler, Busy(g)', g \notin late'
               PROVE  /\ Held(events'[handler'[g].of], handler'[g].tok)
                      /\ Held(bodies'[script.carries[handler'[g].of]], handler'[g].tok)
    BY <1>1 DEF Owning, BodyOfHandler, Held, Owns
  <2>1. g # h /\ handler'[g] = handler[g] /\ Busy(g) /\ g \notin late
    BY <1>1, <1>5 DEF Busy
  <2>2. handler[g].of \in Delivery /\ script.carries[handler[g].of] \in Body
    BY <2>1, BusyIsWork, Carries DEF Inv, Rows, Work
  <2>3. /\ Held(events[handler[g].of], handler[g].tok)
        /\ Held(bodies[script.carries[handler[g].of]], handler[g].tok)
    BY <2>1 DEF Inv, Owning, BodyOfHandler
  <2>4. /\ ~Owns(events[handler[g].of], handler[h].tok)
        /\ ~Owns(bodies[script.carries[handler[g].of]], handler[h].tok)
    BY <1>1, <2>1, <2>3, OthersNotOwned
  <2>5. events'[handler[g].of] = events[handler[g].of]
    BY <1>1, <1>2, <2>2, <2>4, SettledRow DEF Inv, Rows
  <2>6. bodies'[script.carries[handler[g].of]] = bodies[script.carries[handler[g].of]]
    BY <1>1, <1>2, <2>2, <2>4, SettledRow DEF Inv, Rows
  <2> QED BY <2>1, <2>3, <2>5, <2>6
<1>8. Recorded'
  <2>1. \A x \in Body : IsDone(bodies'[x]) => x \in ok'
    BY <1>1, <1>2, <1>3 DEF Inv, Rows, Recorded
  <2>2. \A x \in Delivery : IsDone(events'[x]) => script.carries[x] \in ok'
    BY <1>1, <1>2, <1>3 DEF Inv, Rows, Recorded
  <2> QED BY <1>1, <2>1, <2>2 DEF Recorded, IsDone
<1> QED BY <1>4, <1>6, <1>7, <1>8 DEF Inv

-----------------------------------------------------------------------------
(* Time, people and crashes.                                               *)

LEMMA OldRow ==
  ASSUME NEW row \in Row
  PROVE  /\ [row EXCEPT !.old = TRUE] \in Row
         /\ IsDone([row EXCEPT !.old = TRUE]) => IsDone(row)
<1>1. [row EXCEPT !.old = TRUE] \in Row /\ [row EXCEPT !.old = TRUE].is = row.is
  BY DEF Row
<1>2. row # None
  BY DEF Row, None
<1> QED BY <1>1, <1>2 DEF IsDone

\* The claims of the requests that a step does not make late stay theirs.
LEMMA SameRequests ==
  ASSUME Inv, Rows', UNCHANGED <<handler, script, claims>>, ok \subseteq ok',
         late \subseteq late',
         \A d \in Delivery :
           /\ IsDone(events'[d]) => IsDone(events[d])
           /\ events'[d] = events[d] \/
              \A h \in Handler : Busy(h) /\ h \notin late' => ~Held(events[d], handler[h].tok),
         \A b \in Body :
           /\ IsDone(bodies'[b]) => IsDone(bodies[b])
           /\ bodies'[b] = bodies[b] \/
              \A h \in Handler : Busy(h) /\ h \notin late' => ~Held(bodies[b], handler[h].tok)
  PROVE  Inv'
<1>1. Fresh'
  BY DEF Inv, Fresh, Busy
<1>2. Owning'
  <2> SUFFICES ASSUME NEW g \in Handler, Busy(g), g \notin late'
               PROVE  /\ Held(events'[handler[g].of], handler[g].tok)
                      /\ Held(bodies'[script.carries[handler[g].of]], handler[g].tok)
    BY DEF Owning, BodyOfHandler, Held, Owns, Busy
  <2>1. handler[g].of \in Delivery /\ script.carries[handler[g].of] \in Body
    BY BusyIsWork, Carries DEF Inv, Rows, Work
  <2>2. g \notin late
    OBVIOUS
  <2>3. /\ Held(events[handler[g].of], handler[g].tok)
        /\ Held(bodies[script.carries[handler[g].of]], handler[g].tok)
    BY <2>2 DEF Inv, Owning, BodyOfHandler
  <2> QED BY <2>1, <2>3
<1>3. Recorded'
  BY DEF Inv, Recorded, IsDone
<1> QED BY <1>1, <1>2, <1>3 DEF Inv

LEMMA StaleHolders ==
  ASSUME Rows, NEW row \in Row \cup {None}, GoesStale(row), NEW h \in Handler, Busy(h), h \notin late'
  PROVE  ~Held(row, handler[h].tok)
BY DEF GoesStale, HolderOf, Held, Owns

LEMMA StaleInv == ASSUME Inv, Stale PROVE Inv'
<1>1. UNCHANGED <<script, handler, ok, claims>>
  BY DEF Stale
<1>2. CASE \E d \in Delivery :
             GoesStale(events[d]) /\ events' = [events EXCEPT ![d].old = TRUE] /\ UNCHANGED bodies
  <2>1. PICK d \in Delivery :
          GoesStale(events[d]) /\ events' = [events EXCEPT ![d].old = TRUE] /\ UNCHANGED bodies
    BY <1>2
  <2>2. events[d] \in Row /\ late \subseteq late' /\ late' \in SUBSET Handler
    BY <2>1 DEF GoesStale, HolderOf, Inv, Rows, None, Row
  <2>3. [events[d] EXCEPT !.old = TRUE] \in Row
        /\ (IsDone([events[d] EXCEPT !.old = TRUE]) => IsDone(events[d]))
    BY <2>2, OldRow
  <2>4. Rows'
    BY <1>1, <2>1, <2>2, <2>3 DEF Inv, Rows
  <2>5. \A h \in Handler : Busy(h) /\ h \notin late' => ~Held(events[d], handler[h].tok)
    BY <2>1, <2>2, StaleHolders DEF Inv
  <2>6. \A e \in Delivery : e # d => events'[e] = events[e]
    BY <2>1 DEF Inv, Rows
  <2>7. events'[d] = [events[d] EXCEPT !.old = TRUE]
    BY <2>1 DEF Inv, Rows
  <2>8. \A e \in Delivery : IsDone(events'[e]) => IsDone(events[e])
    BY <2>3, <2>6, <2>7
  <2>9. ok \subseteq ok' /\ bodies' = bodies
    BY <1>1, <2>1
  <2> QED BY <1>1, <2>2, <2>4, <2>5, <2>6, <2>8, <2>9, SameRequests
<1>3. CASE \E b \in Body :
             GoesStale(bodies[b]) /\ bodies' = [bodies EXCEPT ![b].old = TRUE] /\ UNCHANGED events
  <2>1. PICK b \in Body :
          GoesStale(bodies[b]) /\ bodies' = [bodies EXCEPT ![b].old = TRUE] /\ UNCHANGED events
    BY <1>3
  <2>2. bodies[b] \in Row /\ late \subseteq late' /\ late' \in SUBSET Handler
    BY <2>1 DEF GoesStale, HolderOf, Inv, Rows, None, Row
  <2>3. [bodies[b] EXCEPT !.old = TRUE] \in Row
        /\ (IsDone([bodies[b] EXCEPT !.old = TRUE]) => IsDone(bodies[b]))
    BY <2>2, OldRow
  <2>4. Rows'
    BY <1>1, <2>1, <2>2, <2>3 DEF Inv, Rows
  <2>5. \A h \in Handler : Busy(h) /\ h \notin late' => ~Held(bodies[b], handler[h].tok)
    BY <2>1, <2>2, StaleHolders DEF Inv
  <2>6. \A e \in Body : e # b => bodies'[e] = bodies[e]
    BY <2>1 DEF Inv, Rows
  <2>7. bodies'[b] = [bodies[b] EXCEPT !.old = TRUE]
    BY <2>1 DEF Inv, Rows
  <2>8. \A e \in Body : IsDone(bodies'[e]) => IsDone(bodies[e])
    BY <2>3, <2>6, <2>7
  <2>9. ok \subseteq ok' /\ events' = events
    BY <1>1, <2>1
  <2> QED BY <1>1, <2>2, <2>4, <2>5, <2>6, <2>8, <2>9, SameRequests
<1> QED BY <1>2, <1>3 DEF Stale

LEMMA FreeForPruning ==
  ASSUME NEW row, row = Processed \/ Prunable(row), NEW tok
  PROVE  ~Held(row, tok)
BY DEF Prunable, Processed, Held, Owns

LEMMA ForgetInv == ASSUME Inv, Forget PROVE Inv'
<1>1. UNCHANGED <<script, handler, late, ok, claims>> /\ ok \subseteq ok' /\ late \subseteq late'
  BY DEF Forget
<1>2. ~IsDone(None)
  BY DEF IsDone
<1>3. CASE \E b \in Body : bodies[b] = Processed /\ bodies' = [bodies EXCEPT ![b].old = TRUE]
                          /\ UNCHANGED events
  <2>1. PICK b \in Body : bodies[b] = Processed /\ bodies' = [bodies EXCEPT ![b].old = TRUE]
                          /\ UNCHANGED events
    BY <1>3
  <2>2. Processed \in Row /\ IsDone(Processed)
    BY DEF Processed, Row, IsDone, None
  <2>3. [bodies[b] EXCEPT !.old = TRUE] \in Row
    BY <2>1, <2>2, OldRow
  <2>4. Rows'
    BY <1>1, <2>1, <2>3 DEF Inv, Rows
  <2>5. \A e \in Body : e # b => bodies'[e] = bodies[e]
    BY <2>1 DEF Inv, Rows
  <2> QED BY <1>1, <2>1, <2>2, <2>4, <2>5, FreeForPruning, SameRequests
<1>4. CASE \E b \in Body : Prunable(bodies[b]) /\ bodies' = [bodies EXCEPT ![b] = None] /\ UNCHANGED events
  <2>1. PICK b \in Body : Prunable(bodies[b]) /\ bodies' = [bodies EXCEPT ![b] = None] /\ UNCHANGED events
    BY <1>4
  <2>2. Rows'
    BY <1>1, <2>1 DEF Inv, Rows
  <2>3. \A e \in Body : bodies'[e] = IF e = b THEN None ELSE bodies[e]
    BY <2>1 DEF Inv, Rows
  <2> QED BY <1>1, <1>2, <2>1, <2>2, <2>3, FreeForPruning, SameRequests
<1>5. CASE \E d \in Delivery : Prunable(events[d]) /\ events' = [events EXCEPT ![d] = None] /\ UNCHANGED bodies
  <2>1. PICK d \in Delivery : Prunable(events[d]) /\ events' = [events EXCEPT ![d] = None] /\ UNCHANGED bodies
    BY <1>5
  <2>2. Rows'
    BY <1>1, <2>1 DEF Inv, Rows
  <2>3. \A e \in Delivery : events'[e] = IF e = d THEN None ELSE events[e]
    BY <2>1 DEF Inv, Rows
  <2> QED BY <1>1, <1>2, <2>1, <2>2, <2>3, FreeForPruning, SameRequests
<1> QED BY <1>3, <1>4, <1>5 DEF Forget

LEMMA CrashInv == ASSUME Inv, Crash PROVE Inv'
<1>1. UNCHANGED script /\ handler' = [h \in Handler |-> Idle] /\ late' = {}
  BY DEF Crash
<1>2. \A h \in Handler : ~Busy(h)'
  BY <1>1 DEF Busy
<1>3. Fresh' /\ Owning'
  BY <1>2 DEF Fresh, Owning
<1>4. CASE UNCHANGED <<events, bodies, ok, claims>>
  BY <1>1, <1>3, <1>4 DEF Inv, Rows, Recorded, IsDone
<1>5. CASE \E d \in Delivery :
             /\ claims < MaxClaims /\ claims' = claims + 1
             /\ ClaimableEvent(events[d])
             /\ events' = [events EXCEPT ![d] = Claimed(claims')]
             /\ UNCHANGED <<bodies, ok>>
  <2>1. PICK d \in Delivery : /\ claims < MaxClaims /\ claims' = claims + 1
                             /\ events' = [events EXCEPT ![d] = Claimed(claims')]
                             /\ UNCHANGED <<bodies, ok>>
    BY <1>5
  <2>2. claims' \in 0..MaxClaims
    BY <2>1 DEF Inv, Rows
  <2>3. Claimed(claims') \in Row /\ ~IsDone(Claimed(claims'))
    BY <2>2 DEF Claimed, Row, IsDone
  <2>4. Rows'
    BY <1>1, <2>1, <2>2, <2>3 DEF Inv, Rows
  <2>5. Recorded'
    BY <1>1, <2>1, <2>3 DEF Inv, Rows, Recorded, IsDone
  <2> QED BY <1>3, <2>4, <2>5 DEF Inv
<1>6. CASE \E h \in Handler :
             /\ Busy(h) /\ handler[h].at \in {"done", "failed"}
             /\ bodies' = [bodies EXCEPT ![BodyOfHandler(h)] = Settled(@, h)]
             /\ ok' = IF handler[h].at = "done" THEN ok \cup {BodyOfHandler(h)} ELSE ok
             /\ UNCHANGED <<events, claims>>
  <2>1. PICK h \in Handler :
             /\ Busy(h) /\ handler[h].at \in {"done", "failed"}
             /\ bodies' = [bodies EXCEPT ![BodyOfHandler(h)] = Settled(bodies[BodyOfHandler(h)], h)]
             /\ ok' = IF handler[h].at = "done" THEN ok \cup {BodyOfHandler(h)} ELSE ok
             /\ UNCHANGED <<events, claims>>
    BY <1>6
  <2>2. BodyOfHandler(h) \in Body
    BY <2>1, BusyIsWork, Carries DEF Inv, Rows, Work, BodyOfHandler
  <2>3. /\ Settled(bodies[BodyOfHandler(h)], h) \in Row \cup {None}
        /\ IsDone(Settled(bodies[BodyOfHandler(h)], h))
             => IsDone(bodies[BodyOfHandler(h)]) \/ handler[h].at = "done"
    BY <2>1, <2>2, SettledRow DEF Inv, Rows
  <2>4. Rows'
    BY <1>1, <2>1, <2>2, <2>3 DEF Inv, Rows
  <2>5. \A x \in Body : IsDone(bodies'[x]) => x \in ok'
    BY <2>1, <2>2, <2>3 DEF Inv, Rows, Recorded
  <2>6. Recorded'
    BY <1>1, <2>1, <2>5 DEF Inv, Recorded, IsDone
  <2> QED BY <1>3, <2>4, <2>6 DEF Inv
<1> QED BY <1>4, <1>5, <1>6 DEF Crash

LEMMA QuietInv ==
  ASSUME Inv, UNCHANGED <<events, bodies, script, handler, late, ok, claims>>
  PROVE  Inv'
BY DEF Inv, Rows, Fresh, Owning, Recorded, Busy, Held, Owns, BodyOfHandler, IsDone

LEMMA NextInv == ASSUME Inv, [Next]_vars PROVE Inv'
<1>1. CASE HandlerNext
  <2>1. PICK h \in Handler : \/ \E d \in Delivery : Receive(h, d)
                            \/ Moves(h) \/ Settle(h)
    BY <1>1 DEF HandlerNext, Moves
  <2>2. CASE Moves(h)
    BY <2>2, MovesGoes, GoesInv
  <2> QED BY <2>1, <2>2, ReceiveInv, SettleInv
<1>2. CASE QueueNext /\ UNCHANGED intakeVars
  BY <1>2, QuietInv DEF intakeVars
<1>3. CASE Edit
  BY <1>3, QuietInv DEF Edit
<1>4. CASE UNCHANGED vars
  BY <1>4, QuietInv DEF vars, intakeVars
<1> QED BY <1>1, <1>2, <1>3, <1>4, StaleInv, ForgetInv, CrashInv DEF Next

LEMMA InvHolds == Spec => []Inv
BY InitInv, NextInv, PTL DEF Spec

-----------------------------------------------------------------------------

\* A request that did not outlive the stale window owns both of its rows until
\* it settles, whatever twins, replays, prunings and crashes there are.
THEOREM ClaimsOwned == Spec => []OwnsUnlessLate
<1>1. Inv => OwnsUnlessLate
  BY DEF Inv, Owning, Held, OwnsUnlessLate
<1> QED BY <1>1, InvHolds, PTL

\* What is recorded as processed was handled to its end.
THEOREM RecordedWasHandled == Spec => []ProcessedWasHandled
<1>1. Inv => ProcessedWasHandled
  BY DEF Inv, Recorded, IsDone, ProcessedWasHandled
<1> QED BY <1>1, InvHolds, PTL

\* Two requests handle one delivery, or one payload, at the same time only if
\* one of them outlived the stale window.
THEOREM HandledOnce ==
  Spec => []\A g, h \in Handler :
             Busy(g) /\ Busy(h) /\ g \notin late /\ h \notin late
               /\ BodyOfHandler(g) = BodyOfHandler(h) => g = h
<1>1. ASSUME Inv, NEW g \in Handler, NEW h \in Handler, Busy(g), Busy(h), g \notin late, h \notin late,
             BodyOfHandler(g) = BodyOfHandler(h)
      PROVE  g = h
  BY <1>1 DEF Inv, Owning, Held, Owns, Fresh
<1>2. Inv => \A g, h \in Handler :
               Busy(g) /\ Busy(h) /\ g \notin late /\ h \notin late
                 /\ BodyOfHandler(g) = BodyOfHandler(h) => g = h
  BY <1>1
<1> QED BY <1>2, InvHolds, PTL

-----------------------------------------------------------------------------
(* What the whole specification does to the queue.                         *)

\* A request leaves the queue alone or enqueues a job.
Enqueues == \E j \in Job : mq' = Enqueued(mq, j)

\* A step of a request leaves the workers alone and enqueues at most one job.
LEMMA HandlerEnqueues ==
  ASSUME Inv, HandlerNext
  PROVE  UNCHANGED <<held, stage>> /\ (mq' = mq \/ Enqueues)
<1>0. PICK h \in Handler : (\E d \in Delivery : Receive(h, d)) \/ Moves(h) \/ Settle(h)
  BY DEF HandlerNext, Moves
<1>1. NoEnqueue(h) => UNCHANGED queueVars
  BY DEF NoEnqueue
<1>2. ASSUME NEW j \in Job, Enqueue(h, j)
      PROVE  UNCHANGED <<held, stage>> /\ Enqueues
  BY <1>2 DEF Enqueue, Enqueues
<1>3. ASSUME Busy(h), EventOfHandler(h).action \in ReviewActions \cup {"enqueue", "auto_apply"}
      PROVE  EventOfHandler(h).job \in Job
  <2>1. handler[h] \in Work /\ script \in Script
    BY <1>3, BusyIsWork DEF Inv, Rows
  <2>2. BodyOfHandler(h) \in Body
    BY <2>1, Carries DEF BodyOfHandler, Work
  <2>3. EventOfHandler(h) \in Event
    BY <2>1, <2>2, ScriptAssumption DEF EventOfHandler, IsScript
  <2> QED BY <1>3, <2>3, EventAssumption DEF IsEvent
<1>4. CASE PullRequestEvent(h)
  <2>1. /\ Busy(h)
        /\ \/ UNCHANGED queueVars \/ NoEnqueue(h)
           \/ EventOfHandler(h).action \in ReviewActions /\ Enqueue(h, EventOfHandler(h).job)
    BY <1>4 DEF PullRequestEvent, Dispatching
  <2> QED BY <1>1, <1>2, <1>3, <2>1 DEF queueVars
<1>5. CASE EnqueueCommandJob(h)
  <2>1. Busy(h) /\ EventOfHandler(h).action = "enqueue" /\ Enqueue(h, EventOfHandler(h).job)
    BY <1>5 DEF EnqueueCommandJob, Permitting
  <2> QED BY <1>2, <1>3, <2>1
<1>6. CASE Reply(h)
  <2>1. /\ Busy(h)
        /\ \/ UNCHANGED queueVars \/ NoEnqueue(h)
           \/ EventOfHandler(h).action = "auto_apply" /\ Enqueue(h, EventOfHandler(h).job)
    BY <1>6 DEF Reply
  <2> QED BY <1>1, <1>2, <1>3, <2>1 DEF queueVars
<1>7. CASE \/ RecordClosed(h) \/ ListRepos(h) \/ RepositoriesEvent(h)
  <2>1. NoEnqueue(h)
    BY <1>7 DEF RecordClosed, ListRepos, RepositoriesEvent
  <2> QED BY <1>1, <2>1 DEF queueVars
<1>8. CASE \/ ConfirmClosed(h) \/ IssueCommentEvent(h) \/ ReviewCommentEvent(h) \/ CheckboxEvent(h)
           \/ RefuseCommand(h) \/ SetPrAutoApply(h) \/ IgnoreFinding(h) \/ InstallationEvent(h)
  BY <1>8 DEF ConfirmClosed, IssueCommentEvent, ReviewCommentEvent, CheckboxEvent, RefuseCommand,
     SetPrAutoApply, IgnoreFinding, InstallationEvent, queueVars
<1>9. CASE (\E d \in Delivery : Receive(h, d)) \/ Settle(h)
  BY <1>9 DEF Receive, Settle, queueVars
<1> QED BY <1>0, <1>4, <1>5, <1>6, <1>7, <1>8, <1>9 DEF Moves

\* So does everything that happens outside the queue, except a crash.
LEMMA OutsideSteps ==
  ASSUME Inv, [Next]_vars
  PROVE  \/ UNCHANGED <<held, stage>> /\ (mq' = mq \/ Enqueues)
         \/ /\ mq' = EmptyQueue /\ held' = [w \in Worker |-> NoJob]
            /\ stage' = [w \in Worker |-> "idle"]
         \/ QueueNext
<1>1. CASE HandlerNext
  BY <1>1, HandlerEnqueues
<1>2. CASE Stale \/ Forget \/ Edit
  BY <1>2 DEF Stale, Forget, Edit, queueVars
<1>3. CASE Crash
  BY <1>3 DEF Crash
<1>4. CASE UNCHANGED vars
  BY <1>4 DEF vars, queueVars
<1> QED BY <1>1, <1>2, <1>3, <1>4 DEF Next

\* A step of the whole specification lets no command go, but a crash.
LEMMA AtWorkNext ==
  ASSUME Inv, AtWork, [Next]_vars
  PROVE  AtWork' /\ (mq' # EmptyQueue => Lets(mq, mq'))
<1>1. mq \in Queue
  BY DEF AtWork
<1>2. CASE UNCHANGED <<held, stage>> /\ (mq' = mq \/ Enqueues)
  <2>1. mq' \in Queue /\ KeepsBehind(mq, mq')
    BY <1>1, <1>2, EnqueuedKeeps DEF Enqueues, KeepsBehind
  <2> QED BY <1>1, <1>2, <2>1, SameBehind DEF AtWork
<1>3. CASE /\ mq' = EmptyQueue /\ held' = [w \in Worker |-> NoJob]
           /\ stage' = [w \in Worker |-> "idle"]
  <2>1. mq' \in Queue
    BY <1>3, EmptyIsQueue
  <2>2. "idle" \in Stages /\ "retry" # "idle"
    BY DEF Stages
  <2> QED BY <1>3, <2>1, <2>2 DEF AtWork
<1> QED BY <1>2, <1>3, OutsideSteps, QueueSteps

\* The shape of the queue and its workers, in every reachable state.
LEMMA AtWorkHolds == Spec => []AtWork
BY AtWorkInit, AtWorkNext, InvHolds, PTL DEF Spec

\* A command that waits behind the claim of its pull request keeps its place,
\* whatever reviews arrive, until it is moved into the line; only a crash
\* takes it away.
THEOREM CommandsWait == Spec => CommandsKeptBehind
<1> DEFINE Kept == mq' # EmptyQueue => \A p \in PR : \A j \in Behind(p) :
                     \/ j \in Behind(p)'
                     \/ \E i \in DOMAIN mq.queue' : mq.queue'[i].job = j
<1>1. ASSUME Inv, AtWork, [Next]_vars PROVE [Kept]_vars
  <2>1. AtWork' /\ (mq' # EmptyQueue => Lets(mq, mq'))
    BY <1>1, AtWorkNext
  <2>2. \A p \in PR : Behind(p) = Commands(mq.pending[p])
    BY DEF Behind, Commands, ToSet
  <2>3. \A p \in PR : Behind(p)' = Commands(mq'.pending[p])
    BY DEF Behind, Commands, ToSet
  <2> QED BY <2>1, <2>2, <2>3 DEF Lets
<1>2. [][Kept]_vars => CommandsKeptBehind
  BY PTL DEF CommandsKeptBehind
<1> QED BY <1>1, <1>2, InvHolds, AtWorkHolds, PTL DEF Spec

\* A step of the whole specification keeps the accounts and the hands.
LEMMA AccountedNext ==
  ASSUME RoomForAll, Inv, AtWork, Accounted, [Next]_vars
  PROVE  Accounted'
<1>0. Accounts(mq, {}) /\ Hands
  BY DEF Accounted
<1>1. CASE UNCHANGED <<held, stage>> /\ (mq' = mq \/ Enqueues)
  <2>1. Accounts(mq', {}) /\ mq'.inFlight = mq.inFlight
    BY <1>0, <1>1, EnqueuedAccounts DEF Enqueues
  <2>2. Hands'
    BY <1>0, <1>1, <2>1, HandsSame
  <2> QED BY <2>1, <2>2 DEF Accounted
<1>2. CASE mq' = EmptyQueue /\ stage' = [w \in Worker |-> "idle"]
  BY <1>2, EmptyAccounts DEF Accounted, Hands, Flies, Active
<1>3. CASE BecomesDue
  <2>1. PICK i \in DOMAIN mq.queue : mq' = [mq EXCEPT !.queue[i].early = FALSE]
    BY <1>3 DEF BecomesDue
  <2>2. Accounts(mq', {}) /\ mq'.inFlight = mq.inFlight
    BY <1>0, <2>1, DueAccounts
  <2>3. Hands'
    BY <1>0, <1>3, <2>2, HandsSame DEF BecomesDue
  <2> QED BY <2>2, <2>3 DEF Accounted
<1>4. CASE ReplayDeadLetter
  <2>1. PICK i \in DOMAIN mq.deadLetters :
          ~Contains(mq.seen, KeyOf(mq.deadLetters[i])) /\ mq' = Replayed(mq, i)
    BY <1>4 DEF ReplayDeadLetter
  <2>2. Accounts(mq', {}) /\ mq'.inFlight = mq.inFlight
    BY <1>0, <2>1, ReplayedAccounts
  <2>3. Hands'
    BY <1>0, <1>4, <2>2, HandsSame DEF ReplayDeadLetter
  <2> QED BY <2>2, <2>3 DEF Accounted
<1>5. CASE \E w \in Worker :
             \/ Dequeue(w) \/ MarkRunning(w) \/ EnqueueAutoApply(w) \/ MarkCompleted(w) \/ FailFinal(w)
             \/ FailTransient(w) \/ Retry(w) \/ ReturnToQueue(w) \/ ReleaseLockAndDrain(w)
  BY <1>5, WorkerAccounts, DequeueAccounts
<1> QED BY <1>1, <1>2, <1>3, <1>4, <1>5, OutsideSteps DEF QueueNext

\* No job is lost or left behind: what is ready waits or was done under
\* another key, what is claimed or running is in the hands of a worker, and
\* every pull request that is taken has one.  The key sets must have room for
\* every key: one that is trimmed is enqueued again while its job waits.
THEOREM NothingLost ==
  ASSUME RoomForAll
  PROVE  Spec => []JobsAccounted
<1>1. Init => Accounted
  BY AccountedEmpty DEF Init, QueueInit
<1>2. Inv /\ AtWork /\ Accounted /\ [Next]_vars => Accounted'
  BY AccountedNext
<1>3. AtWork /\ Accounted => JobsAccounted
  BY AccountedSays
<1> QED BY <1>1, <1>2, <1>3, InvHolds, AtWorkHolds, PTL DEF Spec

=============================================================================
