-------------------------------- MODULE PrLock --------------------------------
(***************************************************************************)
(* What the review queue promises about pull requests: a worker draws a    *)
(* token, acquires the lease of a pull request that is free, and releases  *)
(* it; a lease may run out under its holder, which is then lost.  Nobody   *)
(* takes a lease from a holder that is not lost.  RedisQueue implements    *)
(* this specification.                                                     *)
(***************************************************************************)
CONSTANTS Slot, Token, NoToken, PR

VARIABLES
  claim,  \* per slot: None, or its pull request, token and how far it is
  lease,  \* per pull request: the token of its holder
  lost    \* slots whose lease ran out while they held it

vars == <<claim, lease, lost>>

None == [at |-> "none"]
Claim == [at : {"waiting", "held"}, pr : PR, tok : Token]

TypeOK ==
  /\ claim \in [Slot -> Claim \cup {None}]
  /\ lease \in [PR -> Token \cup {NoToken}]
  /\ lost \in SUBSET Slot

Init ==
  /\ claim = [s \in Slot |-> None]
  /\ lease = [p \in PR |-> NoToken]
  /\ lost = {}

Held(s) == claim[s].at = "held"
Holds(s) == Held(s) /\ lease[claim[s].pr] = claim[s].tok

Unused(k) ==
  /\ \A s \in Slot : claim[s] # None => claim[s].tok # k
  /\ \A p \in PR : lease[p] # k

Draw(s) ==
  /\ claim[s] = None
  /\ \E p \in PR, k \in Token :
       /\ Unused(k)
       /\ claim' = [claim EXCEPT ![s] = [at |-> "waiting", pr |-> p, tok |-> k]]
  /\ UNCHANGED <<lease, lost>>

Acquire(s) ==
  /\ claim[s].at = "waiting"
  /\ lease[claim[s].pr] = NoToken
  /\ claim' = [claim EXCEPT ![s].at = "held"]
  /\ lease' = [lease EXCEPT ![claim[s].pr] = claim[s].tok]
  /\ UNCHANGED lost

Release(s) ==
  /\ Holds(s)
  /\ claim' = [claim EXCEPT ![s] = None]
  /\ lease' = [lease EXCEPT ![claim[s].pr] = NoToken]
  /\ lost' = lost \ {s}

\* A worker gives up or dies: its lease, if it has one, stays.
Abandon(s) ==
  /\ claim[s] # None
  /\ claim' = [claim EXCEPT ![s] = None]
  /\ lost' = lost \ {s}
  /\ UNCHANGED lease

Expire(p) ==
  /\ lease[p] # NoToken
  /\ lease' = [lease EXCEPT ![p] = NoToken]
  /\ lost' = lost \cup {s \in Slot : Holds(s) /\ claim[s].tok = lease[p]}
  /\ UNCHANGED claim

Next ==
  \/ \E s \in Slot : Draw(s) \/ Acquire(s) \/ Release(s) \/ Abandon(s)
  \/ \E p \in PR : Expire(p)

Spec == Init /\ [][Next]_vars

-----------------------------------------------------------------------------
\* Slots that are not lost hold the lease of their pull request ...
HolderKeepsLease == \A s \in Slot : Held(s) /\ s \notin lost => Holds(s)

\* ... under tokens of their own, ...
OwnTokens ==
  \A s, r \in Slot :
    s # r /\ claim[s] # None /\ claim[r] # None => claim[s].tok # claim[r].tok

\* ... so that of two slots on one pull request one is lost.
Exclusion ==
  \A s, r \in Slot :
    s # r /\ Held(s) /\ Held(r) /\ claim[s].pr = claim[r].pr => s \in lost \/ r \in lost

=============================================================================
