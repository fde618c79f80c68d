---------------------------- MODULE MCRedisQueue ----------------------------
(***************************************************************************)
(* Payloads for the small instances of RedisQueue.                         *)
(***************************************************************************)
EXTENDS RedisQueue

Payload(pr, sha, variant, review, tenant, unlimited, priority) ==
  [pr |-> pr, sha |-> sha, variant |-> variant, review |-> review, tenant |-> tenant,
   unlimited |-> unlimited, priority |-> priority, attempts |-> 0]

\* One pull request: a draft opened and marked ready, a push, a fix command.
Opened1 == Payload("p1", "sha1", "bare", TRUE, "acme", FALSE, 0)
Ready1 == Payload("p1", "sha1", "ready", TRUE, "acme", FALSE, 0)
Opened2 == Payload("p1", "sha2", "bare", TRUE, "acme", FALSE, 0)
Fix1 == Payload("p1", "sha1", "fix", FALSE, "acme", FALSE, 0)

\* Further pull requests of the same tenant; one account is unlimited.
OtherPr == Payload("p2", "sha3", "bare", TRUE, "acme", FALSE, 1)
Unlimited == Payload("p3", "sha4", "bare", TRUE, "acme", TRUE, 0)

WithRetries(jobs) == {[j EXCEPT !.attempts = n] : j \in jobs, n \in 0..MaxJobRetries}

ReadyJobs == WithRetries({Opened1, Ready1})
PushJobs == WithRetries({Opened1, Opened2, Fix1})
TenantJobs == WithRetries({Opened1, OtherPr, Unlimited})
PairJobs == WithRetries({Opened1, Fix1})
\* A push and a command of one pull request, and a push to another.
FleetJobs == WithRetries({Opened1, [Fix1 EXCEPT !.unlimited = TRUE], OtherPr})

Symmetry == Permutations(Slot) \cup Permutations(Token)

=============================================================================
