-------------------------- MODULE MCWebhookIntake --------------------------
(***************************************************************************)
(* Payloads and events for the small instances of WebhookIntake: one pull  *)
(* request with two pushes, a command review and a fix.                    *)
(***************************************************************************)
EXTENDS WebhookIntake

Payload(sha, variant, review) ==
  [pr |-> "p1", sha |-> sha, variant |-> variant, review |-> review, tenant |-> "acme",
   unlimited |-> FALSE, priority |-> 0, attempts |-> 0]
Opened1 == Payload("sha1", "bare", TRUE)
Pushed2 == Payload("sha2", "bare", TRUE)
Reopened2 == Payload("sha2", "reopened", TRUE)
Pushed3 == Payload("sha3", "bare", TRUE)
ReviewCmd == Payload("sha2", "review1", TRUE)
FixCmd == Payload("sha2", "fix1", FALSE)
IntakeJobs == {[j EXCEPT !.attempts = n] :
  j \in {Opened1, Pushed2, Pushed3, Reopened2, ReviewCmd, FixCmd}, n \in 0..MaxJobRetries}

Ev(type, action, job) == [type |-> type, action |-> action, job |-> job]
Open1 == Ev("pull_request", "opened", Opened1)
Push2 == Ev("pull_request", "synchronize", Pushed2)
Push3 == Ev("pull_request", "synchronize", Pushed3)
Reopen2 == Ev("pull_request", "reopened", Reopened2)
Close == Ev("pull_request", "closed", NoJob)
Apply == Ev("issue_comment", "auto_apply", FixCmd)
Ignore == Ev("review_comment", "ignore", NoJob)
AskReview == Ev("issue_comment", "enqueue", ReviewCmd)
Tick == Ev("checkbox", "enqueue", FixCmd)
Install(action) == Ev("installation", action, NoJob)
Repos(action) == Ev("repositories", action, NoJob)

Three(e1, e2, e3) == [b \in {"b1", "b2", "b3"} |-> CASE b = "b1" -> e1 [] b = "b2" -> e2 [] b = "b3" -> e3]
Each == [d \in {"d1", "d2", "d3"} |-> CASE d = "d1" -> "b1" [] d = "d2" -> "b2" [] d = "d3" -> "b3"]
\* Two deliveries of one payload.
Twins == [Each EXCEPT !["d2"] = "b1", !["d3"] = "b2"]
AllEvents == {
  Open1, Push2, Push3, Reopen2, Close, Apply, Ignore, AskReview, Tick, Install("created"),
  Install("deleted"), Repos("removed"), Repos("added")}
Play(says, carries, is, calm) == [says |-> says, carries |-> carries, inst |-> is, calm |-> calm]
Scripts == {
  Play(Three(Open1, Push2, Apply), Each, "active", MaxFaults),
  Play(Three(AskReview, Reopen2, Reopen2), Twins, "active", MaxFaults),
  Play(Three(Push2, Close, Close), Twins, "active", 0),
  Play(Three(Ignore, Tick, Tick), Twins, "active", 0),
  Play(Three(Install("deleted"), Install("created"), Install("created")), Twins, "active", 0),
  Play(Three(Repos("removed"), Repos("added"), Push2), Each, "unknown", 0)}
\* A branch that is pushed twice and then put back to the first push.
With(f, x, v) == [y \in DOMAIN f \cup {x} |-> IF y = x THEN v ELSE f[y]]
BackAgain == {Play(With(Three(Open1, Push2, Push3), "b4", Push2),
                   With(Each, "d4", "b4"), "active", MaxFaults)}
Symmetry == Permutations(Handler)

=============================================================================
