---------------------------- MODULE WebhookIntake ----------------------------
(***************************************************************************)
(* GitHub's deliveries on their way into the queue: the two idempotency    *)
(* claims of a delivery (packages/store/src/repositories/maintenance.ts,   *)
(* webhook-delivery-service.ts), the handlers of its events                *)
(* (apps/server/src/application/github) and what they change, together     *)
(* with the in-memory queue of the same process.  One action runs from one *)
(* await to the next; a crash may fall between two database statements.    *)
(***************************************************************************)
EXTENDS MemoryQueue

CONSTANTS
  Handler,        \* requests served at a time
  Delivery, Body, \* X-GitHub-Delivery ids and hashes of event and payload
  Event,          \* what a payload can say
  Script,         \* the instances: what GitHub delivers, to which installation
  AutoEnable,     \* autoEnableNewRepos of the workspace
  MaxClaims,      \* bound: claims of deliveries
  MaxFaults       \* bound: slow requests, replay windows that pass, crashes
                  \* and changes made in the dashboard, together

(* An event: pull_request with its action and the job it would enqueue, a  *)
(* comment or a ticked checkbox with its command, installation,            *)
(* installation_repositories.  The push of the bot itself has an action    *)
(* outside ReviewActions.  An event that may enqueue has a job.            *)
CommentType == {"issue_comment", "review_comment", "checkbox"}
EventType == {"pull_request", "installation", "repositories"} \cup CommentType
ReviewActions == {"opened", "synchronize", "reopened", "ready_for_review"}
IsEvent(e) ==
  /\ DOMAIN e = {"type", "action", "job"}
  /\ e.type \in EventType /\ e.job \in Job \cup {NoJob}
  /\ e.action \in ReviewActions \cup {"enqueue", "auto_apply"} => e.job \in Job

\* A script: the event of each payload, the payload each delivery id carries,
\* whether a workspace is bound to the installation already, and how many of
\* the MaxFaults do not happen.
IsScript(s) ==
  /\ DOMAIN s = {"says", "carries", "inst", "calm"}
  /\ s.calm \in 0..MaxFaults
  /\ s.says \in [Body -> Event] /\ s.carries \in [Delivery -> Body]
  /\ s.inst \in {"unknown", "active"}

ASSUME EventAssumption == \A e \in Event : IsEvent(e)
ASSUME ScriptAssumption == (\A s \in Script : IsScript(s)) /\ AutoEnable \in BOOLEAN
ASSUME IntakeBounds == {MaxClaims, MaxFaults} \subseteq Nat

VARIABLES
  events,   \* webhook_events rows of provider github
  bodies,   \* webhook_events rows of provider github-body
  script,   \* what GitHub delivers
  handler,  \* per request: what it handles and how far it is
  late,     \* requests whose claim became stale while they ran (history)
  ok,       \* bodies whose dispatch ended without an error (history)
  inst,     \* the installation: unknown, active or suspended
  repo,     \* the repository row: none, on, pushOff or off
  pr,       \* the pull request row and its settings
  claims, faults

intakeVars == <<events, bodies, script, handler, late, ok, inst, repo, pr,
                claims, faults>>
vars == <<queueVars, intakeVars>>

None == [is |-> "none"]
Row == [is : {"claimed", "processed"}, by : 0..MaxClaims, old : BOOLEAN]
Idle == [at |-> "idle"]
Place == {"dispatch", "confirm", "closed", "stillOpen", "permit", "reply", "list", "done", "failed"}

TypeOK ==
  /\ QueueTypeOK
  /\ events \in [Delivery -> Row \cup {None}]
  /\ bodies \in [Body -> Row \cup {None}]
  /\ script \in Script
  /\ handler \in [Handler -> [at : Place, of : Delivery, tok : 1..MaxClaims] \cup {Idle}]
  /\ late \in SUBSET Handler /\ ok \in SUBSET Body
  /\ inst \in {"unknown", "active", "suspended"}
  /\ repo \in {"none", "on", "pushOff", "off"}
  /\ pr \in [state : {"none", "open", "closed"}, autoApply : BOOLEAN, ignored : BOOLEAN]
  /\ {claims, faults} \subseteq Nat

Init ==
  /\ QueueInit
  /\ events = [d \in Delivery |-> None]
  /\ bodies = [b \in Body |-> None]
  /\ script \in Script
  /\ handler = [h \in Handler |-> Idle]
  /\ late = {} /\ ok = {}
  /\ inst = script.inst
  /\ repo = "none"
  /\ pr = [state |-> "none", autoApply |-> FALSE, ignored |-> FALSE]
  /\ claims = 0 /\ faults = script.calm

-----------------------------------------------------------------------------
(* Claims.  A row is free, or unfinished and stale, or (a body) processed  *)
(* longer ago than the replay window.                                      *)

AnyUnfinished(row) == row = None \/ row.is = "claimed"
ClaimableEvent(row) == row = None \/ (row.is = "claimed" /\ row.old)
ClaimableBody(row) == row = None \/ row.old

Claimed(tok) == [is |-> "claimed", by |-> tok, old |-> FALSE]
OwnsAny(row, tok) == row # None /\ row.is = "claimed"
Owns(row, tok) == row # None /\ row.is = "claimed" /\ row.by = tok

BodyOfHandler(h) == script.carries[handler[h].of]
EventOfHandler(h) == script.says[BodyOfHandler(h)]
Busy(h) == handler[h] # Idle

\* POST /webhooks/github: both claims, or the delivery's is given back and
\* GitHub is told that the payload is done or being processed.
Receive(h, d) ==
  LET b == script.carries[d]
      tok == claims + 1
  IN /\ ~Busy(h) /\ claims < MaxClaims
     /\ ClaimableEvent(events[d])
     /\ claims' = tok
     /\ IF ClaimableBody(bodies[b])
        THEN /\ events' = [events EXCEPT ![d] = Claimed(tok)]
             /\ bodies' = [bodies EXCEPT ![b] = Claimed(tok)]
             /\ handler' = [handler EXCEPT ![h] = [at |-> "dispatch", of |-> d, tok |-> tok]]
        ELSE /\ events' = [events EXCEPT ![d] = None]
             /\ UNCHANGED <<bodies, handler>>
     /\ UNCHANGED <<queueVars, script, late, ok, inst, repo, pr, faults>>

\* settle: the rows of this claim are completed or released, others not.
\* The token of a processed row is not read again.
Processed == [is |-> "processed", by |-> 0, old |-> FALSE]
Done(row, tok) == IF Owns(row, tok) THEN Processed ELSE row
Released(row, tok) == IF Owns(row, tok) THEN None ELSE row
SettledDone(row, h) == Done(row, handler[h].tok)
Settled(row, h) ==
  IF handler[h].at = "failed" THEN Released(row, handler[h].tok) ELSE Done(row, handler[h].tok)

Settle(h) ==
  /\ Busy(h) /\ handler[h].at \in {"done", "failed"}
  /\ bodies' = [bodies EXCEPT ![BodyOfHandler(h)] = Settled(@, h)]
  /\ events' = [events EXCEPT ![handler[h].of] = Settled(@, h)]
  /\ ok' = IF handler[h].at = "done" THEN ok \cup {BodyOfHandler(h)} ELSE ok
  /\ handler' = [handler EXCEPT ![h] = Idle]
  /\ late' = late \ {h}
  /\ UNCHANGED <<queueVars, script, inst, repo, pr, claims, faults>>

-----------------------------------------------------------------------------
(* Dispatch.                                                               *)

Goes(h, where) == handler' = [handler EXCEPT ![h].at = where]
Dispatching(h, type) ==
  Busy(h) /\ handler[h].at = "dispatch" /\ EventOfHandler(h).type = type

claimVars == <<events, bodies, script, late, ok, claims, faults>>

\* syncReposFromPayload: upsertRepo keeps the choice of a known repository.
Known(r) == IF inst = "unknown" \/ r # "none" THEN r ELSE IF AutoEnable THEN "on" ELSE "off"
IsRepoEnabled(r) == r # "off"
IsActionEnabled(r, action) == r # "pushOff" \/ action # "synchronize"

\* An enqueue that throws fails the delivery.
Enqueue(h, j) ==
  /\ mq' = Enqueued(mq, j)
  /\ Goes(h, IF Throws(mq, j) THEN "failed" ELSE "done")
  /\ UNCHANGED <<held, stage, deferrals>>
NoEnqueue(h) == Goes(h, "done") /\ UNCHANGED queueVars

\* A pull request event of an open pull request: record it and enqueue at
\* most one review.  A close waits for GitHub's word first.
PullRequestEvent(h) ==
  LET e == EventOfHandler(h)
      r == Known(repo)
  IN /\ Dispatching(h, "pull_request")
     /\ IF inst # "active" THEN NoEnqueue(h) /\ UNCHANGED <<repo, pr>>
        ELSE /\ repo' = r
             /\ IF e.action = "closed"
                THEN Goes(h, "confirm") /\ UNCHANGED <<queueVars, pr>>
                ELSE /\ pr' = [pr EXCEPT !.state = "open"]
                     /\ IF /\ e.action \in ReviewActions
                           /\ IsRepoEnabled(r) /\ IsActionEnabled(r, e.action)
                        THEN Enqueue(h, e.job)
                        ELSE NoEnqueue(h)
     /\ UNCHANGED <<claimVars, inst>>

\* isPrStillOpen; without an answer the close is believed.
ConfirmClosed(h) ==
  /\ Busy(h) /\ handler[h].at = "confirm"
  /\ \E answer \in {"stillOpen", "closed"} : Goes(h, answer)
  /\ UNCHANGED <<queueVars, claimVars, inst, repo, pr>>

\* The answer may be older than the next event when it is applied.
RecordClosed(h) ==
  /\ Busy(h) /\ handler[h].at \in {"closed", "stillOpen"}
  /\ pr' = [pr EXCEPT !.state = IF handler[h].at = "closed" THEN "closed" ELSE "open"]
  /\ NoEnqueue(h)
  /\ UNCHANGED <<claimVars, inst, repo>>

\* A command is looked at in a repository that is enabled, ...
Looked(h) == Goes(h, IF inst = "active" /\ IsRepoEnabled(repo) THEN "permit" ELSE "done")
IssueCommentEvent(h) ==
  Dispatching(h, "issue_comment") /\ Looked(h) /\ UNCHANGED <<queueVars, claimVars, inst, repo, pr>>
ReviewCommentEvent(h) ==
  Dispatching(h, "review_comment") /\ Looked(h) /\ UNCHANGED <<queueVars, claimVars, inst, repo, pr>>
CheckboxEvent(h) ==
  Dispatching(h, "checkbox") /\ Looked(h) /\ UNCHANGED <<queueVars, claimVars, inst, repo, pr>>

\* ... its author must have write access, and GitHub may fail to answer.
Permitting(h) == Busy(h) /\ handler[h].at = "permit"
RefuseCommand(h) ==
  /\ Permitting(h)
  /\ \E where \in {"done", "failed"} : Goes(h, where)
  /\ UNCHANGED <<queueVars, claimVars, inst, repo, pr>>

EnqueueCommandJob(h) ==
  /\ Permitting(h) /\ EventOfHandler(h).action = "enqueue"
  /\ Enqueue(h, EventOfHandler(h).job)
  /\ UNCHANGED <<claimVars, inst, repo, pr>>

\* Both are stored before the reply is posted.
SetPrAutoApply(h) ==
  /\ Permitting(h) /\ EventOfHandler(h).action = "auto_apply"
  /\ pr' = [pr EXCEPT !.autoApply = TRUE]
  /\ Goes(h, "reply")
  /\ UNCHANGED <<queueVars, claimVars, inst, repo>>
IgnoreFinding(h) ==
  /\ Permitting(h) /\ EventOfHandler(h).action = "ignore"
  /\ pr' = [pr EXCEPT !.ignored = TRUE]
  /\ Goes(h, "reply")
  /\ UNCHANGED <<queueVars, claimVars, inst, repo>>

\* Only an issue comment also starts the fixes it turned on.
Reply(h) ==
  LET e == EventOfHandler(h)
  IN /\ Busy(h) /\ handler[h].at = "reply"
     /\ \/ Goes(h, "failed") /\ UNCHANGED queueVars
        \/ /\ e.action = "auto_apply" /\ e.type = "issue_comment"
           /\ Enqueue(h, e.job)
        \/ (e.action = "ignore" \/ e.type = "review_comment") /\ NoEnqueue(h)
     /\ UNCHANGED <<claimVars, inst, repo, pr>>

\* An installation that no workspace is bound to stays unknown.
InstallationEvent(h) ==
  LET e == EventOfHandler(h)
  IN /\ Dispatching(h, "installation")
     /\ inst' = IF inst = "unknown" THEN inst
                ELSE IF e.action = "created" THEN "active" ELSE "suspended"
     /\ repo' = IF e.action = "deleted" /\ repo # "none" THEN "off"
                ELSE IF e.action = "deleted" THEN repo ELSE Known(repo)
     /\ Goes(h, IF e.action # "deleted" /\ inst # "unknown" THEN "list" ELSE "done")
     /\ UNCHANGED <<queueVars, claimVars, pr>>

ListRepos(h) ==
  /\ Busy(h) /\ handler[h].at = "list"
  /\ repo' \in {repo, Known(repo)}
  /\ NoEnqueue(h)
  /\ UNCHANGED <<claimVars, inst, pr>>

RepositoriesEvent(h) ==
  /\ Dispatching(h, "repositories")
  /\ repo' = IF EventOfHandler(h).action = "removed"
             THEN (IF repo = "none" THEN "none" ELSE "off")
             ELSE IF inst = "unknown" THEN repo
             ELSE IF AutoEnable THEN (IF repo = "pushOff" THEN repo ELSE "on") ELSE "off"
  /\ NoEnqueue(h)
  /\ UNCHANGED <<claimVars, inst, pr>>

-----------------------------------------------------------------------------
(* Time, people and crashes.                                               *)

Disturb == faults < MaxFaults /\ faults' = faults + 1

\* 15 minutes pass over an unfinished claim.  Requests gone in a crash leave
\* such claims for nothing; a living request that is so slow is a fault.
HolderOf(row) == {h \in Handler : Busy(h) /\ handler[h].tok = row.by}
GoesStale(row) ==
  /\ row # None /\ row.is = "claimed" /\ ~row.old
  /\ late' = late \cup HolderOf(row)
  /\ IF HolderOf(row) \subseteq late THEN UNCHANGED faults ELSE Disturb
Stale ==
  /\ \/ \E d \in Delivery :
          GoesStale(events[d]) /\ events' = [events EXCEPT ![d].old = TRUE] /\ UNCHANGED bodies
     \/ \E b \in Body :
          GoesStale(bodies[b]) /\ bodies' = [bodies EXCEPT ![b].old = TRUE] /\ UNCHANGED events
  /\ UNCHANGED <<queueVars, script, handler, ok, inst, repo, pr, claims>>

\* The replay window of a body passes; rows that are processed or stale are
\* pruned in the end.
Prunable(row) == row # None /\ (row.is = "processed" \/ row.old)
Forget ==
  /\ Disturb
  /\ \/ \E b \in Body :
          /\ bodies[b] = Processed /\ bodies' = [bodies EXCEPT ![b].old = TRUE]
          /\ UNCHANGED events
     \/ \E b \in Body :
          Prunable(bodies[b]) /\ bodies' = [bodies EXCEPT ![b] = None] /\ UNCHANGED events
     \/ \E d \in Delivery :
          Prunable(events[d]) /\ events' = [events EXCEPT ![d] = None] /\ UNCHANGED bodies
  /\ UNCHANGED <<queueVars, script, handler, late, ok, inst, repo, pr, claims>>

\* The operator switches the repository; the browser flow binds the
\* installation.
Edit ==
  /\ Disturb
  /\ \/ repo # "none" /\ repo' \in {"on", "pushOff", "off"} /\ UNCHANGED inst
     \/ inst = "unknown" /\ inst' = "active" /\ repo' = Known(repo)
  /\ UNCHANGED <<queueVars, events, bodies, script, handler, late, ok, pr, claims>>

\* The process dies: requests, workers and the queue are gone.  It may die
\* after the first of the two claims or of the two settlements.
Crash ==
  /\ Disturb
  /\ \/ UNCHANGED <<events, bodies, ok, claims>>
     \/ \E d \in Delivery :
          /\ claims < MaxClaims /\ claims' = claims + 1
          /\ ClaimableEvent(events[d])
          /\ events' = [events EXCEPT ![d] = Claimed(claims')]
          /\ UNCHANGED <<bodies, ok>>
     \/ \E h \in Handler :
          /\ Busy(h) /\ handler[h].at \in {"done", "failed"}
          /\ bodies' = [bodies EXCEPT ![BodyOfHandler(h)] = Settled(@, h)]
          /\ ok' = IF handler[h].at = "done" THEN ok \cup {BodyOfHandler(h)} ELSE ok
          /\ UNCHANGED <<events, claims>>
  /\ handler' = [h \in Handler |-> Idle] /\ late' = {}
  /\ mq' = EmptyQueue
  /\ held' = [w \in Worker |-> NoJob] /\ stage' = [w \in Worker |-> "idle"]
  /\ UNCHANGED <<deferrals, script, inst, repo, pr>>

HandlerNext ==
  \E h \in Handler :
    \/ \E d \in Delivery : Receive(h, d)
    \/ PullRequestEvent(h) \/ ConfirmClosed(h) \/ RecordClosed(h)
    \/ IssueCommentEvent(h) \/ ReviewCommentEvent(h) \/ CheckboxEvent(h)
    \/ RefuseCommand(h) \/ EnqueueCommandJob(h) \/ SetPrAutoApply(h) \/ IgnoreFinding(h)
    \/ Reply(h)
    \/ InstallationEvent(h) \/ ListRepos(h) \/ RepositoriesEvent(h)
    \/ Settle(h)

Next ==
  \/ HandlerNext
  \/ QueueNext /\ UNCHANGED intakeVars
  \/ Stale \/ Forget \/ Edit \/ Crash

Spec == Init /\ [][Next]_vars

-----------------------------------------------------------------------------
(* Properties.                                                             *)

\* A request that did not outlive the stale window owns both of its rows
\* until it settles: the same delivery, or the same payload under another
\* delivery id, is not handled twice at a time.
OwnsUnlessLate ==
  \A h \in Handler : Busy(h) /\ h \notin late =>
    /\ Owns(events[handler[h].of], handler[h].tok)
    /\ Owns(bodies[BodyOfHandler(h)], handler[h].tok)

\* What is recorded as processed was handled to its end: GitHub is told
\* "deduped" only of payloads whose handler did not fail.
ProcessedWasHandled ==
  /\ \A b \in Body : bodies[b] # None /\ bodies[b].is = "processed" => b \in ok
  /\ \A d \in Delivery : events[d] # None /\ events[d].is = "processed" => script.carries[d] \in ok

\* The state of a key tells where its job is.  Jobs that are ready wait in
\* the queue or behind a claim, except a command review that a later review
\* replaced and a commit that was reviewed meanwhile; jobs in flight are in
\* the hands of a worker, and every pull request in flight has one
\* (ClaimsHeld: a pull request in flight under no worker is blocked for good).
Waits(j) ==
  \/ \E i \in DOMAIN mq.queue : KeyOf(mq.queue[i].job) = KeyOf(j)
  \/ \E i \in DOMAIN mq.pending[j.pr] : KeyOf(mq.pending[j.pr][i]) = KeyOf(j)
InHand(j) == \E w \in Worker : held[w] # NoJob /\ KeyOf(held[w]) = KeyOf(j)
ClaimsHeld ==
  \A p \in PR : mq.inFlight[p] # NoJob =>
    \E w \in Worker : held[w] = mq.inFlight[p] /\ stage[w] \in {"claimed", "running", "applied"}
JobsAccounted ==
  /\ \A j \in Job :
       /\ mq.states[KeyOf(j)] = "ready" /\ (Automatic(j) \/ ~j.review) =>
            Waits(j) \/ AlreadyDone(mq, j)
       /\ mq.states[KeyOf(j)] \in {"claimed", "running"} => InHand(j)
  /\ ClaimsHeld

\* A command that waits behind a claim leaves its place for the queue only,
\* whatever reviews arrive meanwhile (a crash empties the whole queue).
Behind(p) == {j \in ToSet(mq.pending[p]) : ~j.review}
CommandsKeptBehind ==
  [][mq' # EmptyQueue => \A p \in PR : \A j \in Behind(p) :
       \/ j \in Behind(p)'
       \/ \E i \in DOMAIN mq.queue' : mq.queue'[i].job = j]_vars

\* enqueue makes a legal transition or none (assertJobTransition).
EnqueueIsLegal ==
  \A h \in Handler : Busy(h) /\ handler[h].at = "dispatch" => ~Throws(mq, EventOfHandler(h).job)

=============================================================================
