------------------------------- MODULE Billing -------------------------------
(***************************************************************************)
(* What Stripe says of one workspace and what the server makes of it: the  *)
(* event processor behind its durable claim                                *)
(* (packages/billing/src/billing-event-processor.ts), the subscription,    *)
(* revenue and wallet rows it writes                                       *)
(* (packages/store/src/repositories/billing), and the operator's           *)
(* reconciliation with Stripe's own records                                *)
(* (revenue-reconciliation-service.ts).  An action runs from one await to  *)
(* the next; a crash may fall between any two of its statements.           *)
(***************************************************************************)
EXTENDS Integers, Sequences, SequencesExt, FiniteSetsExt

CONSTANTS
  Sub, NoSub,     \* subscriptions of the workspace's customer at Stripe
  PlanOf,         \* the paid plan each subscription's metadata names
  Session,        \* checkout sessions that buy prepaid credits
  Price,          \* what a session credits
  Run,            \* reviews past the quota, one unit of credit each
  Story,          \* the instances: what happens at Stripe
  MaxEvents,      \* bound: events Stripe sends
  MaxFaults       \* bound: crashes and failed calls to Stripe, together

Charge == Sub \cup Session   \* a subscription's charge, a top-up's charge
Id == 1..MaxEvents           \* event ids, in the order Stripe created them
Paid == {PlanOf[s] : s \in Sub}

\* What happens at Stripe, in this order; whether its events arrive in order
\* and one at a time; whether the operator reconciles meanwhile.
Act == [do : {"subscribe", "lapse", "recover", "cancel", "topUp", "refund", "invoice", "dispute"},
        on : Charge, cents : Nat]
IsStory(s) ==
  /\ DOMAIN s = {"acts", "ordered", "reconciled"}
  /\ s.acts \in Seq(Act) /\ {s.ordered, s.reconciled} \subseteq BOOLEAN
  /\ \A i \in DOMAIN s.acts :
       /\ s.acts[i].do \in {"subscribe", "lapse", "recover", "cancel"} => s.acts[i].on \in Sub
       /\ s.acts[i].do = "topUp" => s.acts[i].on \in Session
       \* an invoice has one amount, however often it is reported paid
       /\ \A k \in DOMAIN s.acts :
            s.acts[i].do = "invoice" /\ s.acts[k].do = "invoice" /\ s.acts[i].on = s.acts[k].on
              => s.acts[i].cents = s.acts[k].cents

ASSUME SubAssumption == NoSub \notin Sub /\ Sub \cap Session = {} /\ IsFiniteSet(Sub \cup Session)
ASSUME PlanAssumption == "free" \notin Paid
ASSUME PriceAssumption == Price \in [Session -> Nat \ {0}]
ASSUME StoryAssumption == \A s \in Story : IsStory(s)
ASSUME BillingBounds == {MaxEvents, MaxFaults} \subseteq Nat

VARIABLES
  story,
  told,       \* acts of the story that happened
  stripe,     \* Stripe's own status of each subscription
  refunds,    \* per charge, what was refunded in all after each refund
  sent,       \* events Stripe created
  claim,      \* webhook_events rows of provider stripe, and open handlers
  prior,      \* the subscription a checkout's handler is cancelling
  db,         \* the tenant's row, the revenue events and the credit ledger
  sync,       \* the operator's reconciliation
  lapsed,     \* subscriptions that were not active at some time (history)
  blind,      \* subscriptions whose status a checkout failed to read (history)
  raced,      \* charges a webhook recorded under a reconciliation (history)
  faults

stripeVars == <<story, told, stripe, refunds>>
vars == <<stripeVars, sent, claim, prior, db, sync, lapsed, blind, raced, faults>>

Status == {"none", "active", "past_due", "canceled", "complete"}
Event == [type : {"created", "updated", "deleted", "checkout", "topUp", "refund", "invoice", "dispute"},
          on : Charge, status : Status, cents : Nat]
Key == [by : {"event", "session", "invoice", "refund", "rest", "dispute", "run"},
        on : Charge \cup Run \cup {NoSub}, n : Nat]
Revenue == [id : Key, type : {"invoice", "refund"}, on : Charge, cents : Nat, known : BOOLEAN]
Ledger == [key : Key, cents : Int]
Open == {"cancelling", "retrieving"}
NoSync == [at |-> "idle", left |-> <<>>, seen |-> [c \in Charge |-> 0], of |-> NoSub, was |-> 0]

TypeOK ==
  /\ story \in Story /\ told \in 0..Len(story.acts)
  /\ stripe \in [Sub -> Status]
  /\ refunds \in [Charge -> Seq(Nat)]
  /\ sent \in Seq(Event) /\ Len(sent) <= MaxEvents
  /\ claim \in [Id -> {"free", "done"} \cup Open]
  /\ prior \in [Id -> Sub \cup {NoSub}]
  /\ db \in [plan : Paid \cup {"free"}, sub : Sub \cup {NoSub}, status : Status,
             linked : BOOLEAN, revenue : SUBSET Revenue, ledger : SUBSET Ledger]
  /\ sync \in [at : {"idle", "invoices", "charges", "refunds"}, left : Seq(Charge),
               seen : [Charge -> Nat], of : Charge \cup {NoSub}, was : Nat]
  /\ lapsed \subseteq Sub /\ blind \subseteq Sub /\ raced \subseteq Charge
  /\ faults \in 0..MaxFaults

Init ==
  /\ story \in Story /\ told = 0
  /\ stripe = [s \in Sub |-> "none"]
  /\ refunds = [c \in Charge |-> <<>>]
  /\ sent = <<>>
  /\ claim = [n \in Id |-> "free"]
  /\ prior = [n \in Id |-> NoSub]
  /\ db = [plan |-> "free", sub |-> NoSub, status |-> "none", linked |-> FALSE,
           revenue |-> {}, ledger |-> {}]
  /\ sync = NoSync
  /\ lapsed = {} /\ blind = {} /\ raced = {}
  /\ faults = 0

-----------------------------------------------------------------------------
(* Stripe.                                                                 *)

Said(type, on, status, cents) ==
  [type |-> type, on |-> on, status |-> status, cents |-> cents]
RefundedAt(c) == IF refunds[c] = <<>> THEN 0 ELSE Last(refunds[c])

\* A change of a subscription's status that Stripe announces; of one that is
\* over, none.
Turns(s, status, type) ==
  IF stripe[s] \in {"active", "past_due"} \ {status}
  THEN /\ stripe' = [stripe EXCEPT ![s] = status]
       /\ sent' = Append(sent, Said(type, s, status, 0))
       /\ lapsed' = IF status = "active" THEN lapsed ELSE lapsed \cup {s}
  ELSE UNCHANGED <<stripe, sent, lapsed>>

Subscribes(s) ==
  /\ stripe' = [stripe EXCEPT ![s] = "active"]
  /\ sent' = sent \o <<Said("created", s, "active", 0), Said("checkout", s, "active", 0)>>
  /\ UNCHANGED lapsed

Refunds(c, cents) ==
  /\ refunds' = [refunds EXCEPT ![c] = Append(@, RefundedAt(c) + cents)]
  /\ sent' = Append(sent, Said("refund", c, "none", RefundedAt(c) + cents))
  /\ UNCHANGED <<stripe, lapsed>>

Happens ==
  /\ told < Len(story.acts) /\ Len(sent) + 2 <= MaxEvents
  /\ told' = told + 1
  /\ LET a == story.acts[told + 1]
     IN \/ a.do = "subscribe" /\ Subscribes(a.on) /\ UNCHANGED refunds
        \/ a.do = "lapse" /\ Turns(a.on, "past_due", "updated") /\ UNCHANGED refunds
        \/ a.do = "recover" /\ Turns(a.on, "active", "updated") /\ UNCHANGED refunds
        \/ a.do = "cancel" /\ Turns(a.on, "canceled", "deleted") /\ UNCHANGED refunds
        \/ a.do = "refund" /\ Refunds(a.on, a.cents)
        \/ /\ a.do \in {"topUp", "invoice", "dispute"}
           /\ sent' = Append(sent, Said(a.do, a.on, "none", a.cents))
           /\ UNCHANGED <<stripe, refunds, lapsed>>
  /\ UNCHANGED <<story, claim, prior, db, sync, blind, raced, faults>>

-----------------------------------------------------------------------------
(* The rows.                                                               *)

\* A trialing subscription unlocks its plan as an active one does.
Unlocks(status) == status = "active"

\* getTenantPlan: a plan that no Stripe subscription stands behind is kept.
GetTenantPlan(d) ==
  IF Unlocks(d.status) \/ (d.sub = NoSub /\ d.status = "none") THEN d.plan ELSE "free"

AnySubscription(d, s) == TRUE
IsCurrentSubscription(d, s) == d.sub \in {NoSub, s}

SetTenantBilling(d, s, status) == [d EXCEPT !.sub = s, !.status = status, !.linked = TRUE]
AssignUnlinked(d) == [d EXCEPT !.revenue = {[r EXCEPT !.known = TRUE] : r \in @}]

\* recordStripeRevenueEvent: one row per event, one per paid invoice.
SameEvent(r, row) == r.id = row.id
SameRevenue(r, row) ==
  r.id = row.id \/ (r.type = "invoice" /\ row.type = "invoice" /\ r.on = row.on)
Recorded(d, row) ==
  IF \E r \in d.revenue : SameRevenue(r, row) THEN d ELSE [d EXCEPT !.revenue = @ \cup {row}]

Cents(rows) == SumFunction([r \in rows |-> r.cents])
RefundRows(d, c) == {r \in d.revenue : r.type = "refund" /\ r.on = c}
SumRefunds(d, c) == Cents(RefundRows(d, c))

Balance(d) == Cents(d.ledger)
Entered(d, key, cents) == [d EXCEPT !.ledger = @ \cup {[key |-> key, cents |-> cents]}]
HasEntry(d, key) == \E l \in d.ledger : l.key = key

KeyOf(by, on, n) == [by |-> by, on |-> on, n |-> n]
CreditAgain(d, k) == Entered(d, KeyOf("session", k, Cardinality(d.ledger)), Price[k])
CreditPrepaidTopUp(d, k) ==
  IF HasEntry(d, KeyOf("session", k, 0)) THEN d ELSE Entered(d, KeyOf("session", k, 0), Price[k])

\* clawbackPrepaidCredits: what is left of the balance at most, once per key.
ClawbackPrepaidCredits(d, key, cents) ==
  IF cents = 0 \/ HasEntry(d, key) THEN d ELSE Entered(d, key, -Min({Balance(d), cents}))

-----------------------------------------------------------------------------
(* What an event does to the rows: the states its statements lead through. *)

WithPlan(d, plan) == [d EXCEPT !.plan = plan]
PlanFor(s, status) == IF Unlocks(status) THEN PlanOf[s] ELSE "free"

\* customer.subscription.created and .updated.
SubscriptionWrites(d, e) ==
  IF ~IsCurrentSubscription(d, e.on) THEN <<d>>
  ELSE LET d1 == WithPlan(d, PlanFor(e.on, e.status))
           d2 == SetTenantBilling(d1, e.on, e.status)
       IN <<d, d1, d2, AssignUnlinked(d2)>>

DeletedAnyway(d, e) ==
  LET d1 == WithPlan(d, "free") IN <<d, d1, [d1 EXCEPT !.sub = e.on, !.status = e.status]>>
DeletedWrites(d, e) ==
  IF ~IsCurrentSubscription(d, e.on) THEN <<d>>
  ELSE LET d1 == WithPlan(d, "free")
       IN <<d, d1, [d1 EXCEPT !.sub = e.on, !.status = e.status]>>

\* applySubscriptionCheckout, once Stripe told the status or did not.
CheckoutWrites(d, s, status) ==
  LET d1 == IF Unlocks(status) THEN WithPlan(d, PlanOf[s]) ELSE d
      d2 == SetTenantBilling(d1, s, status)
  IN <<d, d1, d2, AssignUnlinked(d2)>>

\* applyCreditTopUp links the customer and assigns nothing.
TopUpWrites(d, k) ==
  LET d1 == [d EXCEPT !.linked = TRUE] IN <<d, d1, CreditPrepaidTopUp(d1, k)>>

RowOf(type, key, c, cents, known) ==
  [id |-> key, type |-> type, on |-> c, cents |-> cents, known |-> known]
InvoiceWrites(d, n, c, cents) ==
  <<d, Recorded(d, RowOf("invoice", KeyOf("event", c, n), c, cents, d.linked))>>

\* A refund counts for what the charge's earlier rows do not cover, and takes
\* as much from the wallet, in a statement of its own.
RawDelta(d, c, total) == total - SumRefunds(d, c)
RefundDelta(d, c, total) == Max({0, total - SumRefunds(d, c)})
RefundWrites(d, n, c, total) ==
  LET delta == RefundDelta(d, c, total)
      d1 == Recorded(d, RowOf("refund", KeyOf("event", c, n), c, delta, d.linked))
  IN IF delta = 0 THEN <<d>>
     ELSE IF ~d.linked THEN <<d, d1>>
     ELSE <<d, d1, ClawbackPrepaidCredits(d1, KeyOf("refund", c, n), delta)>>

DisputeWrites(d, c, cents) ==
  IF d.linked THEN <<d, ClawbackPrepaidCredits(d, KeyOf("dispute", c, 0), cents)>> ELSE <<d>>

\* apply, for the events that wait for nothing.
Writes(n) ==
  LET e == sent[n]
  IN CASE e.type \in {"created", "updated"} -> SubscriptionWrites(db, e)
       [] e.type = "deleted" -> DeletedWrites(db, e)
       [] e.type = "topUp" -> TopUpWrites(db, e.on)
       [] e.type = "invoice" -> InvoiceWrites(db, n, e.on, e.cents)
       [] e.type = "refund" -> RefundWrites(db, n, e.on, e.cents)
       [] e.type = "dispute" -> DisputeWrites(db, e.on, e.cents)
       [] OTHER -> <<db>>

-----------------------------------------------------------------------------
(* The processor.  Stripe sends an event until it is answered; its claim   *)
(* turns away all but one handler.  A claim left by a crash is taken again *)
(* once it is stale: it counts as free.                                    *)

Delivered(n) ==
  /\ n <= Len(sent) /\ claim[n] = "free"
  /\ story.ordered => \A m \in 1..(n - 1) : claim[m] = "done"

Races(n) ==
  IF sent[n].type = "refund" /\ sync.at = "refunds" /\ sync.of = sent[n].on
  THEN raced \cup {sent[n].on} ELSE raced

Process(n) ==
  /\ Delivered(n) /\ sent[n].type # "checkout"
  /\ db' = Last(Writes(n))
  /\ claim' = [claim EXCEPT ![n] = "done"]
  /\ raced' = Races(n)
  /\ UNCHANGED <<stripeVars, sent, prior, sync, lapsed, blind, faults>>

\* A checkout of another subscription than the stored one cancels that first.
StartCheckout(n) ==
  /\ Delivered(n) /\ sent[n].type = "checkout"
  /\ prior' = [prior EXCEPT ![n] = db.sub]
  /\ claim' = [claim EXCEPT ![n] =
       IF IsCurrentSubscription(db, sent[n].on) THEN "retrieving" ELSE "cancelling"]
  /\ UNCHANGED <<stripeVars, sent, db, sync, lapsed, blind, raced, faults>>

\* Stripe cancels (404 when it is over already), or the call fails, before it
\* had its effect or after, and the claim is released.
CancelSubscription(n) ==
  /\ claim[n] = "cancelling" /\ Len(sent) < MaxEvents
  /\ \/ /\ claim' = [claim EXCEPT ![n] = "retrieving"]
        /\ Turns(prior[n], "canceled", "deleted")
        /\ UNCHANGED faults
     \/ /\ faults < MaxFaults /\ faults' = faults + 1
        /\ claim' = [claim EXCEPT ![n] = "free"]
        /\ Turns(prior[n], "canceled", "deleted") \/ UNCHANGED <<stripe, sent, lapsed>>
  /\ prior' = [prior EXCEPT ![n] = NoSub]
  /\ UNCHANGED <<story, told, refunds, db, sync, blind, raced>>

\* Without an answer the session's own status stands, which is no status of a
\* subscription.
GetSubscription(n) ==
  /\ claim[n] = "retrieving"
  /\ LET s == sent[n].on
     IN \/ /\ db' = Last(CheckoutWrites(db, s, stripe[s]))
           /\ UNCHANGED <<blind, faults>>
        \/ /\ faults < MaxFaults /\ faults' = faults + 1
           /\ db' = Last(CheckoutWrites(db, s, "complete"))
           /\ blind' = blind \cup {s}
  /\ claim' = [claim EXCEPT ![n] = "done"]
  /\ UNCHANGED <<stripeVars, sent, prior, sync, lapsed, raced>>

\* DebitOverageCredits of a review past the quota.
Spend(r) ==
  /\ Balance(db) >= 1 /\ ~HasEntry(db, KeyOf("run", r, 0))
  /\ db' = Entered(db, KeyOf("run", r, 0), -1)
  /\ UNCHANGED <<stripeVars, sent, claim, prior, sync, lapsed, blind, raced, faults>>

-----------------------------------------------------------------------------
(* The operator's reconciliation: RevenueReconciliationService.            *)

Sync ==
  /\ story.reconciled /\ sync.at = "idle" /\ db.linked
  /\ sync' = [sync EXCEPT !.at = "invoices"]
  /\ UNCHANGED <<stripeVars, sent, claim, prior, db, lapsed, blind, raced, faults>>

Invoiced == {e \in Range(sent) : e.type = "invoice"}
InvoiceRow(e) == RowOf("invoice", KeyOf("invoice", e.on, 0), e.on, e.cents, TRUE)

ListInvoices ==
  /\ sync.at = "invoices"
  /\ db' = [db EXCEPT !.revenue = @ \cup
       {row \in {InvoiceRow(e) : e \in Invoiced} : \A r \in @ : ~SameRevenue(r, row)}]
  /\ sync' = [sync EXCEPT !.at = "charges"]
  /\ UNCHANGED <<stripeVars, sent, claim, prior, lapsed, blind, raced, faults>>

\* The next charge with more refunded than its rows cover: what they cover is
\* read now, the refunds are asked for after.
Turn(d, left, seen) ==
  LET i == SelectInSeq(left, LAMBDA c : seen[c] > SumRefunds(d, c))
  IN IF i = 0 THEN NoSync
     ELSE [at |-> "refunds", left |-> SubSeq(left, i + 1, Len(left)), seen |-> seen,
           of |-> left[i], was |-> SumRefunds(d, left[i])]

ListCharges ==
  /\ sync.at = "charges"
  /\ sync' = Turn(db, SetToSeq(Charge), [c \in Charge |-> RefundedAt(c)])
  /\ UNCHANGED <<stripeVars, sent, claim, prior, db, lapsed, blind, raced, faults>>

\* The part of the charge's k-th refund that was not covered when its rows
\* were read.
Total(c, k) == IF k = 0 THEN 0 ELSE refunds[c][k]
Uncovered(c, k) == Max({0, Total(c, k) - Max({sync.was, Total(c, k - 1)})})
RefundRow(c, k) == RowOf("refund", KeyOf("refund", c, k), c, Uncovered(c, k), TRUE)
NewRows(c, k) ==
  {row \in {RefundRow(c, j) : j \in 1..k} : row.cents > 0 /\ \A r \in db.revenue : r.id # row.id}
RestRow(c) ==
  LET recorded == Cents(NewRows(c, Len(refunds[c])))
  IN RowOf("refund", KeyOf("rest", c, sync.seen[c]), c, sync.seen[c] - sync.was - recorded, TRUE)
AfterRows(k) == [db EXCEPT !.revenue = @ \cup NewRows(sync.of, k)]
AfterRest(d) == IF RestRow(sync.of).cents > 0 THEN Recorded(d, RestRow(sync.of)) ELSE d

ListRefunds ==
  /\ sync.at = "refunds"
  /\ db' = AfterRest(AfterRows(Len(refunds[sync.of])))
  /\ sync' = Turn(db', sync.left, sync.seen)
  /\ UNCHANGED <<stripeVars, sent, claim, prior, lapsed, blind, raced, faults>>

\* A list that fails ends the customer's reconciliation.
SyncFails ==
  /\ sync.at # "idle" /\ faults < MaxFaults
  /\ sync' = NoSync /\ faults' = faults + 1
  /\ UNCHANGED <<stripeVars, sent, claim, prior, db, lapsed, blind, raced>>

-----------------------------------------------------------------------------
\* The process dies between two statements of an event, of a checkout or of
\* the reconciliation, or while one of them waits for Stripe.
Interrupted ==
  {db}
  \cup (UNION {Range(Writes(n)) : n \in {m \in Id : Delivered(m)}})
  \cup (UNION {Range(CheckoutWrites(db, sent[n].on, stripe[sent[n].on])) :
                 n \in {m \in Id : claim[m] = "retrieving"}})
  \cup (IF sync.at = "refunds" THEN {AfterRows(k) : k \in DOMAIN refunds[sync.of]} ELSE {})

Crash ==
  /\ faults < MaxFaults /\ faults' = faults + 1
  /\ db' \in Interrupted
  /\ claim' = [n \in Id |-> IF claim[n] \in Open THEN "free" ELSE claim[n]]
  /\ prior' = [n \in Id |-> NoSub]
  /\ sync' = NoSync
  /\ <<db', claim', sync'>> # <<db, claim, sync>>
  /\ UNCHANGED <<stripeVars, sent, lapsed, blind, raced>>

Handle(n) == Process(n) \/ StartCheckout(n) \/ CancelSubscription(n) \/ GetSubscription(n)

Next ==
  \/ Happens
  \/ \E n \in Id : Handle(n)
  \/ \E r \in Run : Spend(r)
  \/ Sync \/ ListInvoices \/ ListCharges \/ ListRefunds \/ SyncFails
  \/ Crash

Spec == Init /\ [][Next]_vars

-----------------------------------------------------------------------------
(* Properties.                                                             *)

AllHandled ==
  /\ told = Len(story.acts)
  /\ \A n \in 1..Len(sent) : claim[n] = "done"

Subscribed == {i \in 1..told : story.acts[i].do = "subscribe"}
Newest == story.acts[Max(Subscribed)].on

\* Once every event arrived in order and was handled, whatever crashed and was
\* tried again meanwhile, the workspace has the plan of the subscription it
\* bought last exactly as long as Stripe calls that active, and pays for no
\* other: an upgrade neither costs the new plan nor leaves the old one running
\* (isCurrentSubscription and the cancellation in applySubscriptionCheckout).
SettledTruth ==
  story.ordered /\ AllHandled /\ Subscribed # {} /\ Newest \notin blind =>
    /\ GetTenantPlan(db) = PlanFor(Newest, stripe[Newest])
    /\ \A s \in Sub \ {Newest} : stripe[s] # "active"

HandledRefunds(c) ==
  {sent[n].cents : n \in {m \in 1..Len(sent) :
     claim[m] = "done" /\ sent[m].type = "refund" /\ sent[m].on = c}}
InvoiceRows(c) == {r \in db.revenue : r.type = "invoice" /\ r.on = c}

\* Refunds of a charge are counted once, whatever the order, the repetition
\* and the crashes of their events: never less than the handled events say,
\* never more than Stripe refunded unless a reconciliation had read the rows
\* before.  An invoice has one row, from its event or from the reconciliation.
RevenueExact ==
  \A c \in Charge :
    /\ \A total \in HandledRefunds(c) : SumRefunds(db, c) >= total
    /\ c \notin raced => SumRefunds(db, c) <= RefundedAt(c)
    /\ Cardinality(InvoiceRows(c)) <= 1
    /\ (\E n \in 1..Len(sent) : claim[n] = "done" /\ sent[n].type = "invoice" /\ sent[n].on = c)
         => InvoiceRows(c) # {}

Entries(by, on) == {l \in db.ledger : l.key.by = by /\ l.key.on = on}
Moved(by, on) == Cents(Entries(by, on))
ToppedUp == {sent[n].on : n \in {m \in 1..Len(sent) : claim[m] = "done" /\ sent[m].type = "topUp"}}

\* The wallet is never overdrawn, by reviews, refunds and disputes in any
\* order; a paid session is credited once, its event handled once or again
\* after a crash; refunds of a charge take no more than was refunded.
WalletExact ==
  /\ Balance(db) >= 0
  /\ \A k \in Session :
       /\ Moved("session", k) \in {0, Price[k]}
       /\ k \in ToppedUp => Moved("session", k) = Price[k]
  /\ \A c \in Charge : -Moved("refund", c) <= RefundedAt(c)

Recording(s) == \E n \in Id : claim[n] = "retrieving" /\ claim'[n] # "retrieving" /\ sent[n].on = s

\* A workspace loses its paid plan only on word about the subscription it has
\* or is given by a checkout, and only if that subscription was not active at
\* some time: an old subscription's events do not downgrade a tenant that
\* pays (AUDIT_FINDINGS.md H9).
DowngradedOnOwnWord ==
  [][GetTenantPlan(db) # "free" /\ GetTenantPlan(db)' = "free" =>
       \/ db.sub = NoSub
       \/ db'.sub = db.sub /\ db.sub \in lapsed
       \/ Recording(db'.sub) /\ db'.sub \in lapsed \cup blind']_vars

\* "Unused credit balance remaining after a Stripe refund of the original
\* top-up payment may be clawed back" (apps/server/refunds.html): a refund of
\* a subscription's charge takes nothing from the wallet.
ClawsOnlyTopUps == \A s \in Sub : Moved("refund", s) = 0

\* "revenue reconciliation records ... only the uncovered refund delta"
\* (revenue-reconciliation-service.test.ts): a refund is never counted twice.
RefundsCountedOnce == \A c \in Charge : SumRefunds(db, c) <= RefundedAt(c)

=============================================================================
