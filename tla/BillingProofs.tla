---------------------------- MODULE BillingProofs ----------------------------
(***************************************************************************)
(* Proofs about Billing, for any number of subscriptions, sessions and     *)
(* reviews, any story and all bounds, in three parts.                      *)
(*                                                                         *)
(* The plan.  What decides a workspace's plan is its row's plan,           *)
(* subscription and status (its standing); the ledger and the revenue rows *)
(* do not enter.                                                           *)
(*                                                                         *)
(* The money.  What the rows of a charge and the entries of the ledger sum *)
(* up to, and how each statement moves the sums (Sound, Kept).             *)
(*                                                                         *)
(* The last word.  When events are handled in order, which of them still   *)
(* have to be, and what the row says until then (Ordered).                 *)
(***************************************************************************)
EXTENDS Billing, DataTheorems

Fields == {"plan", "sub", "status", "linked", "revenue", "ledger"}
IsDb(d) ==
  /\ d = [f \in Fields |-> d[f]]
  /\ d.plan \in Paid \cup {"free"} /\ d.sub \in Sub \cup {NoSub} /\ d.status \in Status
Stands(x, d) == x.plan = d.plan /\ x.sub = d.sub /\ x.status = d.status

\* x differs from d in what its standing does not see.
Beside(x, d) == IsDb(x) /\ Stands(x, d)

-----------------------------------------------------------------------------
(* Statements that leave the standing alone.                               *)

LEMMA Columns ==
  ASSUME NEW d, IsDb(d), NEW v
  PROVE  /\ Beside([d EXCEPT !.revenue = v], d) /\ [d EXCEPT !.revenue = v].ledger = d.ledger
         /\ Beside([d EXCEPT !.ledger = v], d) /\ [d EXCEPT !.ledger = v].ledger = v
         /\ Beside([d EXCEPT !.linked = v], d) /\ [d EXCEPT !.linked = v].ledger = d.ledger
BY DEF IsDb, Beside, Stands, Fields

LEMMA BesideTrans ==
  ASSUME NEW d, NEW x, NEW y, Beside(x, d), Beside(y, x)
  PROVE  Beside(y, d)
BY DEF Beside, Stands

LEMMA BesideSelf == ASSUME NEW d, IsDb(d) PROVE Beside(d, d)
BY DEF Beside, Stands

LEMMA RecordedBeside ==
  ASSUME NEW d, IsDb(d), NEW row
  PROVE  Beside(Recorded(d, row), d) /\ Recorded(d, row).ledger = d.ledger
BY Columns, BesideSelf DEF Recorded

LEMMA AssignBeside ==
  ASSUME NEW d, IsDb(d)
  PROVE  Beside(AssignUnlinked(d), d) /\ AssignUnlinked(d).ledger = d.ledger
BY Columns DEF AssignUnlinked

LEMMA EnteredBeside ==
  ASSUME NEW d, IsDb(d), NEW key, NEW cents
  PROVE  /\ Beside(Entered(d, key, cents), d)
         /\ Entered(d, key, cents).ledger = d.ledger \cup {[key |-> key, cents |-> cents]}
BY Columns DEF Entered

-----------------------------------------------------------------------------
(* The wallet's ledger has a row per key.                                  *)

Once(d) == \A l, m \in d.ledger : l.key = m.key => l = m
Follows(x, d) == Beside(x, d) /\ (Once(d) => Once(x))

LEMMA EnteredOnce ==
  ASSUME NEW d, IsDb(d), NEW key, ~HasEntry(d, key), NEW cents
  PROVE  Follows(Entered(d, key, cents), d)
BY EnteredBeside DEF Follows, Once, HasEntry

LEMMA SameLedger ==
  ASSUME NEW d, NEW x, Beside(x, d), x.ledger = d.ledger
  PROVE  Follows(x, d)
BY DEF Follows, Once

LEMMA FollowsTrans ==
  ASSUME NEW d, NEW x, NEW y, Follows(x, d), Follows(y, x)
  PROVE  Follows(y, d)
BY DEF Follows, Beside, Stands

LEMMA CreditFollows ==
  ASSUME NEW d, IsDb(d), NEW k
  PROVE  Follows(CreditPrepaidTopUp(d, k), d)
BY EnteredOnce, BesideSelf, SameLedger DEF CreditPrepaidTopUp

LEMMA ClawbackFollows ==
  ASSUME NEW d, IsDb(d), NEW key, NEW cents
  PROVE  Follows(ClawbackPrepaidCredits(d, key, cents), d)
BY EnteredOnce, BesideSelf, SameLedger DEF ClawbackPrepaidCredits

\* The states an event leads through that is not about a subscription.
LEMMA TopUpFollows ==
  ASSUME NEW d, IsDb(d), NEW k, NEW x \in Range(TopUpWrites(d, k))
  PROVE  Follows(x, d)
<1> DEFINE d1 == [d EXCEPT !.linked = TRUE]
<1>1. IsDb(d1) /\ Follows(d1, d)
  BY Columns, SameLedger DEF Beside
<1>2. Follows(d, d)
  BY BesideSelf, SameLedger
<1>3. Follows(CreditPrepaidTopUp(d1, k), d)
  <2> HIDE DEF d1
  <2> QED BY <1>1, CreditFollows, FollowsTrans
<1>4. TopUpWrites(d, k) = <<d, d1, CreditPrepaidTopUp(d1, k)>>
  BY DEF TopUpWrites
<1> HIDE DEF d1
<1>5. x \in {d, d1, CreditPrepaidTopUp(d1, k)}
  BY <1>4 DEF Range
<1> QED BY <1>1, <1>2, <1>3, <1>5

LEMMA InvoiceFollows ==
  ASSUME NEW d, IsDb(d), NEW n, NEW c, NEW cents, NEW x \in Range(InvoiceWrites(d, n, c, cents))
  PROVE  Follows(x, d)
<1> DEFINE row == RowOf("invoice", KeyOf("event", c, n), c, cents, d.linked)
<1>1. x \in {d, Recorded(d, row)}
  <2> HIDE DEF row
  <2>1. InvoiceWrites(d, n, c, cents) = <<d, Recorded(d, row)>>
    BY DEF InvoiceWrites, row
  <2> QED BY <2>1 DEF Range
<1> HIDE DEF row
<1> QED BY <1>1, BesideSelf, RecordedBeside, SameLedger

LEMMA RefundFollows ==
  ASSUME NEW d, IsDb(d), NEW n, NEW c, NEW total, NEW x \in Range(RefundWrites(d, n, c, total))
  PROVE  Follows(x, d)
<1> DEFINE delta == RefundDelta(d, c, total)
           row == RowOf("refund", KeyOf("event", c, n), c, delta, d.linked)
           d1 == Recorded(d, row)
           d2 == ClawbackPrepaidCredits(d1, KeyOf("refund", c, n), delta)
<1>1. RefundWrites(d, n, c, total) \in {<<d>>, <<d, d1>>, <<d, d1, d2>>}
  BY DEF RefundWrites
<1> HIDE DEF delta, row
<1>2. Follows(d, d) /\ Follows(d1, d) /\ IsDb(d1)
  BY BesideSelf, RecordedBeside, SameLedger DEF Beside
<1> HIDE DEF d1
<1>3. Follows(d2, d)
  BY <1>2, ClawbackFollows, FollowsTrans
<1> HIDE DEF d2
<1>4. x \in {d, d1, d2}
  BY <1>1 DEF Range
<1> QED BY <1>2, <1>3, <1>4

LEMMA DisputeFollows ==
  ASSUME NEW d, IsDb(d), NEW c, NEW cents, NEW x \in Range(DisputeWrites(d, c, cents))
  PROVE  Follows(x, d)
<1> DEFINE d1 == ClawbackPrepaidCredits(d, KeyOf("dispute", c, 0), cents)
<1>1. DisputeWrites(d, c, cents) \in {<<d>>, <<d, d1>>}
  BY DEF DisputeWrites
<1>2. Follows(d, d) /\ Follows(d1, d)
  BY BesideSelf, SameLedger, ClawbackFollows
<1> HIDE DEF d1
<1>3. x \in {d, d1}
  BY <1>1 DEF Range
<1> QED BY <1>2, <1>3

-----------------------------------------------------------------------------
(* Statements about a subscription.                                        *)

\* From d to x the paid plan is lost only on word about the subscription of d,
\* which was not active at some time (H), or for the one a checkout gives (G).
Falls(d, x) == GetTenantPlan(d) # "free" /\ GetTenantPlan(x) = "free"
OwnWord(d, x, H) == Falls(d, x) => d.sub = NoSub \/ (x.sub = d.sub /\ d.sub \in H)

LEMMA StandsNoFall ==
  ASSUME NEW d, NEW x, Stands(x, d)
  PROVE  ~Falls(d, x)
BY DEF Stands, Falls, GetTenantPlan

LEMMA WithPlanDb ==
  ASSUME NEW d, IsDb(d), NEW p \in Paid \cup {"free"}
  PROVE  /\ IsDb(WithPlan(d, p)) /\ WithPlan(d, p).plan = p
         /\ WithPlan(d, p).sub = d.sub /\ WithPlan(d, p).status = d.status
         /\ WithPlan(d, p).ledger = d.ledger
BY DEF IsDb, WithPlan, Fields

LEMMA SetBillingDb ==
  ASSUME NEW d, IsDb(d), NEW s \in Sub, NEW status \in Status
  PROVE  /\ IsDb(SetTenantBilling(d, s, status)) /\ SetTenantBilling(d, s, status).plan = d.plan
         /\ SetTenantBilling(d, s, status).sub = s /\ SetTenantBilling(d, s, status).status = status
         /\ SetTenantBilling(d, s, status).ledger = d.ledger
BY DEF IsDb, SetTenantBilling, Fields

LEMMA PaidPlans == ASSUME NEW s \in Sub PROVE PlanOf[s] \in Paid /\ PlanOf[s] # "free"
BY PlanAssumption DEF Paid

\* A plan that is unlocked: no status on the way there takes it away.
LEMMA UnlockedStays ==
  ASSUME NEW d, IsDb(d), NEW s \in Sub
  PROVE  ~Falls(d, WithPlan(d, PlanOf[s]))
BY WithPlanDb, PaidPlans DEF Falls, GetTenantPlan

LEMMA SubscriptionWord ==
  ASSUME NEW d, IsDb(d), NEW e, e.on \in Sub, e.status \in Status,
         NEW H, e.status # "active" => e.on \in H,
         NEW x \in Range(SubscriptionWrites(d, e))
  PROVE  IsDb(x) /\ x.ledger = d.ledger /\ OwnWord(d, x, H)
<1> DEFINE d1 == WithPlan(d, PlanFor(e.on, e.status))
           d2 == SetTenantBilling(d1, e.on, e.status)
           d3 == AssignUnlinked(d2)
<1>1. CASE ~IsCurrentSubscription(d, e.on)
  <2>1. SubscriptionWrites(d, e) = <<d>>
    BY <1>1 DEF SubscriptionWrites
  <2> QED BY <2>1 DEF Range, OwnWord, Falls
<1>2. CASE IsCurrentSubscription(d, e.on)
  <2>1. SubscriptionWrites(d, e) = <<d, d1, d2, d3>>
    BY <1>2 DEF SubscriptionWrites
  <2>2. PlanFor(e.on, e.status) \in Paid \cup {"free"}
    BY PaidPlans DEF PlanFor
  <2>3. IsDb(d1) /\ d1.plan = PlanFor(e.on, e.status) /\ d1.sub = d.sub /\ d1.status = d.status
        /\ d1.ledger = d.ledger
    BY <2>2, WithPlanDb
  <2> HIDE DEF d1
  <2>4. IsDb(d2) /\ d2.plan = d1.plan /\ d2.sub = e.on /\ d2.status = e.status /\ d2.ledger = d.ledger
    BY <2>3, SetBillingDb
  <2> HIDE DEF d2
  <2>5. IsDb(d3) /\ d3.plan = d1.plan /\ d3.sub = e.on /\ d3.status = e.status /\ d3.ledger = d.ledger
    BY <2>4, AssignBeside DEF Beside, Stands
  <2> HIDE DEF d3
  <2>6. d.sub \in {NoSub, e.on}
    BY <1>2 DEF IsCurrentSubscription
  <2>7. CASE e.status = "active"
    <3>1. d1.plan # "free"
      BY <2>3, <2>7, PaidPlans DEF PlanFor, Unlocks
    <3>2. ~Falls(d, d1) /\ ~Falls(d, d2) /\ ~Falls(d, d3)
      BY <2>3, <2>4, <2>5, <2>7, <3>1 DEF Falls, GetTenantPlan, Unlocks
    <3>3. ~Falls(d, d)
      BY DEF Falls
    <3>4. x \in {d, d1, d2, d3}
      BY <2>1 DEF Range
    <3> QED BY <2>3, <2>4, <2>5, <3>2, <3>3, <3>4 DEF OwnWord
  <2>8. CASE e.status # "active"
    <3>1. x \in {d, d1, d2, d3}
      BY <2>1 DEF Range
    <3> QED BY <2>3, <2>4, <2>5, <2>6, <2>8, <3>1 DEF OwnWord
  <2> QED BY <2>7, <2>8
<1> QED BY <1>1, <1>2

LEMMA DeletedWord ==
  ASSUME NEW d, IsDb(d), NEW e, e.on \in Sub, e.status \in Status, NEW H, e.on \in H,
         NEW x \in Range(DeletedWrites(d, e))
  PROVE  IsDb(x) /\ x.ledger = d.ledger /\ OwnWord(d, x, H)
<1> DEFINE d1 == WithPlan(d, "free")
           d2 == [d1 EXCEPT !.sub = e.on, !.status = e.status]
<1>1. CASE ~IsCurrentSubscription(d, e.on)
  <2>1. DeletedWrites(d, e) = <<d>>
    BY <1>1 DEF DeletedWrites
  <2> QED BY <2>1 DEF Range, OwnWord, Falls
<1>2. CASE IsCurrentSubscription(d, e.on)
  <2>1. DeletedWrites(d, e) = <<d, d1, d2>>
    BY <1>2 DEF DeletedWrites
  <2>2. IsDb(d1) /\ d1.sub = d.sub /\ d1.ledger = d.ledger
    BY WithPlanDb
  <2> HIDE DEF d1
  <2>3. IsDb(d2) /\ d2.sub = e.on /\ d2.ledger = d.ledger
    BY <2>2 DEF IsDb, Fields
  <2> HIDE DEF d2
  <2>4. d.sub \in {NoSub, e.on} /\ x \in {d, d1, d2}
    BY <1>2, <2>1 DEF IsCurrentSubscription, Range
  <2> QED BY <2>2, <2>3, <2>4 DEF OwnWord
<1> QED BY <1>1, <1>2

LEMMA CheckoutWord ==
  ASSUME NEW d, IsDb(d), NEW s \in Sub, NEW status \in Status,
         NEW x \in Range(CheckoutWrites(d, s, status))
  PROVE  /\ IsDb(x) /\ x.ledger = d.ledger
         /\ Falls(d, x) => x.sub = s /\ status # "active"
<1> DEFINE d1 == IF Unlocks(status) THEN WithPlan(d, PlanOf[s]) ELSE d
           d2 == SetTenantBilling(d1, s, status)
           d3 == AssignUnlinked(d2)
<1>1. CheckoutWrites(d, s, status) = <<d, d1, d2, d3>>
  BY DEF CheckoutWrites
<1>2. IsDb(d1) /\ d1.ledger = d.ledger /\ ~Falls(d, d1)
      /\ (status = "active" => d1.plan # "free")
  BY WithPlanDb, PaidPlans, UnlockedStays DEF Unlocks, Falls
<1> HIDE DEF d1
<1>3. IsDb(d2) /\ d2.plan = d1.plan /\ d2.sub = s /\ d2.status = status /\ d2.ledger = d.ledger
  BY <1>2, SetBillingDb
<1> HIDE DEF d2
<1>4. IsDb(d3) /\ d3.plan = d1.plan /\ d3.sub = s /\ d3.status = status /\ d3.ledger = d.ledger
  BY <1>3, AssignBeside DEF Beside, Stands
<1> HIDE DEF d3
<1>5. x \in {d, d1, d2, d3}
  BY <1>1 DEF Range
<1>6. ~Falls(d, d)
  BY DEF Falls
<1>7. status = "active" => ~Falls(d, d2) /\ ~Falls(d, d3)
  BY <1>2, <1>3, <1>4 DEF Falls, GetTenantPlan, Unlocks
<1> QED BY <1>2, <1>3, <1>4, <1>5, <1>6, <1>7

-----------------------------------------------------------------------------
(* The last state of a list of statements is one of them.                  *)

LEMMA LastOfTuple ==
  ASSUME NEW a, NEW b, NEW c, NEW d
  PROVE  /\ Last(<<a>>) \in Range(<<a>>)
         /\ Last(<<a, b>>) \in Range(<<a, b>>)
         /\ Last(<<a, b, c>>) \in Range(<<a, b, c>>)
         /\ Last(<<a, b, c, d>>) \in Range(<<a, b, c, d>>)
BY DEF Last, Range

LEMMA LastWrites ==
  ASSUME NEW n
  PROVE  Last(Writes(n)) \in Range(Writes(n))
<1> DEFINE e == sent[n]
<1>1. Last(SubscriptionWrites(db, e)) \in Range(SubscriptionWrites(db, e))
  BY LastOfTuple DEF SubscriptionWrites
<1>2. Last(DeletedWrites(db, e)) \in Range(DeletedWrites(db, e))
  BY LastOfTuple DEF DeletedWrites
<1>3. Last(TopUpWrites(db, e.on)) \in Range(TopUpWrites(db, e.on))
  BY LastOfTuple DEF TopUpWrites
<1>4. Last(InvoiceWrites(db, n, e.on, e.cents)) \in Range(InvoiceWrites(db, n, e.on, e.cents))
  BY LastOfTuple DEF InvoiceWrites
<1>5. Last(RefundWrites(db, n, e.on, e.cents)) \in Range(RefundWrites(db, n, e.on, e.cents))
  BY LastOfTuple DEF RefundWrites
<1>6. Last(DisputeWrites(db, e.on, e.cents)) \in Range(DisputeWrites(db, e.on, e.cents))
  BY LastOfTuple DEF DisputeWrites
<1>7. Last(<<db>>) \in Range(<<db>>)
  BY LastOfTuple
<1>8. Writes(n) \in {SubscriptionWrites(db, e), DeletedWrites(db, e), TopUpWrites(db, e.on),
                    InvoiceWrites(db, n, e.on, e.cents), RefundWrites(db, n, e.on, e.cents),
                    DisputeWrites(db, e.on, e.cents), <<db>>}
  BY DEF Writes
<1> QED BY <1>1, <1>2, <1>3, <1>4, <1>5, <1>6, <1>7, <1>8

-----------------------------------------------------------------------------
(* What Stripe said of a subscription, and what it is.                     *)

Truthful(e) ==
  /\ e.type \in {"created", "updated", "deleted", "checkout"} => e.on \in Sub
  /\ e.type \in {"created", "updated"} /\ e.status # "active" => e.on \in lapsed
  /\ e.type = "deleted" => e.on \in lapsed
  /\ e.type = "checkout" => stripe[e.on] # "none"

Stripe ==
  /\ story \in Story /\ told \in 0..Len(story.acts)
  /\ stripe \in [Sub -> {"none", "active", "past_due", "canceled"}]
  /\ refunds \in [Charge -> Seq(Nat)]
  /\ \A s \in Sub : stripe[s] \in {"past_due", "canceled"} => s \in lapsed
  /\ sent \in Seq(Event)
  /\ \A n \in 1..Len(sent) : Truthful(sent[n])

Claims ==
  /\ claim \in [Id -> {"free", "done"} \cup Open]
  /\ prior \in [Id -> Sub \cup {NoSub}]
  /\ \A n \in Id : claim[n] \in Open => n <= Len(sent) /\ sent[n].type = "checkout"
  /\ \A n \in Id : claim[n] = "cancelling" => prior[n] \in Sub

Inv == Stripe /\ Claims /\ IsDb(db) /\ Once(db)

LEMMA InitInv == Init => Inv
<1> SUFFICES ASSUME Init PROVE Inv
  OBVIOUS
<1>1. IsDb(db)
  BY DEF Init, IsDb, Fields, Status
<1>2. Stripe
  BY DEF Init, Stripe
<1>3. Claims
  BY DEF Init, Claims, Open
<1>4. Once(db)
  BY DEF Init, Once
<1> QED BY <1>1, <1>2, <1>3, <1>4 DEF Inv

\* Every event a handler is given is one Stripe sent.
LEMMA Given ==
  ASSUME Inv, NEW n \in Id, n <= Len(sent)
  PROVE  sent[n] \in Event /\ Truthful(sent[n])
<1>1. n \in 1..Len(sent)
  BY DEF Id, Inv, Stripe
<1> QED BY <1>1 DEF Inv, Stripe

LEMMA WritesWord ==
  ASSUME Inv, NEW n \in Id, n <= Len(sent), NEW x \in Range(Writes(n))
  PROVE  IsDb(x) /\ Once(x) /\ OwnWord(db, x, lapsed)
<1> DEFINE e == sent[n]
<1>1. e \in Event /\ Truthful(e) /\ IsDb(db) /\ Once(db)
  BY Given DEF Inv
<1>2. ASSUME Follows(x, db) PROVE IsDb(x) /\ Once(x) /\ OwnWord(db, x, lapsed)
  BY <1>1, <1>2, StandsNoFall DEF Follows, Beside, OwnWord
<1>3. ASSUME x.ledger = db.ledger PROVE Once(x)
  BY <1>1, <1>3 DEF Once
<1>4. e.status \in Status
  BY <1>1 DEF Event
<1> HIDE DEF e
<1>5. CASE e.type \in {"created", "updated"}
  <2>1. x \in Range(SubscriptionWrites(db, e))
    BY <1>5 DEF Writes, e
  <2>2. e.on \in Sub /\ (e.status # "active" => e.on \in lapsed)
    BY <1>1, <1>5 DEF Truthful
  <2> QED BY <1>1, <1>3, <1>4, <2>1, <2>2, SubscriptionWord
<1>6. CASE e.type = "deleted"
  <2>1. x \in Range(DeletedWrites(db, e))
    BY <1>6 DEF Writes, e
  <2>2. e.on \in Sub /\ e.on \in lapsed
    BY <1>1, <1>6 DEF Truthful
  <2> QED BY <1>1, <1>3, <1>4, <2>1, <2>2, DeletedWord
<1>7. CASE e.type = "topUp"
  <2>1. x \in Range(TopUpWrites(db, e.on))
    BY <1>7 DEF Writes, e
  <2> QED BY <1>1, <1>2, <2>1, TopUpFollows
<1>8. CASE e.type = "invoice"
  <2>1. x \in Range(InvoiceWrites(db, n, e.on, e.cents))
    BY <1>8 DEF Writes, e
  <2> QED BY <1>1, <1>2, <2>1, InvoiceFollows
<1>9. CASE e.type = "refund"
  <2>1. x \in Range(RefundWrites(db, n, e.on, e.cents))
    BY <1>9 DEF Writes, e
  <2> QED BY <1>1, <1>2, <2>1, RefundFollows
<1>10. CASE e.type = "dispute"
  <2>1. x \in Range(DisputeWrites(db, e.on, e.cents))
    BY <1>10 DEF Writes, e
  <2> QED BY <1>1, <1>2, <2>1, DisputeFollows
<1>11. CASE e.type = "checkout"
  <2>1. x \in Range(<<db>>)
    BY <1>11 DEF Writes, e
  <2>2. x = db
    BY <2>1 DEF Range
  <2> QED BY <1>1, <2>2 DEF OwnWord, Falls
<1> QED BY <1>1, <1>5, <1>6, <1>7, <1>8, <1>9, <1>10, <1>11 DEF Event

\* A step of the rows, or of nothing, under claims that stay what they are.
LEMMA RowsInv ==
  ASSUME Inv, UNCHANGED <<stripeVars, sent, lapsed>>, Claims', IsDb(db'), Once(db')
  PROVE  Inv'
BY DEF Inv, Stripe, stripeVars, Truthful, IsDb, Once

LEMMA SameClaims ==
  ASSUME Inv, UNCHANGED <<sent, claim, prior>>
  PROVE  Claims'
BY DEF Inv, Claims

-----------------------------------------------------------------------------
(* Stripe's own steps.                                                     *)

LEMMA Sends ==
  ASSUME Inv, UNCHANGED <<claim, prior, db>>, NEW k \in Seq(Event), sent' = sent \o k,
         lapsed \subseteq lapsed',
         story' \in Story, told' \in 0..Len(story'.acts),
         stripe' \in [Sub -> {"none", "active", "past_due", "canceled"}],
         \A s \in Sub : stripe[s] # "none" => stripe'[s] # "none",
         refunds' \in [Charge -> Seq(Nat)],
         \A s \in Sub : stripe'[s] \in {"past_due", "canceled"} => s \in lapsed',
         \A n \in 1..Len(k) : Truthful(k[n])'
  PROVE  Inv'
<1>1. sent \in Seq(Event)
  BY DEF Inv, Stripe
<1>2. sent' \in Seq(Event) /\ Len(sent') = Len(sent) + Len(k)
  BY <1>1
<1>3. \A n \in 1..Len(sent) : sent'[n] = sent[n] /\ n \in 1..Len(sent')
  BY <1>1
<1>4. ASSUME NEW n \in 1..Len(sent') PROVE Truthful(sent[n])'
  <2>1. CASE n <= Len(sent)
    <3>1. n \in 1..Len(sent)
      BY <1>1, <2>1
    <3>2. Truthful(sent[n]) /\ sent'[n] = sent[n]
      BY <1>3, <3>1 DEF Inv, Stripe
    <3> QED BY <3>2 DEF Truthful
  <2>2. CASE n > Len(sent)
    <3>1. n - Len(sent) \in 1..Len(k)
      BY <1>1, <1>2, <2>2
    <3>2. sent'[n] = k[n - Len(sent)]
      BY <1>1, <1>2, <2>2
    <3> QED BY <3>1, <3>2 DEF Truthful
  <2> QED BY <1>1, <1>2, <2>1, <2>2
<1>5. Stripe'
  BY <1>2, <1>4 DEF Stripe
<1>6. Claims'
  <2>1. ASSUME NEW n \in Id, claim[n] \in Open PROVE n <= Len(sent)' /\ sent'[n].type = "checkout"
    <3>1. n <= Len(sent) /\ sent[n].type = "checkout"
      BY <2>1 DEF Inv, Claims
    <3>2. n \in 1..Len(sent)
      BY <1>1, <3>1 DEF Id
    <3> QED BY <1>1, <1>2, <1>3, <3>1, <3>2
  <2> QED BY <2>1 DEF Inv, Claims
<1> QED BY <1>5, <1>6 DEF Inv, IsDb, Once

LEMMA SaidEvent ==
  ASSUME NEW type \in {"created", "updated", "deleted", "checkout", "topUp", "refund", "invoice", "dispute"},
         NEW on \in Charge, NEW status \in Status, NEW cents \in Nat
  PROVE  Said(type, on, status, cents) \in Event
BY DEF Said, Event

LEMMA RefundedNat ==
  ASSUME Inv, NEW c \in Charge
  PROVE  RefundedAt(c) \in Nat
<1>1. refunds[c] \in Seq(Nat)
  BY DEF Inv, Stripe
<1>2. CASE refunds[c] = <<>>
  BY <1>2 DEF RefundedAt
<1>3. CASE refunds[c] # <<>>
  <2>1. Len(refunds[c]) \in 1..Len(refunds[c])
    BY <1>1, <1>3
  <2>2. refunds[c][Len(refunds[c])] \in Nat
    BY <1>1, <2>1
  <2> QED BY <1>3, <2>2 DEF RefundedAt, Last
<1> QED BY <1>2, <1>3

\* A change of a subscription's status.
LEMMA TurnsInv ==
  ASSUME Inv, NEW s \in Sub, NEW status, NEW type,
         <<status, type>> \in {<<"past_due", "updated">>, <<"active", "updated">>, <<"canceled", "deleted">>},
         Turns(s, status, type), UNCHANGED <<story, refunds, claim, prior, db>>,
         told' \in 0..Len(story.acts)
  PROVE  Inv'
<1> DEFINE e == Said(type, s, status, 0)
<1>1. CASE stripe[s] \in {"active", "past_due"} \ {status}
  <2>1. /\ stripe' = [stripe EXCEPT ![s] = status] /\ sent' = Append(sent, e)
        /\ lapsed' = IF status = "active" THEN lapsed ELSE lapsed \cup {s}
    BY <1>1 DEF Turns
  <2>2. <<e>> \in Seq(Event) /\ Len(<<e>>) = 1 /\ <<e>>[1] = e
    <3>1. e \in Event
      BY SaidEvent DEF Charge, Status
    <3> HIDE DEF e
    <3> QED BY <3>1
  <2>3. sent' = sent \o <<e>>
    <3>1. sent \in Seq(Event) /\ e \in Event
      BY SaidEvent DEF Charge, Status, Inv, Stripe
    <3> HIDE DEF e
    <3> QED BY <2>1, <3>1
  <2>4. Truthful(e)'
    BY <2>1 DEF Truthful, Said
  <2>5. stripe' \in [Sub -> {"none", "active", "past_due", "canceled"}]
    BY <2>1 DEF Inv, Stripe
  <2>6. \A r \in Sub : stripe'[r] \in {"past_due", "canceled"} => r \in lapsed'
    BY <2>1 DEF Inv, Stripe
  <2>7. \A r \in Sub : stripe[r] # "none" => stripe'[r] # "none"
    BY <2>1 DEF Inv, Stripe
  <2>8. story' \in Story /\ told' \in 0..Len(story'.acts) /\ refunds' \in [Charge -> Seq(Nat)]
        /\ lapsed \subseteq lapsed'
    BY <2>1 DEF Inv, Stripe
  <2>9. \A n \in 1..Len(<<e>>) : Truthful(<<e>>[n])'
    BY <2>2, <2>4
  <2> HIDE DEF e
  <2> QED BY <2>2, <2>3, <2>5, <2>6, <2>7, <2>8, <2>9, Sends
<1>2. CASE stripe[s] \notin {"active", "past_due"} \ {status}
  <2>1. UNCHANGED <<stripe, sent, lapsed>>
    BY <1>2 DEF Turns
  <2> QED BY <2>1 DEF Inv, Stripe, Claims, Truthful, IsDb, Once
<1> QED BY <1>1, <1>2

LEMMA ActOf ==
  ASSUME Inv, told < Len(story.acts)
  PROVE  /\ story.acts[told + 1] \in Act
         /\ story.acts[told + 1].do \in {"subscribe", "lapse", "recover", "cancel"}
              => story.acts[told + 1].on \in Sub
         /\ told + 1 \in 0..Len(story.acts)
<1>1. IsStory(story) /\ told \in 0..Len(story.acts)
  BY StoryAssumption DEF Inv, Stripe
<1>2. story.acts \in Seq(Act)
  BY <1>1 DEF IsStory
<1>3. told + 1 \in 1..Len(story.acts) /\ told + 1 \in DOMAIN story.acts /\ told + 1 \in 0..Len(story.acts)
  BY <1>1, <1>2
<1> QED BY <1>1, <1>2, <1>3 DEF IsStory

LEMMA HappensInv == ASSUME Inv, Happens PROVE Inv'
<1>1. /\ told < Len(story.acts) /\ told' = told + 1
      /\ UNCHANGED <<story, claim, prior, db>>
  BY DEF Happens
<1>2. PICK a \in Act : a = story.acts[told + 1]
  BY <1>1, ActOf
<1>0. /\ a.do \in {"subscribe", "lapse", "recover", "cancel"} => a.on \in Sub
      /\ told' \in 0..Len(story.acts)
  BY <1>1, <1>2, ActOf
<1>3. \/ a.do = "subscribe" /\ Subscribes(a.on) /\ UNCHANGED refunds
      \/ a.do = "lapse" /\ Turns(a.on, "past_due", "updated") /\ UNCHANGED refunds
      \/ a.do = "recover" /\ Turns(a.on, "active", "updated") /\ UNCHANGED refunds
      \/ a.do = "cancel" /\ Turns(a.on, "canceled", "deleted") /\ UNCHANGED refunds
      \/ a.do = "refund" /\ Refunds(a.on, a.cents)
      \/ /\ a.do \in {"topUp", "invoice", "dispute"}
         /\ sent' = Append(sent, Said(a.do, a.on, "none", a.cents))
         /\ UNCHANGED <<stripe, refunds, lapsed>>
  BY <1>2 DEF Happens
<1>4. a.on \in Charge /\ a.cents \in Nat
  BY <1>2 DEF Act
<1>5. Stripe /\ sent \in Seq(Event) /\ story' \in Story /\ told' \in 0..Len(story'.acts)
  BY <1>0, <1>1 DEF Inv, Stripe
<1>6. CASE a.do \in {"lapse", "recover", "cancel"}
  BY <1>0, <1>1, <1>3, <1>6, TurnsInv
<1>7. CASE a.do = "subscribe"
  <2> DEFINE e1 == Said("created", a.on, "active", 0)
             e2 == Said("checkout", a.on, "active", 0)
  <2>1. a.on \in Sub
    BY <1>0, <1>7
  <2>2. stripe' = [stripe EXCEPT ![a.on] = "active"] /\ sent' = sent \o <<e1, e2>>
        /\ UNCHANGED <<lapsed, refunds>>
    BY <1>3, <1>7 DEF Subscribes
  <2>3. e1 \in Event /\ e2 \in Event
    BY <1>4, SaidEvent DEF Status
  <2>4. Truthful(e1)' /\ Truthful(e2)'
    BY <1>5, <2>1, <2>2 DEF Truthful, Said, Stripe
  <2> HIDE DEF e1, e2
  <2>5. <<e1, e2>> \in Seq(Event) /\ \A n \in 1..Len(<<e1, e2>>) : Truthful(<<e1, e2>>[n])'
    BY <2>3, <2>4
  <2>6. /\ stripe' \in [Sub -> {"none", "active", "past_due", "canceled"}]
        /\ \A s \in Sub : stripe[s] # "none" => stripe'[s] # "none"
        /\ \A s \in Sub : stripe'[s] \in {"past_due", "canceled"} => s \in lapsed'
        /\ refunds' \in [Charge -> Seq(Nat)] /\ lapsed \subseteq lapsed'
    BY <1>5, <2>1, <2>2 DEF Stripe
  <2> QED BY <1>1, <1>5, <2>2, <2>5, <2>6, Sends
<1>8. CASE a.do \in {"refund", "topUp", "invoice", "dispute"}
  <2>1. PICK cents \in Nat : sent' = Append(sent, Said(a.do, a.on, "none", cents))
    BY <1>3, <1>4, <1>8, RefundedNat DEF Refunds
  <2> DEFINE e == Said(a.do, a.on, "none", cents)
  <2>2. e \in Event
    BY <1>4, <1>8, SaidEvent DEF Status
  <2>3. Truthful(e)'
    BY <1>8 DEF Truthful, Said
  <2>4. UNCHANGED <<stripe, lapsed>>
    BY <1>3, <1>8 DEF Refunds
  <2>5. refunds' \in [Charge -> Seq(Nat)]
    <3>1. CASE a.do = "refund"
      <4>1. refunds' = [refunds EXCEPT ![a.on] = Append(refunds[a.on], RefundedAt(a.on) + a.cents)]
        BY <1>3, <3>1 DEF Refunds
      <4>2. Append(refunds[a.on], RefundedAt(a.on) + a.cents) \in Seq(Nat)
        BY <1>4, <1>5, RefundedNat DEF Stripe
      <4> QED BY <1>5, <4>1, <4>2 DEF Stripe
    <3>2. CASE a.do # "refund"
      BY <1>3, <1>5, <1>8, <3>2 DEF Stripe
    <3> QED BY <3>1, <3>2
  <2> HIDE DEF e
  <2>6. <<e>> \in Seq(Event) /\ \A n \in 1..Len(<<e>>) : Truthful(<<e>>[n])'
    BY <2>2, <2>3
  <2>7. sent' = sent \o <<e>>
    BY <1>5, <2>1, <2>2 DEF e
  <2> QED BY <1>1, <1>5, <2>4, <2>5, <2>6, <2>7, Sends DEF Stripe
<1> QED BY <1>2, <1>6, <1>7, <1>8 DEF Act

-----------------------------------------------------------------------------
(* The processor's steps: each keeps the invariant and takes a paid plan   *)
(* away on the subscription's own word only.                               *)

Word ==
  GetTenantPlan(db) # "free" /\ GetTenantPlan(db') = "free" =>
    \/ db.sub = NoSub
    \/ db'.sub = db.sub /\ db.sub \in lapsed
    \/ Recording(db'.sub) /\ db'.sub \in lapsed \cup blind'

LEMMA NoFallWord == ASSUME IsDb(db), Beside(db', db) \/ UNCHANGED db PROVE Word
BY DEF Word, Beside, Stands, GetTenantPlan

LEMMA ProcessStep == ASSUME Inv, NEW n \in Id, Process(n) PROVE Inv' /\ Word
<1>1. /\ n <= Len(sent) /\ db' = Last(Writes(n)) /\ claim' = [claim EXCEPT ![n] = "done"]
      /\ UNCHANGED <<stripeVars, sent, prior, lapsed>>
  BY DEF Process, Delivered
<1>2. db' \in Range(Writes(n))
  BY <1>1, LastWrites
<1>3. IsDb(db') /\ Once(db') /\ OwnWord(db, db', lapsed)
  BY <1>1, <1>2, WritesWord
<1>4. Claims'
  BY <1>1 DEF Inv, Claims, Open
<1>5. Inv'
  BY <1>1, <1>3, <1>4, RowsInv
<1> QED BY <1>3, <1>5 DEF OwnWord, Falls, Word

LEMMA StartStep == ASSUME Inv, NEW n \in Id, StartCheckout(n) PROVE Inv' /\ Word
<1>1. /\ n <= Len(sent) /\ sent[n].type = "checkout"
      /\ prior' = [prior EXCEPT ![n] = db.sub]
      /\ claim' = [claim EXCEPT ![n] =
           IF IsCurrentSubscription(db, sent[n].on) THEN "retrieving" ELSE "cancelling"]
      /\ UNCHANGED <<stripeVars, sent, db, lapsed>>
  BY DEF StartCheckout, Delivered
<1>2. db.sub \in Sub \cup {NoSub} /\ IsDb(db) /\ Once(db)
  BY DEF Inv, IsDb
<1>3. ~IsCurrentSubscription(db, sent[n].on) => db.sub \in Sub
  BY <1>2 DEF IsCurrentSubscription
<1>4. Claims'
  BY <1>1, <1>2, <1>3 DEF Inv, Claims, Open
<1>5. Inv'
  BY <1>1, <1>2, <1>4, RowsInv DEF IsDb, Once
<1> QED BY <1>1, <1>2, <1>5, NoFallWord

\* What a cancellation at Stripe does, whether or not its answer arrives.
LEMMA TurnedClaims ==
  ASSUME Inv, NEW n \in Id, claim[n] = "cancelling",
         NEW to \in {"retrieving", "free"}, claim' = [claim EXCEPT ![n] = to],
         prior' = [prior EXCEPT ![n] = NoSub], UNCHANGED sent
  PROVE  Claims'
BY DEF Inv, Claims, Open

LEMMA CancelStep == ASSUME Inv, NEW n \in Id, CancelSubscription(n) PROVE Inv' /\ Word
<1>1. /\ claim[n] = "cancelling" /\ prior' = [prior EXCEPT ![n] = NoSub]
      /\ UNCHANGED <<story, told, refunds, db>>
      /\ Turns(prior[n], "canceled", "deleted") \/ UNCHANGED <<stripe, sent, lapsed>>
      /\ \/ claim' = [claim EXCEPT ![n] = "retrieving"]
         \/ claim' = [claim EXCEPT ![n] = "free"]
  BY DEF CancelSubscription
<1>2. prior[n] \in Sub /\ IsDb(db) /\ Once(db) /\ Stripe /\ Claims
  BY <1>1 DEF Inv, Claims
<1>3. Word
  BY <1>1, <1>2, NoFallWord
<1>4. CASE UNCHANGED <<stripe, sent, lapsed>>
  <2>1. Claims'
    BY <1>1, <1>4, TurnedClaims
  <2> QED BY <1>1, <1>2, <1>3, <1>4, <2>1, RowsInv DEF stripeVars, IsDb, Once
<1>5. CASE Turns(prior[n], "canceled", "deleted") /\ ~UNCHANGED <<stripe, sent, lapsed>>
  <2> DEFINE s == prior[n]
  <2>1. /\ stripe[s] \in {"active", "past_due"}
        /\ stripe' = [stripe EXCEPT ![s] = "canceled"]
        /\ sent' = Append(sent, Said("deleted", s, "canceled", 0))
        /\ lapsed' = lapsed \cup {s}
    BY <1>5 DEF Turns
  <2>2. PICK e \in Event : e = Said("deleted", s, "canceled", 0)
    BY <1>2, SaidEvent DEF Charge, Status
  <2>3. e.type = "deleted" /\ e.on = s
    BY <2>2 DEF Said
  <2>4. sent \in Seq(Event) /\ sent' = Append(sent, e)
    BY <2>1, <2>2 DEF Inv, Stripe
  <2>5. /\ sent' \in Seq(Event) /\ Len(sent') = Len(sent) + 1 /\ sent'[Len(sent) + 1] = e
        /\ \A m \in 1..Len(sent) : sent'[m] = sent[m]
    BY <2>4
  <2>6. stripe' \in [Sub -> {"none", "active", "past_due", "canceled"}]
        /\ \A r \in Sub : stripe'[r] \in {"past_due", "canceled"} => r \in lapsed'
        /\ \A q \in Sub : stripe[q] # "none" => stripe'[q] # "none"
    BY <1>2, <2>1 DEF Stripe
  <2>7. ASSUME NEW m \in 1..Len(sent') PROVE Truthful(sent[m])'
    <3>1. CASE m = Len(sent) + 1
      BY <2>1, <2>3, <2>5, <1>2, <3>1 DEF Truthful
    <3>2. CASE m # Len(sent) + 1
      <4>1. m \in 1..Len(sent)
        BY <2>4, <2>5, <3>2
      <4>2. Truthful(sent[m]) /\ sent'[m] = sent[m]
        BY <1>2, <2>5, <4>1 DEF Stripe
      <4> QED BY <2>1, <2>6, <4>2 DEF Truthful
    <3> QED BY <3>1, <3>2
  <2>8. Stripe'
    BY <1>1, <1>2, <2>5, <2>6, <2>7 DEF Stripe
  <2>9. Claims'
    <3>1. ASSUME NEW m \in Id, claim'[m] \in Open PROVE m <= Len(sent') /\ sent'[m].type = "checkout"
      <4>1. claim[m] \in Open
        BY <1>1, <1>2, <3>1 DEF Claims, Open
      <4>2. m <= Len(sent) /\ sent[m].type = "checkout"
        BY <1>2, <4>1 DEF Claims
      <4>3. m \in 1..Len(sent)
        BY <2>4, <4>2 DEF Id
      <4> QED BY <2>4, <2>5, <4>2, <4>3
    <3>2. claim' \in [Id -> {"free", "done"} \cup Open] /\ prior' \in [Id -> Sub \cup {NoSub}]
      BY <1>1, <1>2 DEF Claims, Open
    <3>3. ASSUME NEW m \in Id, claim'[m] = "cancelling" PROVE prior'[m] \in Sub
      BY <1>1, <1>2, <3>3 DEF Claims, Open
    <3> QED BY <3>1, <3>2, <3>3 DEF Claims
  <2> QED BY <1>1, <1>2, <1>3, <2>8, <2>9 DEF Inv, IsDb, Once
<1> QED BY <1>1, <1>4, <1>5

\* The subscription a checkout is recording exists at Stripe.
LEMMA Retrieved ==
  ASSUME Inv, NEW n \in Id, claim[n] = "retrieving"
  PROVE  /\ sent[n].on \in Sub /\ stripe[sent[n].on] \in Status
         /\ stripe[sent[n].on] # "active" => sent[n].on \in lapsed
<1>1. n <= Len(sent) /\ sent[n].type = "checkout"
  BY DEF Inv, Claims, Open
<1>2. sent[n].on \in Sub /\ stripe[sent[n].on] # "none"
  BY <1>1, Given DEF Truthful
<1> QED BY <1>2 DEF Inv, Stripe, Status

LEMMA CheckoutRow ==
  ASSUME Inv, NEW n \in Id, claim[n] = "retrieving", claim'[n] # "retrieving", UNCHANGED sent,
         NEW status \in Status,
         status # "active" => sent[n].on \in lapsed \cup blind',
         db' \in Range(CheckoutWrites(db, sent[n].on, status))
  PROVE  IsDb(db') /\ Once(db') /\ Word
<1>1. sent[n].on \in Sub /\ IsDb(db) /\ Once(db)
  BY Retrieved DEF Inv
<1>2. /\ IsDb(db') /\ db'.ledger = db.ledger
      /\ Falls(db, db') => db'.sub = sent[n].on /\ status # "active"
  BY <1>1, CheckoutWord
<1>3. Recording(sent[n].on)
  BY DEF Recording
<1> QED BY <1>1, <1>2, <1>3 DEF Falls, Word, Once

LEMMA LastCheckout ==
  ASSUME NEW d, NEW s, NEW status
  PROVE  Last(CheckoutWrites(d, s, status)) \in Range(CheckoutWrites(d, s, status))
BY LastOfTuple DEF CheckoutWrites

LEMMA GetStep == ASSUME Inv, NEW n \in Id, GetSubscription(n) PROVE Inv' /\ Word
<1> DEFINE s == sent[n].on
<1>1. /\ claim[n] = "retrieving" /\ claim' = [claim EXCEPT ![n] = "done"]
      /\ UNCHANGED <<stripeVars, sent, prior, lapsed>>
      /\ \/ db' = Last(CheckoutWrites(db, s, stripe[s])) /\ UNCHANGED blind
         \/ db' = Last(CheckoutWrites(db, s, "complete")) /\ blind' = blind \cup {s}
  BY DEF GetSubscription
<1>2. Claims' /\ claim'[n] # "retrieving"
  BY <1>1 DEF Inv, Claims, Open
<1>3. "complete" \in Status /\ stripe[s] \in Status /\ (stripe[s] # "active" => s \in lapsed)
  BY <1>1, Retrieved DEF Status
<1>4. CASE db' = Last(CheckoutWrites(db, s, stripe[s])) /\ UNCHANGED blind
  <2>1. PICK status \in Status : status = stripe[s]
    BY <1>3
  <2>2. db' \in Range(CheckoutWrites(db, s, status))
    BY <1>4, <2>1, LastCheckout
  <2>3. status # "active" => s \in lapsed \cup blind'
    BY <1>3, <2>1
  <2>4. IsDb(db') /\ Once(db') /\ Word
    BY <1>1, <1>2, <2>2, <2>3, CheckoutRow
  <2> QED BY <1>1, <1>2, <2>4, RowsInv
<1>5. CASE db' = Last(CheckoutWrites(db, s, "complete")) /\ blind' = blind \cup {s}
  <2>1. db' \in Range(CheckoutWrites(db, s, "complete"))
    BY <1>5, LastCheckout
  <2>2. IsDb(db') /\ Once(db') /\ Word
    BY <1>1, <1>2, <1>3, <1>5, <2>1, CheckoutRow
  <2> QED BY <1>1, <1>2, <2>2, RowsInv
<1> QED BY <1>1, <1>4, <1>5

LEMMA SpendStep == ASSUME Inv, NEW r \in Run, Spend(r) PROVE Inv' /\ Word
<1>1. /\ ~HasEntry(db, KeyOf("run", r, 0)) /\ db' = Entered(db, KeyOf("run", r, 0), -1)
      /\ UNCHANGED <<stripeVars, sent, claim, prior, lapsed>>
  BY DEF Spend
<1>2. Follows(db', db)
  BY <1>1, EnteredOnce DEF Inv
<1>3. IsDb(db') /\ Once(db') /\ Word
  BY <1>2, NoFallWord DEF Inv, Follows, Beside
<1>4. Claims'
  BY <1>1, SameClaims
<1> QED BY <1>1, <1>3, <1>4, RowsInv

-----------------------------------------------------------------------------
(* The reconciliation writes revenue rows only.                            *)

LEMMA RevenueStep ==
  ASSUME Inv, UNCHANGED <<stripeVars, sent, claim, prior, lapsed>>,
         (Beside(db', db) /\ db'.ledger = db.ledger) \/ UNCHANGED db
  PROVE  Inv' /\ Word
<1>1. IsDb(db') /\ Once(db') /\ Word
  BY NoFallWord DEF Inv, Beside, Once, IsDb
<1>2. Claims'
  BY SameClaims
<1> QED BY <1>1, <1>2, RowsInv

LEMMA AfterRowsBeside ==
  ASSUME Inv, NEW k
  PROVE  Beside(AfterRows(k), db) /\ AfterRows(k).ledger = db.ledger /\ IsDb(AfterRows(k))
BY Columns DEF AfterRows, Inv, Beside

LEMMA SyncStep ==
  ASSUME Inv, Sync \/ ListInvoices \/ ListCharges \/ ListRefunds \/ SyncFails
  PROVE  Inv' /\ Word
<1>1. CASE Sync \/ ListCharges \/ SyncFails
  BY <1>1, RevenueStep DEF Sync, ListCharges, SyncFails
<1>2. CASE ListInvoices
  <2>1. /\ UNCHANGED <<stripeVars, sent, claim, prior, lapsed>>
        /\ db' = [db EXCEPT !.revenue = db.revenue \cup
             {row \in {InvoiceRow(e) : e \in Invoiced} : \A r \in db.revenue : ~SameRevenue(r, row)}]
    BY <1>2 DEF ListInvoices
  <2>2. Beside(db', db) /\ db'.ledger = db.ledger
    BY <2>1, Columns DEF Inv
  <2> QED BY <2>1, <2>2, RevenueStep
<1>3. CASE ListRefunds
  <2> DEFINE d1 == AfterRows(Len(refunds[sync.of]))
  <2>1. UNCHANGED <<stripeVars, sent, claim, prior, lapsed>> /\ db' = AfterRest(d1)
    BY <1>3 DEF ListRefunds
  <2>2. Beside(d1, db) /\ d1.ledger = db.ledger /\ IsDb(d1)
    BY AfterRowsBeside
  <2> HIDE DEF d1
  <2>3. Beside(AfterRest(d1), d1) /\ AfterRest(d1).ledger = d1.ledger
    BY <2>2, RecordedBeside, BesideSelf DEF AfterRest
  <2>4. Beside(db', db) /\ db'.ledger = db.ledger
    BY <2>1, <2>2, <2>3, BesideTrans
  <2> QED BY <2>1, <2>4, RevenueStep
<1> QED BY <1>1, <1>2, <1>3

-----------------------------------------------------------------------------
(* A crash leaves what the statements before it wrote.                     *)

LEMMA CrashStep == ASSUME Inv, Crash PROVE Inv' /\ Word
<1>1. /\ db' \in Interrupted
      /\ claim' = [n \in Id |-> IF claim[n] \in Open THEN "free" ELSE claim[n]]
      /\ prior' = [n \in Id |-> NoSub]
      /\ UNCHANGED <<stripeVars, sent, lapsed, blind>>
  BY DEF Crash
<1>2. Claims' /\ \A n \in Id : claim[n] = "retrieving" => claim'[n] # "retrieving"
  BY <1>1 DEF Inv, Claims, Open
<1>3. IsDb(db) /\ Once(db)
  BY DEF Inv
<1>4. ASSUME IsDb(db'), Once(db') PROVE Inv'
  BY <1>1, <1>2, <1>4, RowsInv
<1>5. CASE db' = db
  BY <1>3, <1>4, <1>5, NoFallWord DEF IsDb, Once
<1>6. CASE \E n \in Id : Delivered(n) /\ db' \in Range(Writes(n))
  <2>1. PICK n \in Id : n <= Len(sent) /\ db' \in Range(Writes(n))
    BY <1>6 DEF Delivered
  <2>2. IsDb(db') /\ Once(db') /\ OwnWord(db, db', lapsed)
    BY <2>1, WritesWord
  <2> QED BY <1>4, <2>2 DEF OwnWord, Falls, Word
<1>7. CASE \E n \in Id : /\ claim[n] = "retrieving"
                        /\ db' \in Range(CheckoutWrites(db, sent[n].on, stripe[sent[n].on]))
  <2>1. PICK n \in Id : /\ claim[n] = "retrieving"
                       /\ db' \in Range(CheckoutWrites(db, sent[n].on, stripe[sent[n].on]))
    BY <1>7
  <2>2. PICK status \in Status : status = stripe[sent[n].on]
    BY <2>1, Retrieved
  <2>3. status # "active" => sent[n].on \in lapsed \cup blind'
    BY <2>1, <2>2, Retrieved
  <2>4. claim'[n] # "retrieving" /\ UNCHANGED sent
    BY <1>1, <1>2, <2>1
  <2>5. db' \in Range(CheckoutWrites(db, sent[n].on, status))
    BY <2>1, <2>2
  <2>6. IsDb(db') /\ Once(db') /\ Word
    BY <2>1, <2>3, <2>4, <2>5, CheckoutRow
  <2> QED BY <1>4, <2>6
<1>8. CASE \E k \in DOMAIN refunds[sync.of] : db' = AfterRows(k)
  <2>1. Beside(db', db) /\ db'.ledger = db.ledger /\ IsDb(db')
    BY <1>8, AfterRowsBeside
  <2> QED BY <1>3, <1>4, <2>1, NoFallWord DEF Once
<1>9. \/ db' = db
      \/ db' \in UNION {Range(Writes(n)) : n \in {m \in Id : Delivered(m)}}
      \/ db' \in UNION {Range(CheckoutWrites(db, sent[n].on, stripe[sent[n].on])) :
                        n \in {m \in Id : claim[m] = "retrieving"}}
      \/ db' \in IF sync.at = "refunds" THEN {AfterRows(k) : k \in DOMAIN refunds[sync.of]} ELSE {}
  BY <1>1 DEF Interrupted
<1>10. CASE db' \in UNION {Range(Writes(n)) : n \in {m \in Id : Delivered(m)}}
  <2>1. \E n \in {m \in Id : Delivered(m)} : db' \in Range(Writes(n))
    BY <1>10, Zenon
  <2> QED BY <1>6, <2>1
<1>11. CASE db' \in UNION {Range(CheckoutWrites(db, sent[n].on, stripe[sent[n].on])) :
                          n \in {m \in Id : claim[m] = "retrieving"}}
  <2>1. \E n \in {m \in Id : claim[m] = "retrieving"} :
          db' \in Range(CheckoutWrites(db, sent[n].on, stripe[sent[n].on]))
    BY <1>11, Zenon
  <2> QED BY <1>7, <2>1
<1>12. CASE db' \in IF sync.at = "refunds" THEN {AfterRows(k) : k \in DOMAIN refunds[sync.of]} ELSE {}
  <2>1. \E k \in DOMAIN refunds[sync.of] : db' = AfterRows(k)
    BY <1>12, Zenon
  <2> QED BY <1>8, <2>1
<1> QED BY <1>5, <1>9, <1>10, <1>11, <1>12

-----------------------------------------------------------------------------

LEMMA NextStep == ASSUME Inv, [Next]_vars PROVE Inv' /\ Word
<1>1. CASE Happens
  <2>1. UNCHANGED db /\ IsDb(db)
    BY <1>1 DEF Happens, Inv
  <2> QED BY <1>1, <2>1, HappensInv, NoFallWord
<1>2. CASE \E n \in Id : Handle(n)
  BY <1>2, ProcessStep, StartStep, CancelStep, GetStep DEF Handle
<1>3. CASE \E r \in Run : Spend(r)
  BY <1>3, SpendStep
<1>4. CASE Sync \/ ListInvoices \/ ListCharges \/ ListRefunds \/ SyncFails
  BY <1>4, SyncStep
<1>5. CASE Crash
  BY <1>5, CrashStep
<1>6. CASE UNCHANGED vars
  BY <1>6, RevenueStep DEF vars, stripeVars
<1> QED BY <1>1, <1>2, <1>3, <1>4, <1>5, <1>6 DEF Next

LEMMA InvHolds == Spec => []Inv
<1>1. Inv /\ [Next]_vars => Inv'
  BY NextStep
<1> QED BY <1>1, InitInv, PTL DEF Spec

\* A workspace loses its paid plan only on word about the subscription it has
\* or is given, and only if that was not active at some time: late, repeated
\* and interrupted events of an older subscription take nothing away.
THEOREM OnlyOwnWordDowngrades == Spec => DowngradedOnOwnWord
<1> DEFINE Own == GetTenantPlan(db) # "free" /\ GetTenantPlan(db)' = "free" =>
                  \/ db.sub = NoSub
                  \/ db'.sub = db.sub /\ db.sub \in lapsed
                  \/ Recording(db'.sub) /\ db'.sub \in lapsed \cup blind'
<1>1. ASSUME Inv, [Next]_vars PROVE Own
  <2>1. Word
    BY <1>1, NextStep
  <2>2. GetTenantPlan(db)' = GetTenantPlan(db')
    BY DEF GetTenantPlan
  <2> QED BY <2>1, <2>2 DEF Word
<1>2. Inv /\ [Next]_vars => Own
  BY <1>1
<1> HIDE DEF Own
<1>3. Spec => [][Own]_vars
  BY <1>2, InvHolds, PTL DEF Spec
<1> QED BY <1>3 DEF Own, DowngradedOnOwnWord

\* A paid session, a refund, a dispute and a review move the wallet at most
\* once each, whatever is delivered again after a crash.
THEOREM MovesOnce == Spec => []Once(db)
<1>1. Inv => Once(db)
  BY DEF Inv
<1> QED BY <1>1, InvHolds, PTL

-----------------------------------------------------------------------------
(* The cents of a set of rows.                                             *)

Money(rows) == IsFiniteSet(rows) /\ \A r \in rows : r.cents \in Int

LEMMA CentsAre ==
  ASSUME NEW rows
  PROVE  Cents(rows) = SumFunctionOnSet([r \in rows |-> r.cents], rows)
BY DEF Cents, SumFunction

LEMMA CentsEmpty == Cents({}) = 0
BY CentsAre, SumEmpty

LEMMA CentsType ==
  ASSUME NEW rows, Money(rows)
  PROVE  /\ Cents(rows) \in Int
         /\ (\A r \in rows : r.cents \in Nat) => Cents(rows) \in Nat
<1> DEFINE f == [r \in rows |-> r.cents]
<1>1. \A r \in rows : f[r] = r.cents
  OBVIOUS
<1>2. Cents(rows) = SumFunctionOnSet(f, rows)
  BY CentsAre
<1> HIDE DEF f
<1> QED
  BY <1>1, <1>2, SumType DEF Money

\* Part of the rows, as a sum over all their cents.
LEMMA CentsPart ==
  ASSUME NEW rows, Money(rows), NEW part \in SUBSET rows
  PROVE  Cents(part) = SumFunctionOnSet([r \in rows |-> r.cents], part) /\ Money(part)
<1>1. IsFiniteSet(part)
  BY FS_Subset DEF Money
<1>2. SumFunctionOnSet([r \in part |-> r.cents], part) = SumFunctionOnSet([r \in rows |-> r.cents], part)
  <2> DEFINE f == [r \in part |-> r.cents]
             g == [r \in rows |-> r.cents]
  <2>1. \A r \in part : f[r] = g[r]
    OBVIOUS
  <2> HIDE DEF f, g
  <2> QED
    BY <1>1, <2>1, SumSame
<1> QED
  BY <1>1, <1>2, CentsAre DEF Money

LEMMA CentsUnion ==
  ASSUME NEW rows, Money(rows), NEW more, Money(more), rows \cap more = {}
  PROVE  Cents(rows \cup more) = Cents(rows) + Cents(more) /\ Money(rows \cup more)
<1> DEFINE all == rows \cup more
           f == [r \in all |-> r.cents]
<1>1. Money(all)
  BY FS_Union DEF Money
<1>2. rows \in SUBSET all /\ more \in SUBSET all /\ all \in SUBSET all
  OBVIOUS
<1>3. \A r \in rows \cup more : f[r] \in Int
  BY DEF Money
<1>4. SumFunctionOnSet(f, rows \cup more) = SumFunctionOnSet(f, rows) + SumFunctionOnSet(f, more)
  <2> HIDE DEF f
  <2> QED
    BY <1>3, SumUnion DEF Money
<1>5. /\ Cents(rows) = SumFunctionOnSet(f, rows)
      /\ Cents(more) = SumFunctionOnSet(f, more)
      /\ Cents(all) = SumFunctionOnSet(f, all)
  <2> HIDE DEF all
  <2> QED
    BY <1>1, <1>2, CentsPart
<1> QED
  BY <1>1, <1>4, <1>5

LEMMA CentsOne ==
  ASSUME NEW row, row.cents \in Int
  PROVE  Cents({row}) = row.cents /\ Money({row})
<1> DEFINE f == [r \in {row} |-> r.cents]
<1>1. \A r \in {row} : f[r] \in Int
  OBVIOUS
<1>2. f[row] = row.cents
  OBVIOUS
<1>3. IsFiniteSet({row}) /\ {row} \ {row} = {} /\ row \in {row}
  BY FS_Singleton
<1>4. SumFunctionOnSet(f, {row}) = f[row] + SumFunctionOnSet(f, {row} \ {row})
  <2> HIDE DEF f
  <2> QED
    BY <1>1, <1>3, SumRemove
<1>5. Cents({row}) = SumFunctionOnSet(f, {row})
  BY CentsAre
<1>6. SumFunctionOnSet(f, {row} \ {row}) = 0
  BY <1>3, SumEmpty
<1> QED
  BY <1>2, <1>3, <1>4, <1>5, <1>6 DEF Money

LEMMA CentsAdd ==
  ASSUME NEW rows, Money(rows), NEW row, row \notin rows, row.cents \in Int
  PROVE  Cents(rows \cup {row}) = Cents(rows) + row.cents /\ Money(rows \cup {row})
BY CentsOne, CentsUnion

\* Fewer rows of nonnegative cents sum up to no more.
LEMMA CentsFewer ==
  ASSUME NEW rows, Money(rows), \A r \in rows : r.cents \in Nat, NEW part \in SUBSET rows
  PROVE  Cents(part) <= Cents(rows)
<1> DEFINE rest == rows \ part
<1>1. Money(part) /\ Money(rest) /\ part \cap rest = {} /\ part \cup rest = rows
  BY CentsPart
<1>2. Cents(rows) = Cents(part) + Cents(rest)
  <2> HIDE DEF rest
  <2> QED
    BY <1>1, CentsUnion
<1>3. Cents(part) \in Int /\ Cents(rest) \in Nat
  <2>1. \A r \in rest : r.cents \in Nat
    OBVIOUS
  <2> HIDE DEF rest
  <2> QED
    BY <1>1, <2>1, CentsType
<1> QED
  BY <1>2, <1>3

-----------------------------------------------------------------------------
(* The revenue rows.                                                       *)

\* A row is a record; no two rows are of one event, or of one paid invoice.
IsRow(r) ==
  /\ r = [id |-> r.id, type |-> r.type, on |-> r.on, cents |-> r.cents, known |-> r.known]
  /\ r.cents \in Nat
RowsFine(d) ==
  /\ IsFiniteSet(d.revenue)
  /\ \A r \in d.revenue : IsRow(r)
  /\ \A r, s \in d.revenue : SameRevenue(r, s) => r = s

\* The refunds that events recorded, among those of a charge.
ByEvents(d, c) == {r \in RefundRows(d, c) : r.id.by = "event"}

LEMMA RowsMoney ==
  ASSUME NEW d, RowsFine(d), NEW c
  PROVE  /\ Money(d.revenue) /\ Money(RefundRows(d, c)) /\ Money(ByEvents(d, c))
         /\ SumRefunds(d, c) \in Nat /\ Cents(ByEvents(d, c)) \in Nat
         /\ Cents(ByEvents(d, c)) <= SumRefunds(d, c)
<1>1. Money(d.revenue) /\ \A r \in d.revenue : r.cents \in Nat
  BY DEF RowsFine, IsRow, Money
<1>2. RefundRows(d, c) \in SUBSET d.revenue /\ ByEvents(d, c) \in SUBSET RefundRows(d, c)
  BY DEF RefundRows, ByEvents
<1>3. Money(RefundRows(d, c)) /\ Money(ByEvents(d, c))
  BY <1>1, <1>2, CentsPart
<1>4. \A r \in RefundRows(d, c) : r.cents \in Nat
  BY <1>1, <1>2
<1>5. \A r \in ByEvents(d, c) : r.cents \in Nat
  BY <1>2, <1>4
<1> QED
  BY <1>1, <1>2, <1>3, <1>4, <1>5, CentsType, CentsFewer DEF SumRefunds

\* What a recorded row adds to the sums of its charge.
Adds(row, c) == IF row.type = "refund" /\ row.on = c THEN row.cents ELSE 0

LEMMA RecordedSums ==
  ASSUME NEW d, IsDb(d), RowsFine(d), NEW row, IsRow(row),
         \A r \in d.revenue : ~SameRevenue(r, row)
  PROVE  /\ RowsFine(Recorded(d, row)) /\ Recorded(d, row).revenue = d.revenue \cup {row}
         /\ \A c : /\ SumRefunds(Recorded(d, row), c) = SumRefunds(d, c) + Adds(row, c)
                   /\ Cents(ByEvents(Recorded(d, row), c)) =
                        Cents(ByEvents(d, c)) + IF row.id.by = "event" THEN Adds(row, c) ELSE 0
<1> DEFINE x == Recorded(d, row)
<1>1. x.revenue = d.revenue \cup {row}
  <2>1. x = [d EXCEPT !.revenue = d.revenue \cup {row}]
    BY DEF Recorded
  <2> QED
    BY <2>1 DEF IsDb, Fields
<1> HIDE DEF x
<1>2. row \notin d.revenue
  BY DEF SameRevenue
<1>3. RowsFine(x)
  <2>1. IsFiniteSet(x.revenue)
    BY <1>1, FS_AddElement DEF RowsFine
  <2>2. \A r \in x.revenue : ~SameRevenue(row, r) \/ r = row
    BY <1>1 DEF SameRevenue
  <2> QED
    BY <1>1, <2>1, <2>2 DEF RowsFine
<1>4. ASSUME NEW c
      PROVE  /\ SumRefunds(x, c) = SumRefunds(d, c) + Adds(row, c)
             /\ Cents(ByEvents(x, c)) =
                  Cents(ByEvents(d, c)) + IF row.id.by = "event" THEN Adds(row, c) ELSE 0
  <2>0. Money(RefundRows(d, c)) /\ Money(ByEvents(d, c)) /\ SumRefunds(d, c) \in Nat
        /\ Cents(ByEvents(d, c)) \in Nat /\ row.cents \in Int
    BY RowsMoney DEF IsRow
  <2>1. CASE row.type = "refund" /\ row.on = c
    <3>1. RefundRows(x, c) = RefundRows(d, c) \cup {row} /\ row \notin RefundRows(d, c)
      BY <1>1, <1>2, <2>1 DEF RefundRows
    <3>2. SumRefunds(x, c) = SumRefunds(d, c) + row.cents
      BY <2>0, <3>1, CentsAdd DEF SumRefunds
    <3>3. CASE row.id.by = "event"
      <4>1. ByEvents(x, c) = ByEvents(d, c) \cup {row} /\ row \notin ByEvents(d, c)
        BY <3>1, <3>3 DEF ByEvents
      <4>2. Cents(ByEvents(x, c)) = Cents(ByEvents(d, c)) + row.cents
        BY <2>0, <4>1, CentsAdd
      <4> QED
        BY <2>1, <3>2, <3>3, <4>2 DEF Adds
    <3>4. CASE row.id.by # "event"
      <4>1. ByEvents(x, c) = ByEvents(d, c)
        BY <3>1, <3>4 DEF ByEvents
      <4> QED
        BY <2>0, <2>1, <3>2, <3>4, <4>1 DEF Adds
    <3> QED
      BY <3>3, <3>4
  <2>2. CASE ~(row.type = "refund" /\ row.on = c)
    <3>1. RefundRows(x, c) = RefundRows(d, c)
      BY <1>1, <2>2 DEF RefundRows
    <3>2. ByEvents(x, c) = ByEvents(d, c)
      BY <3>1 DEF ByEvents
    <3> QED
      BY <2>0, <2>2, <3>1, <3>2 DEF SumRefunds, Adds
  <2> QED
    BY <2>1, <2>2
<1> QED
  BY <1>1, <1>3, <1>4 DEF x

\* Linking rows to the workspace changes no sum.
LEMMA AssignSums ==
  ASSUME NEW d, IsDb(d), RowsFine(d)
  PROVE  /\ RowsFine(AssignUnlinked(d))
         /\ AssignUnlinked(d).revenue = {[r EXCEPT !.known = TRUE] : r \in d.revenue}
         /\ \A c : /\ SumRefunds(AssignUnlinked(d), c) = SumRefunds(d, c)
                   /\ Cents(ByEvents(AssignUnlinked(d), c)) = Cents(ByEvents(d, c))
<1> DEFINE h == [r \in d.revenue |-> [r EXCEPT !.known = TRUE]]
           Linked(rows) == {h[r] : r \in rows}
           x == AssignUnlinked(d)
<1>1. x.revenue = {[r EXCEPT !.known = TRUE] : r \in d.revenue}
  BY DEF IsDb, Fields, AssignUnlinked
<1>2. \A r \in d.revenue : /\ h[r].id = r.id /\ h[r].type = r.type /\ h[r].on = r.on
                           /\ h[r].cents = r.cents /\ IsRow(h[r])
  <2>1. ASSUME NEW r \in d.revenue
        PROVE  /\ h[r].id = r.id /\ h[r].type = r.type /\ h[r].on = r.on
               /\ h[r].cents = r.cents /\ IsRow(h[r])
    <3>1. r = [id |-> r.id, type |-> r.type, on |-> r.on, cents |-> r.cents, known |-> r.known]
          /\ r.cents \in Nat
      BY DEF RowsFine, IsRow
    <3>2. h[r] = [id |-> r.id, type |-> r.type, on |-> r.on, cents |-> r.cents, known |-> TRUE]
      BY <3>1
    <3> QED
      BY <3>1, <3>2 DEF IsRow
  <2> HIDE DEF h
  <2> QED
    BY <2>1
<1>3. \A r, s \in d.revenue : SameRevenue(h[r], h[s]) => r = s
  BY <1>2 DEF RowsFine, SameRevenue
<1>4. \A r, s \in d.revenue : h[r] = h[s] => r = s
  BY <1>3 DEF SameRevenue
<1>5. x.revenue = Linked(d.revenue)
  BY <1>1
<1>6. IsFiniteSet(Linked(d.revenue))
  <2> HIDE DEF h
  <2> QED
    BY FiniteImage DEF RowsFine
<1> HIDE DEF x
<1>7. RowsFine(x)
  <2> HIDE DEF h
  <2> QED
    BY <1>2, <1>3, <1>5, <1>6 DEF RowsFine
<1>8. ASSUME NEW rows \in SUBSET d.revenue
      PROVE  Cents(Linked(rows)) = Cents(rows)
  <2> DEFINE f == [r \in Linked(rows) |-> r.cents]
             g == [r \in rows |-> r.cents]
  <2>1. \A r \in rows : f[h[r]] = g[r] /\ g[r] \in Int
    <3>1. \A r \in rows : h[r] \in Linked(rows)
      <4> HIDE DEF h
      <4> QED
        OBVIOUS
    <3>2. \A r \in rows : h[r].cents = r.cents /\ r.cents \in Int
      <4> HIDE DEF h
      <4> QED
        BY <1>2, RowsMoney DEF Money
    <3> HIDE DEF h, Linked
    <3> QED
      BY <3>1, <3>2
  <2>2. IsFiniteSet(rows) /\ \A r, s \in rows : h[r] = h[s] => r = s
    BY <1>4, FS_Subset DEF RowsFine
  <2>3. Cents(Linked(rows)) = SumFunctionOnSet(f, Linked(rows)) /\ Cents(rows) = SumFunctionOnSet(g, rows)
    <3> HIDE DEF Linked
    <3> QED
      BY CentsAre
  <2> HIDE DEF f, g, h
  <2>4. SumFunctionOnSet(f, {h[r] : r \in rows}) = SumFunctionOnSet(g, rows)
    BY <2>1, <2>2, SumImage
  <2> QED
    BY <2>3, <2>4
<1>9. ASSUME NEW c
      PROVE  /\ SumRefunds(x, c) = SumRefunds(d, c)
             /\ Cents(ByEvents(x, c)) = Cents(ByEvents(d, c))
  <2>1. RefundRows(x, c) = Linked(RefundRows(d, c)) /\ ByEvents(x, c) = Linked(ByEvents(d, c))
    <3> HIDE DEF h
    <3> QED
      BY <1>2, <1>5 DEF RefundRows, ByEvents
  <2>2. RefundRows(d, c) \in SUBSET d.revenue /\ ByEvents(d, c) \in SUBSET d.revenue
    BY DEF RefundRows, ByEvents
  <2> HIDE DEF Linked
  <2> QED
    BY <1>8, <2>1, <2>2 DEF SumRefunds
<1> QED
  BY <1>1, <1>7, <1>9 DEF x

-----------------------------------------------------------------------------
(* What the rows keep to: S the events sent, lim what Stripe refunded of   *)
(* each charge, R the charges recorded under a reconciliation.             *)

Sourced(d, S) ==
  \A r \in d.revenue :
    /\ r.id.by = "event" =>
         /\ r.id.n \in 1..Len(S) /\ r.on = S[r.id.n].on /\ r.type = S[r.id.n].type
         /\ r.type = "refund" => S[r.id.n].cents <= SumRefunds(d, r.on)
    /\ r.id.by = "invoice" => r.type = "invoice"
    /\ r.id.by \in {"refund", "rest"} => r.type = "refund"
Bounded(d, lim, R) ==
  \A c \in Charge :
    /\ c \notin R => SumRefunds(d, c) <= lim[c]
    /\ Cents(ByEvents(d, c)) <= lim[c]
RowsOk(d, S, lim, R) == RowsFine(d) /\ Sourced(d, S) /\ Bounded(d, lim, R)

\* What the wallet keeps to: never overdrawn, a session's entry is its price, and
\* the refunds of a charge took no more than their events recorded.
Taken(d, c) == {l \in d.ledger : l.key.by = "refund" /\ l.key.on = c}
LedgerFine(d) ==
  /\ IsFiniteSet(d.ledger)
  /\ \A l \in d.ledger : l = [key |-> l.key, cents |-> l.cents] /\ l.cents \in Int
  /\ \A l \in d.ledger : l.key.by = "session" =>
       l.key = KeyOf("session", l.key.on, 0) /\ l.key.on \in Session /\ l.cents = Price[l.key.on]
WalletOk(d) ==
  /\ LedgerFine(d) /\ Balance(d) >= 0
  /\ \A c \in Charge : -Cents(Taken(d, c)) <= Cents(ByEvents(d, c))

\* What an event has done once it was handled.
Invoices(d, c) == {r \in d.revenue : r.type = "invoice" /\ r.on = c}
Done(d, e) ==
  /\ e.type = "refund" => e.cents <= SumRefunds(d, e.on)
  /\ e.type = "topUp" => HasEntry(d, KeyOf("session", e.on, 0))
  /\ e.type = "invoice" => Invoices(d, e.on) # {}

\* From d to x nothing is taken back.
Grows(x, d) ==
  /\ \A c \in Charge : SumRefunds(d, c) <= SumRefunds(x, c)
  /\ \A c \in Charge : Invoices(d, c) # {} => Invoices(x, c) # {}
  /\ d.ledger \subseteq x.ledger

\* Only the refunds of the charges in C are more.
Refunded(x, d, C) == \A c \in Charge \ C : SumRefunds(x, c) = SumRefunds(d, c)

\* All of it, and that a statement led from d to x, the refunds of the charges in
\* C aside.
Sound(d, S, lim, R) == IsDb(d) /\ RowsOk(d, S, lim, R) /\ WalletOk(d) /\ Once(d)
Kept(x, d, C, S, lim, R) == Sound(x, S, lim, R) /\ Grows(x, d) /\ Refunded(x, d, C)

LEMMA GrowsDone ==
  ASSUME NEW d, NEW x, Grows(x, d), RowsFine(d), RowsFine(x), NEW e, e.on \in Charge,
         e.type = "refund" => e.cents \in Nat, Done(d, e)
  PROVE  Done(x, e)
<1>1. SumRefunds(d, e.on) \in Nat /\ SumRefunds(x, e.on) \in Nat
  BY RowsMoney
<1> QED
  BY <1>1 DEF Grows, Done, HasEntry

\* Statements that touch neither the revenue rows nor the ledger.
LEMMA SameRows ==
  ASSUME NEW d, NEW x, IsDb(x), x.revenue = d.revenue, RowsFine(d)
  PROVE  /\ RowsFine(x) /\ \A c : /\ SumRefunds(x, c) = SumRefunds(d, c)
                                  /\ ByEvents(x, c) = ByEvents(d, c)
                                  /\ Invoices(x, c) = Invoices(d, c)
         /\ \A S, lim, R : RowsOk(d, S, lim, R) => RowsOk(x, S, lim, R)
<1>1. \A c : RefundRows(x, c) = RefundRows(d, c)
  BY DEF RefundRows
<1>2. \A c : /\ SumRefunds(x, c) = SumRefunds(d, c)
             /\ ByEvents(x, c) = ByEvents(d, c)
             /\ Invoices(x, c) = Invoices(d, c)
  BY <1>1 DEF SumRefunds, ByEvents, Invoices
<1>3. RowsFine(x)
  BY DEF RowsFine
<1>4. ASSUME NEW S, NEW lim, NEW R, RowsOk(d, S, lim, R)
      PROVE  RowsOk(x, S, lim, R)
  <2>1. Sourced(x, S)
    BY <1>2, <1>4 DEF RowsOk, Sourced
  <2>2. Bounded(x, lim, R)
    BY <1>2, <1>4 DEF RowsOk, Bounded
  <2> QED
    BY <1>3, <2>1, <2>2 DEF RowsOk
<1> QED
  BY <1>2, <1>3, <1>4

LEMMA SameWallet ==
  ASSUME NEW d, NEW x, x.ledger = d.ledger, WalletOk(d),
         \A c \in Charge : Cents(ByEvents(d, c)) <= Cents(ByEvents(x, c)),
         RowsFine(d), RowsFine(x)
  PROVE  WalletOk(x)
<1>1. \A c : Taken(x, c) = Taken(d, c)
  BY DEF Taken
<1>2. LedgerFine(x)
  BY DEF WalletOk, LedgerFine
<1>3. Balance(x) = Balance(d)
  BY DEF Balance
<1>4. ASSUME NEW c \in Charge
      PROVE  -Cents(Taken(x, c)) <= Cents(ByEvents(x, c))
  <2>1. -Cents(Taken(x, c)) <= Cents(ByEvents(d, c)) /\ Cents(ByEvents(d, c)) <= Cents(ByEvents(x, c))
    BY <1>1 DEF WalletOk
  <2>2. Cents(ByEvents(d, c)) \in Nat /\ Cents(ByEvents(x, c)) \in Nat
    BY RowsMoney
  <2>3. Money(Taken(x, c))
    <3>1. Money(x.ledger)
      BY <1>2 DEF LedgerFine, Money
    <3> QED
      BY <3>1, CentsPart DEF Taken
  <2>4. Cents(Taken(x, c)) \in Int
    BY <2>3, CentsType
  <2> QED
    BY <2>1, <2>2, <2>4
<1> QED
  BY <1>2, <1>3, <1>4 DEF WalletOk

-----------------------------------------------------------------------------
(* The statements on the revenue rows.                                     *)

LEMMA RecordedKept ==
  ASSUME NEW d, IsDb(d), NEW S \in Seq(Event), NEW lim \in [Charge -> Nat], NEW R, RowsOk(d, S, lim, R),
         NEW row, IsRow(row), row.on \in Charge, \A r \in d.revenue : ~SameRevenue(r, row),
         row.id.by = "event" => /\ row.id.n \in 1..Len(S)
                                /\ row.on = S[row.id.n].on /\ row.type = S[row.id.n].type,
         row.id.by = "invoice" => row.type = "invoice",
         row.id.by \in {"refund", "rest"} => row.type = "refund",
         row.type = "refund" =>
           /\ row.on \notin R => SumRefunds(d, row.on) + row.cents <= lim[row.on]
           /\ row.id.by = "event" =>
                /\ S[row.id.n].cents <= SumRefunds(d, row.on) + row.cents
                /\ Cents(ByEvents(d, row.on)) + row.cents <= lim[row.on]
  PROVE  /\ IsDb(Recorded(d, row)) /\ RowsOk(Recorded(d, row), S, lim, R)
         /\ Recorded(d, row).ledger = d.ledger
         /\ Grows(Recorded(d, row), d)
         /\ Refunded(Recorded(d, row), d, IF row.type = "refund" THEN {row.on} ELSE {})
         /\ \A c \in Charge : Cents(ByEvents(d, c)) <= Cents(ByEvents(Recorded(d, row), c))
<1> DEFINE x == Recorded(d, row)
<1>1. /\ RowsFine(d) /\ RowsFine(x) /\ x.revenue = d.revenue \cup {row}
      /\ \A c : /\ SumRefunds(x, c) = SumRefunds(d, c) + Adds(row, c)
                /\ Cents(ByEvents(x, c)) =
                     Cents(ByEvents(d, c)) + IF row.id.by = "event" THEN Adds(row, c) ELSE 0
  BY RecordedSums DEF RowsOk
<1>2. IsDb(x) /\ x.ledger = d.ledger
  BY RecordedBeside DEF Beside
<1> HIDE DEF x
<1>3. \A c : Adds(row, c) \in Nat
  BY DEF Adds, IsRow
<1>4. \A c : /\ SumRefunds(d, c) \in Nat /\ SumRefunds(x, c) \in Nat
             /\ Cents(ByEvents(d, c)) \in Nat /\ Cents(ByEvents(x, c)) \in Nat
  BY <1>1, RowsMoney
<1>5. \A c : SumRefunds(d, c) <= SumRefunds(x, c) /\ Cents(ByEvents(d, c)) <= Cents(ByEvents(x, c))
  BY <1>1, <1>3, <1>4
<1>6. Grows(x, d)
  BY <1>1, <1>2, <1>5 DEF Grows, Invoices
<1>7. Refunded(x, d, IF row.type = "refund" THEN {row.on} ELSE {})
  BY <1>1, <1>4 DEF Refunded, Adds
<1>8. Sourced(x, S)
  <2> SUFFICES ASSUME NEW r \in x.revenue
               PROVE  /\ r.id.by = "event" =>
                           /\ r.id.n \in 1..Len(S) /\ r.on = S[r.id.n].on /\ r.type = S[r.id.n].type
                           /\ r.type = "refund" => S[r.id.n].cents <= SumRefunds(x, r.on)
                      /\ r.id.by = "invoice" => r.type = "invoice"
                      /\ r.id.by \in {"refund", "rest"} => r.type = "refund"
    BY Zenon DEF Sourced
  <2>1. CASE r = row
    <3>1. row.type = "refund" => SumRefunds(x, row.on) = SumRefunds(d, row.on) + row.cents
      BY <1>1 DEF Adds
    <3> QED
      BY <2>1, <3>1
  <2>2. CASE r # row
    <3>1. r \in d.revenue
      BY <1>1, <2>2
    <3>2. r.id.by = "event" => S[r.id.n].cents \in Nat
      <4>1. r.id.by = "event" => r.id.n \in 1..Len(S)
        BY <3>1 DEF RowsOk, Sourced
      <4>2. r.id.by = "event" => S[r.id.n] \in Event
        BY <4>1
      <4> QED
        BY <4>2 DEF Event
    <3> QED
      BY <1>4, <1>5, <3>1, <3>2 DEF RowsOk, Sourced
  <2> QED
    BY <2>1, <2>2
<1>9. Bounded(x, lim, R)
  <2> SUFFICES ASSUME NEW c \in Charge
               PROVE  /\ c \notin R => SumRefunds(x, c) <= lim[c]
                      /\ Cents(ByEvents(x, c)) <= lim[c]
    BY DEF Bounded
  <2>1. (c \notin R => SumRefunds(d, c) <= lim[c]) /\ Cents(ByEvents(d, c)) <= lim[c] /\ lim[c] \in Nat
    BY DEF RowsOk, Bounded
  <2>2. CASE Adds(row, c) = 0
    BY <1>1, <1>4, <2>1, <2>2
  <2>3. CASE Adds(row, c) # 0
    <3>1. row.type = "refund" /\ row.on = c /\ Adds(row, c) = row.cents
      BY <2>3 DEF Adds
    <3> QED
      BY <1>1, <1>4, <2>1, <3>1
  <2> QED
    BY <2>2, <2>3
<1> QED
  BY <1>1, <1>2, <1>5, <1>6, <1>7, <1>8, <1>9 DEF RowsOk, x

LEMMA AssignKept ==
  ASSUME NEW d, IsDb(d), NEW S, NEW lim, NEW R, RowsOk(d, S, lim, R)
  PROVE  /\ IsDb(AssignUnlinked(d)) /\ RowsOk(AssignUnlinked(d), S, lim, R)
         /\ AssignUnlinked(d).ledger = d.ledger
         /\ Grows(AssignUnlinked(d), d) /\ Refunded(AssignUnlinked(d), d, {})
         /\ \A c : Cents(ByEvents(AssignUnlinked(d), c)) = Cents(ByEvents(d, c))
<1> DEFINE x == AssignUnlinked(d)
<1>1. /\ RowsFine(x) /\ x.revenue = {[r EXCEPT !.known = TRUE] : r \in d.revenue}
      /\ \A c : /\ SumRefunds(x, c) = SumRefunds(d, c)
                /\ Cents(ByEvents(x, c)) = Cents(ByEvents(d, c))
  BY AssignSums DEF RowsOk
<1>2. IsDb(x) /\ x.ledger = d.ledger
  BY AssignBeside DEF Beside
<1> HIDE DEF x
<1>3. \A c : SumRefunds(d, c) \in Nat
  BY RowsMoney DEF RowsOk
<1>4. \A r \in d.revenue : LET q == [r EXCEPT !.known = TRUE]
                           IN q.id = r.id /\ q.type = r.type /\ q.on = r.on
  <2> SUFFICES ASSUME NEW r \in d.revenue
               PROVE  LET q == [r EXCEPT !.known = TRUE]
                      IN q.id = r.id /\ q.type = r.type /\ q.on = r.on
    OBVIOUS
  <2>1. r = [id |-> r.id, type |-> r.type, on |-> r.on, cents |-> r.cents, known |-> r.known]
    BY DEF RowsOk, RowsFine, IsRow
  <2> QED
    BY <2>1
<1>5. \A q \in x.revenue : \E r \in d.revenue : q.id = r.id /\ q.type = r.type /\ q.on = r.on
  BY <1>1, <1>4
<1>6. \A r \in d.revenue : \E q \in x.revenue : q.id = r.id /\ q.type = r.type /\ q.on = r.on
  BY <1>1, <1>4
<1>7. Grows(x, d)
  <2>1. \A c \in Charge : SumRefunds(d, c) <= SumRefunds(x, c)
    BY <1>1, <1>3
  <2>2. \A c \in Charge : Invoices(d, c) # {} => Invoices(x, c) # {}
    BY <1>6 DEF Invoices
  <2> QED
    BY <1>2, <2>1, <2>2 DEF Grows
<1>8. RowsOk(x, S, lim, R)
  <2>1. Sourced(x, S)
    BY <1>1, <1>5 DEF RowsOk, Sourced
  <2>2. Bounded(x, lim, R)
    BY <1>1 DEF RowsOk, Bounded
  <2> QED
    BY <1>1, <2>1, <2>2 DEF RowsOk
<1> QED
  BY <1>1, <1>2, <1>7, <1>8 DEF Refunded, x

-----------------------------------------------------------------------------
(* The statements on the ledger.                                           *)

LEMMA OfTwo ==
  ASSUME NEW a \in Int, NEW b \in Int
  PROVE  /\ Max({a, b}) \in {a, b} /\ Max({a, b}) >= a /\ Max({a, b}) >= b
         /\ Min({a, b}) \in {a, b} /\ Min({a, b}) <= a /\ Min({a, b}) <= b
<1>1. \E x \in {a, b} : \A y \in {a, b} : x >= y
  OBVIOUS
<1>2. \E x \in {a, b} : \A y \in {a, b} : x <= y
  OBVIOUS
<1>3. Max({a, b}) \in {a, b} /\ \A y \in {a, b} : Max({a, b}) >= y
  BY <1>1 DEF Max
<1>4. Min({a, b}) \in {a, b} /\ \A y \in {a, b} : Min({a, b}) <= y
  BY <1>2 DEF Min
<1> QED
  BY <1>3, <1>4

LEMMA LedgerMoney ==
  ASSUME NEW d, LedgerFine(d), NEW c
  PROVE  /\ Money(d.ledger) /\ Balance(d) \in Int
         /\ Money(Taken(d, c)) /\ Cents(Taken(d, c)) \in Int
<1>1. Money(d.ledger)
  BY DEF LedgerFine, Money
<1>2. Taken(d, c) \in SUBSET d.ledger
  BY DEF Taken
<1> QED
  BY <1>1, <1>2, CentsPart, CentsType DEF Balance

LEMMA EnteredKept ==
  ASSUME NEW d, IsDb(d), WalletOk(d), Once(d), RowsFine(d),
         NEW key, ~HasEntry(d, key), NEW cents \in Int, Balance(d) + cents >= 0,
         key.by = "session" =>
           key = KeyOf("session", key.on, 0) /\ key.on \in Session /\ cents = Price[key.on],
         key.by = "refund" => -(Cents(Taken(d, key.on)) + cents) <= Cents(ByEvents(d, key.on))
  PROVE  /\ IsDb(Entered(d, key, cents)) /\ WalletOk(Entered(d, key, cents))
         /\ Once(Entered(d, key, cents))
         /\ Entered(d, key, cents).revenue = d.revenue
         /\ Entered(d, key, cents).ledger = d.ledger \cup {[key |-> key, cents |-> cents]}
<1> DEFINE x == Entered(d, key, cents)
           l == [key |-> key, cents |-> cents]
<1>1. IsDb(x) /\ Once(x) /\ x.ledger = d.ledger \cup {l}
  BY EnteredBeside, EnteredOnce DEF Follows, Beside
<1>2. x.revenue = d.revenue
  BY DEF Entered, IsDb, Fields
<1>3. l \notin d.ledger /\ l.key = key /\ l.cents = cents /\ l = [key |-> l.key, cents |-> l.cents]
  BY DEF HasEntry
<1> HIDE DEF x, l
<1>4. LedgerFine(d) /\ Money(d.ledger)
  BY LedgerMoney DEF WalletOk
<1>5. LedgerFine(x)
  <2>1. IsFiniteSet(x.ledger)
    BY <1>1, <1>4, FS_AddElement DEF Money
  <2>2. \A m \in x.ledger : m = l \/ m \in d.ledger
    BY <1>1
  <2> QED
    BY <1>3, <1>4, <2>1, <2>2 DEF LedgerFine
<1>6. Balance(x) >= 0
  <2>1. Balance(x) = Balance(d) + cents
    BY <1>1, <1>3, <1>4, CentsAdd DEF Balance
  <2> QED
    BY <2>1
<1>7. ASSUME NEW c \in Charge
      PROVE  -Cents(Taken(x, c)) <= Cents(ByEvents(x, c))
  <2>1. ByEvents(x, c) = ByEvents(d, c)
    BY <1>1, <1>2, SameRows
  <2>2. -Cents(Taken(d, c)) <= Cents(ByEvents(d, c))
    BY DEF WalletOk
  <2>3. CASE key.by = "refund" /\ key.on = c
    <3>1. Taken(x, c) = Taken(d, c) \cup {l} /\ l \notin Taken(d, c)
      BY <1>1, <1>3, <2>3 DEF Taken
    <3>2. Cents(Taken(x, c)) = Cents(Taken(d, c)) + cents
      BY <1>3, <1>4, <3>1, LedgerMoney, CentsAdd
    <3> QED
      BY <2>1, <2>3, <3>2
  <2>4. CASE ~(key.by = "refund" /\ key.on = c)
    <3>1. Taken(x, c) = Taken(d, c)
      BY <1>1, <1>3, <2>4 DEF Taken
    <3> QED
      BY <2>1, <2>2, <3>1
  <2> QED
    BY <2>3, <2>4
<1> QED
  BY <1>1, <1>2, <1>5, <1>6, <1>7 DEF WalletOk, x, l

\* Taking what is left of the balance at most.
LEMMA ClawbackKept ==
  ASSUME NEW d, IsDb(d), WalletOk(d), Once(d), RowsFine(d), NEW key, key.by # "session",
         NEW cents \in Nat,
         key.by = "refund" => key.on \in Charge /\ cents - Cents(Taken(d, key.on)) <= Cents(ByEvents(d, key.on))
  PROVE  LET x == ClawbackPrepaidCredits(d, key, cents)
         IN IsDb(x) /\ WalletOk(x) /\ Once(x) /\ x.revenue = d.revenue /\ d.ledger \subseteq x.ledger
<1>1. CASE cents = 0 \/ HasEntry(d, key)
  BY <1>1 DEF ClawbackPrepaidCredits
<1>2. CASE ~(cents = 0 \/ HasEntry(d, key))
  <2> DEFINE taken == Min({Balance(d), cents})
             minus == -taken
  <2>1. Balance(d) \in Int /\ Balance(d) >= 0
    BY LedgerMoney DEF WalletOk
  <2>2. taken \in Int /\ taken <= Balance(d) /\ taken <= cents
    <3>1. cents \in Int
      OBVIOUS
    <3>2. taken \in {Balance(d), cents} /\ taken <= Balance(d) /\ taken <= cents
      BY <2>1, <3>1, OfTwo, Zenon
    <3> QED
      BY <2>1, <3>1, <3>2
  <2>3. ClawbackPrepaidCredits(d, key, cents) = Entered(d, key, minus)
    BY <1>2 DEF ClawbackPrepaidCredits
  <2> HIDE DEF taken
  <2>4. minus \in Int /\ Balance(d) + minus >= 0
    BY <2>1, <2>2
  <2>5. ASSUME key.by = "refund"
        PROVE  -(Cents(Taken(d, key.on)) + minus) <= Cents(ByEvents(d, key.on))
    <3>1. Cents(Taken(d, key.on)) \in Int /\ Cents(ByEvents(d, key.on)) \in Nat
      BY LedgerMoney, RowsMoney DEF WalletOk
    <3> QED
      BY <2>2, <2>5, <3>1
  <2> HIDE DEF minus
  <2> QED
    BY <1>2, <2>3, <2>4, <2>5, EnteredKept
<1> QED
  BY <1>1, <1>2

LEMMA CreditKept ==
  ASSUME NEW d, IsDb(d), WalletOk(d), Once(d), RowsFine(d), NEW k \in Session
  PROVE  LET x == CreditPrepaidTopUp(d, k)
         IN /\ IsDb(x) /\ WalletOk(x) /\ Once(x) /\ x.revenue = d.revenue /\ d.ledger \subseteq x.ledger
            /\ HasEntry(x, KeyOf("session", k, 0))
<1> DEFINE key == KeyOf("session", k, 0)
<1>1. CASE HasEntry(d, key)
  BY <1>1 DEF CreditPrepaidTopUp
<1>2. CASE ~HasEntry(d, key)
  <2>1. key.by = "session" /\ key.on = k /\ key = KeyOf("session", key.on, 0)
    BY DEF KeyOf
  <2>2. CreditPrepaidTopUp(d, k) = Entered(d, key, Price[k])
    BY <1>2 DEF CreditPrepaidTopUp
  <2>3. Price[k] \in Int /\ Price[k] >= 0 /\ Balance(d) \in Int /\ Balance(d) >= 0
    BY LedgerMoney, PriceAssumption DEF WalletOk
  <2>4. Balance(d) + Price[k] >= 0
    BY <2>3
  <2> DEFINE x == Entered(d, key, Price[k])
  <2>5. /\ IsDb(x) /\ WalletOk(x) /\ Once(x) /\ x.revenue = d.revenue
        /\ x.ledger = d.ledger \cup {[key |-> key, cents |-> Price[k]]}
    <3> HIDE DEF key
    <3> QED
      BY <1>2, <2>1, <2>3, <2>4, EnteredKept
  <2> HIDE DEF x
  <2>6. HasEntry(x, key)
    <3> DEFINE l == [key |-> key, cents |-> Price[k]]
    <3>1. l \in x.ledger /\ l.key = key
      BY <2>5
    <3> HIDE DEF key, l
    <3> QED
      BY <3>1 DEF HasEntry
  <2> QED
    BY <2>2, <2>5, <2>6 DEF x
<1> QED
  BY <1>1, <1>2

-----------------------------------------------------------------------------
(* The statements of a handler, one after the other.                       *)

LEMMA KeptSelf ==
  ASSUME NEW d, NEW S, NEW lim, NEW R, Sound(d, S, lim, R), NEW C
  PROVE  Kept(d, d, C, S, lim, R)
<1>1. \A c \in Charge : SumRefunds(d, c) \in Nat
  BY RowsMoney DEF Sound, RowsOk
<1> QED
  BY <1>1 DEF Kept, Grows, Refunded

LEMMA KeptTrans ==
  ASSUME NEW S, NEW lim, NEW R, NEW C, NEW d, Sound(d, S, lim, R),
         NEW x, Kept(x, d, C, S, lim, R), NEW y, Kept(y, x, C, S, lim, R)
  PROVE  Kept(y, d, C, S, lim, R)
<1>1. \A c \in Charge : /\ SumRefunds(d, c) \in Nat /\ SumRefunds(x, c) \in Nat
                        /\ SumRefunds(y, c) \in Nat
  BY RowsMoney DEF Kept, Sound, RowsOk
<1>2. Grows(y, d)
  BY <1>1 DEF Kept, Grows
<1>3. Refunded(y, d, C)
  BY DEF Kept, Refunded
<1> QED
  BY <1>2, <1>3 DEF Kept

\* A statement on the tenant's row.
LEMMA TenantKept ==
  ASSUME NEW S, NEW lim, NEW R, NEW d, Sound(d, S, lim, R),
         NEW x, IsDb(x), x.revenue = d.revenue, x.ledger = d.ledger, NEW C
  PROVE  Kept(x, d, C, S, lim, R)
<1>1. /\ RowsOk(x, S, lim, R) /\ RowsFine(x) /\ RowsFine(d)
      /\ \A c : SumRefunds(x, c) = SumRefunds(d, c) /\ ByEvents(x, c) = ByEvents(d, c)
                /\ Invoices(x, c) = Invoices(d, c)
  BY SameRows DEF Sound, RowsOk
<1>2. \A c : SumRefunds(d, c) \in Nat /\ Cents(ByEvents(d, c)) \in Nat
  BY <1>1, RowsMoney
<1>3. WalletOk(x)
  <2>1. \A c \in Charge : Cents(ByEvents(d, c)) <= Cents(ByEvents(x, c))
    BY <1>1, <1>2
  <2> QED
    BY <1>1, <2>1, SameWallet DEF Sound
<1>4. Once(x)
  BY DEF Sound, Once
<1>5. Grows(x, d)
  BY <1>1, <1>2 DEF Grows
<1> QED
  BY <1>1, <1>3, <1>4, <1>5 DEF Kept, Sound, Refunded

\* A statement on the ledger.
LEMMA LedgerKept ==
  ASSUME NEW S, NEW lim, NEW R, NEW d, Sound(d, S, lim, R),
         NEW x, IsDb(x), x.revenue = d.revenue, d.ledger \subseteq x.ledger, WalletOk(x), Once(x), NEW C
  PROVE  Kept(x, d, C, S, lim, R)
<1>1. /\ RowsOk(x, S, lim, R)
      /\ \A c : SumRefunds(x, c) = SumRefunds(d, c) /\ Invoices(x, c) = Invoices(d, c)
  BY SameRows DEF Sound, RowsOk
<1>2. \A c : SumRefunds(d, c) \in Nat
  BY RowsMoney DEF Sound, RowsOk
<1> QED
  BY <1>1, <1>2 DEF Kept, Sound, Refunded, Grows

\* A statement on the revenue rows.
LEMMA RevenueKept ==
  ASSUME NEW S, NEW lim, NEW R, NEW d, Sound(d, S, lim, R),
         NEW x, IsDb(x), RowsOk(x, S, lim, R), x.ledger = d.ledger, Grows(x, d), NEW C, Refunded(x, d, C),
         \A c \in Charge : Cents(ByEvents(d, c)) <= Cents(ByEvents(x, c))
  PROVE  Kept(x, d, C, S, lim, R)
<1>1. WalletOk(x)
  BY SameWallet DEF Sound, RowsOk
<1>2. Once(x)
  BY DEF Sound, Once
<1> QED
  BY <1>1, <1>2 DEF Kept, Sound

LEMMA LinkKept ==
  ASSUME NEW S, NEW lim, NEW R, NEW d, Sound(d, S, lim, R), NEW C
  PROVE  Kept([d EXCEPT !.linked = TRUE], d, C, S, lim, R)
<1>1. IsDb([d EXCEPT !.linked = TRUE]) /\ [d EXCEPT !.linked = TRUE].ledger = d.ledger
  BY Columns DEF Beside, Sound
<1>2. [d EXCEPT !.linked = TRUE].revenue = d.revenue
  BY DEF Sound, IsDb, Fields
<1> QED
  BY <1>1, <1>2, TenantKept

LEMMA TopUpKept ==
  ASSUME NEW S, NEW lim, NEW R, NEW d, Sound(d, S, lim, R), NEW k \in Session
  PROVE  /\ \A x \in Range(TopUpWrites(d, k)) : Kept(x, d, {}, S, lim, R)
         /\ HasEntry(Last(TopUpWrites(d, k)), KeyOf("session", k, 0))
<1> DEFINE d1 == [d EXCEPT !.linked = TRUE]
           d2 == CreditPrepaidTopUp(d1, k)
<1>1. Kept(d1, d, {}, S, lim, R) /\ Kept(d, d, {}, S, lim, R)
  BY LinkKept, KeptSelf
<1>2. TopUpWrites(d, k) = <<d, d1, d2>>
  BY DEF TopUpWrites
<1> HIDE DEF d1
<1>3. Sound(d1, S, lim, R)
  BY <1>1 DEF Kept
<1>4. /\ IsDb(d2) /\ WalletOk(d2) /\ Once(d2) /\ d2.revenue = d1.revenue /\ d1.ledger \subseteq d2.ledger
      /\ HasEntry(d2, KeyOf("session", k, 0))
  BY <1>3, CreditKept DEF Sound, RowsOk
<1> HIDE DEF d2
<1>5. Kept(d2, d, {}, S, lim, R)
  BY <1>1, <1>3, <1>4, LedgerKept, KeptTrans
<1>6. Range(TopUpWrites(d, k)) = {d, d1, d2} /\ Last(TopUpWrites(d, k)) = d2
  BY <1>2 DEF Range, Last
<1> QED
  BY <1>1, <1>4, <1>5, <1>6

LEMMA DisputeKept ==
  ASSUME NEW S, NEW lim, NEW R, NEW d, Sound(d, S, lim, R), NEW c, NEW cents \in Nat
  PROVE  \A x \in Range(DisputeWrites(d, c, cents)) : Kept(x, d, {}, S, lim, R)
<1> DEFINE key == KeyOf("dispute", c, 0)
           x == ClawbackPrepaidCredits(d, key, cents)
<1>1. key.by = "dispute"
  BY DEF KeyOf
<1> HIDE DEF key
<1>2. IsDb(x) /\ WalletOk(x) /\ Once(x) /\ x.revenue = d.revenue /\ d.ledger \subseteq x.ledger
  BY <1>1, ClawbackKept DEF Sound, RowsOk
<1>3. DisputeWrites(d, c, cents) \in {<<d>>, <<d, x>>}
  BY DEF DisputeWrites, key
<1> HIDE DEF x
<1>4. Kept(x, d, {}, S, lim, R) /\ Kept(d, d, {}, S, lim, R)
  BY <1>2, LedgerKept, KeptSelf
<1>5. Range(DisputeWrites(d, c, cents)) \subseteq {d, x}
  BY <1>3 DEF Range
<1> QED
  BY <1>4, <1>5

LEMMA InvoiceKept ==
  ASSUME NEW S \in Seq(Event), NEW lim \in [Charge -> Nat], NEW R, NEW d, Sound(d, S, lim, R),
         NEW n \in 1..Len(S), S[n].type = "invoice"
  PROVE  LET W == InvoiceWrites(d, n, S[n].on, S[n].cents)
         IN /\ \A x \in Range(W) : Kept(x, d, {}, S, lim, R)
            /\ Invoices(Last(W), S[n].on) # {}
<1> DEFINE c == S[n].on
           row == RowOf("invoice", KeyOf("event", c, n), c, S[n].cents, d.linked)
           x == Recorded(d, row)
<1>1. c \in Charge /\ S[n].cents \in Nat
  <2>1. S[n] \in Event
    OBVIOUS
  <2> QED
    BY <2>1 DEF Event
<1>2. /\ IsRow(row) /\ row.on = c /\ row.type = "invoice" /\ row.id.by = "event" /\ row.id.n = n
  BY <1>1 DEF IsRow, RowOf, KeyOf
<1>3. InvoiceWrites(d, n, c, S[n].cents) = <<d, x>>
  BY DEF InvoiceWrites
<1>4. Range(<<d, x>>) = {d, x} /\ Last(<<d, x>>) = x
  <2> HIDE DEF x
  <2> QED
    BY DEF Range, Last
<1>5. Kept(d, d, {}, S, lim, R)
  BY KeptSelf
<1> HIDE DEF row
<1>6. CASE \E r \in d.revenue : SameRevenue(r, row)
  <2>1. x = d
    BY <1>6 DEF Recorded
  <2>2. PICK r \in d.revenue : SameRevenue(r, row)
    BY <1>6
  <2>3. r.type = "invoice" /\ r.on = c
    BY <1>2, <2>2 DEF SameRevenue, Sound, RowsOk, Sourced
  <2>4. Invoices(x, c) # {}
    BY <2>1, <2>3 DEF Invoices
  <2> HIDE DEF x
  <2> QED
    BY <1>3, <1>4, <1>5, <2>1, <2>4
<1>7. CASE \A r \in d.revenue : ~SameRevenue(r, row)
  <2>1. /\ IsDb(x) /\ RowsOk(x, S, lim, R) /\ x.ledger = d.ledger /\ Grows(x, d)
        /\ Refunded(x, d, {})
        /\ \A q \in Charge : Cents(ByEvents(d, q)) <= Cents(ByEvents(x, q))
    BY <1>1, <1>2, <1>7, RecordedKept DEF Sound
  <2>2. x.revenue = d.revenue \cup {row}
    BY <1>2, <1>7, RecordedSums DEF Sound, RowsOk
  <2> HIDE DEF x
  <2>3. Invoices(x, c) # {}
    BY <1>2, <2>2 DEF Invoices
  <2>4. Kept(x, d, {}, S, lim, R)
    BY <2>1, RevenueKept
  <2> QED
    BY <1>3, <1>4, <1>5, <2>3, <2>4
<1> QED
  BY <1>6, <1>7

LEMMA RefundKept ==
  ASSUME NEW S \in Seq(Event), NEW lim \in [Charge -> Nat], NEW R, NEW d, Sound(d, S, lim, R),
         NEW n \in 1..Len(S), S[n].type = "refund", S[n].cents <= lim[S[n].on]
  PROVE  LET W == RefundWrites(d, n, S[n].on, S[n].cents)
         IN /\ \A x \in Range(W) : Kept(x, d, {S[n].on}, S, lim, R)
            /\ S[n].cents <= SumRefunds(Last(W), S[n].on)
<1> DEFINE c == S[n].on
           total == S[n].cents
           delta == RefundDelta(d, c, total)
           row == RowOf("refund", KeyOf("event", c, n), c, delta, d.linked)
           d1 == Recorded(d, row)
           key == KeyOf("refund", c, n)
           d2 == ClawbackPrepaidCredits(d1, key, delta)
           W == RefundWrites(d, n, c, total)
<1>1. c \in Charge /\ total \in Nat
  <2>1. S[n] \in Event
    OBVIOUS
  <2> QED
    BY <2>1 DEF Event
<1>2. RowsFine(d) /\ SumRefunds(d, c) \in Nat /\ Cents(ByEvents(d, c)) \in Nat
      /\ Cents(ByEvents(d, c)) <= SumRefunds(d, c)
  BY RowsMoney DEF Sound, RowsOk
<1>3. delta \in Nat /\ total <= SumRefunds(d, c) + delta
      /\ (delta # 0 => SumRefunds(d, c) + delta = total)
  <2>1. total - SumRefunds(d, c) \in Int /\ 0 \in Int
    BY <1>1, <1>2
  <2> DEFINE m == Max({0, total - SumRefunds(d, c)})
  <2>2. m \in {0, total - SumRefunds(d, c)} /\ m >= 0 /\ m >= total - SumRefunds(d, c)
    BY <2>1, OfTwo, Zenon
  <2>3. delta = m
    BY DEF RefundDelta
  <2> HIDE DEF m, delta
  <2> QED
    BY <1>1, <1>2, <2>2, <2>3
<1>4. W = IF delta = 0 THEN <<d>> ELSE IF ~d.linked THEN <<d, d1>> ELSE <<d, d1, d2>>
  BY DEF RefundWrites
<1>5. Kept(d, d, {c}, S, lim, R)
  BY KeptSelf
<1> HIDE DEF delta, W
<1>6. CASE delta = 0
  <2>1. Range(W) = {d} /\ Last(W) = d
    BY <1>4, <1>6 DEF Range, Last
  <2> QED
    BY <1>1, <1>2, <1>3, <1>5, <1>6, <2>1 DEF W
<1>7. CASE delta # 0
  <2>1. IsRow(row) /\ row.on = c /\ row.type = "refund" /\ row.id = KeyOf("event", c, n)
        /\ row.id.by = "event" /\ row.id.n = n /\ row.cents = delta
    BY <1>3 DEF IsRow, RowOf, KeyOf
  <2> HIDE DEF row
  <2>2. ASSUME NEW r \in d.revenue
        PROVE  ~SameRevenue(r, row)
    <3> SUFFICES ASSUME SameRevenue(r, row)
                 PROVE  FALSE
      OBVIOUS
    <3>1. r.id = row.id
      BY <2>1 DEF SameRevenue
    <3>2. r.on = c /\ r.type = "refund"
      BY <2>1, <3>1 DEF Sound, RowsOk, Sourced
    <3>3. total <= SumRefunds(d, c)
      BY <2>1, <3>1, <3>2 DEF Sound, RowsOk, Sourced
    <3> QED
      BY <1>1, <1>2, <1>3, <1>7, <3>3
  <2>3. lim[c] \in Nat /\ Cents(ByEvents(d, c)) + delta <= lim[c] /\ SumRefunds(d, c) + delta <= lim[c]
    BY <1>1, <1>2, <1>3, <1>7
  <2>4. /\ IsDb(d1) /\ RowsOk(d1, S, lim, R) /\ d1.ledger = d.ledger /\ Grows(d1, d)
        /\ Refunded(d1, d, {c})
        /\ \A q \in Charge : Cents(ByEvents(d, q)) <= Cents(ByEvents(d1, q))
    BY <1>1, <1>3, <2>1, <2>2, <2>3, RecordedKept DEF Sound
  <2>5. /\ SumRefunds(d1, c) = SumRefunds(d, c) + delta
        /\ Cents(ByEvents(d1, c)) = Cents(ByEvents(d, c)) + delta
    BY <2>1, <2>2, RecordedSums DEF Sound, RowsOk, Adds
  <2> HIDE DEF d1
  <2>6. Kept(d1, d, {c}, S, lim, R) /\ Sound(d1, S, lim, R)
    BY <2>4, RevenueKept DEF Kept
  <2>7. key.by = "refund" /\ key.on = c
    BY DEF KeyOf
  <2>8. delta - Cents(Taken(d1, c)) <= Cents(ByEvents(d1, c))
    <3>1. Taken(d1, c) = Taken(d, c)
      BY <2>4 DEF Taken
    <3>2. -Cents(Taken(d, c)) <= Cents(ByEvents(d, c)) /\ Cents(Taken(d, c)) \in Int
      BY <1>1, LedgerMoney DEF Sound, WalletOk
    <3> QED
      BY <1>2, <1>3, <2>5, <3>1, <3>2
  <2> HIDE DEF key
  <2>9. /\ IsDb(d2) /\ WalletOk(d2) /\ Once(d2) /\ d2.revenue = d1.revenue /\ d1.ledger \subseteq d2.ledger
    BY <1>1, <1>3, <2>6, <2>7, <2>8, ClawbackKept DEF Sound, RowsOk
  <2> HIDE DEF d2
  <2>10. Kept(d2, d1, {c}, S, lim, R)
    BY <2>6, <2>9, LedgerKept
  <2>11. Kept(d2, d, {c}, S, lim, R)
    BY <2>6, <2>10, KeptTrans
  <2>12. SumRefunds(d2, c) = SumRefunds(d1, c)
    BY <2>6, <2>9, SameRows DEF Sound, RowsOk
  <2>13. total <= SumRefunds(d1, c) /\ total <= SumRefunds(d2, c)
    BY <1>3, <2>5, <2>12
  <2>14. Range(W) \subseteq {d, d1, d2} /\ Last(W) \in {d1, d2}
    BY <1>4, <1>7 DEF Range, Last
  <2> QED
    BY <1>5, <2>6, <2>11, <2>13, <2>14 DEF W
<1> QED
  BY <1>6, <1>7

LEMMA LinkedKept ==
  ASSUME NEW S, NEW lim, NEW R, NEW d, Sound(d, S, lim, R)
  PROVE  Kept(AssignUnlinked(d), d, {}, S, lim, R)
<1> DEFINE x == AssignUnlinked(d)
<1>1. /\ IsDb(x) /\ RowsOk(x, S, lim, R) /\ x.ledger = d.ledger
      /\ Grows(x, d) /\ Refunded(x, d, {})
      /\ \A c : Cents(ByEvents(x, c)) = Cents(ByEvents(d, c))
  BY AssignKept DEF Sound
<1>2. \A c \in Charge : Cents(ByEvents(d, c)) \in Nat
  BY RowsMoney DEF Sound, RowsOk
<1> HIDE DEF x
<1>3. \A c \in Charge : Cents(ByEvents(d, c)) <= Cents(ByEvents(x, c))
  BY <1>1, <1>2
<1> QED
  BY <1>1, <1>3, RevenueKept DEF x

LEMMA SetBillingRows ==
  ASSUME NEW d, IsDb(d), NEW s, NEW status
  PROVE  SetTenantBilling(d, s, status).revenue = d.revenue
BY DEF SetTenantBilling, IsDb, Fields

\* A subscription's events write the tenant's row, and link rows to it.
LEMMA SubscriptionKept ==
  ASSUME NEW S, NEW lim, NEW R, NEW d, Sound(d, S, lim, R), NEW e, e.on \in Sub, e.status \in Status,
         NEW x \in Range(SubscriptionWrites(d, e))
  PROVE  Kept(x, d, {}, S, lim, R)
<1> DEFINE d1 == WithPlan(d, PlanFor(e.on, e.status))
           d2 == SetTenantBilling(d1, e.on, e.status)
           d3 == AssignUnlinked(d2)
<1>1. IsDb(d1) /\ d1.revenue = d.revenue /\ d1.ledger = d.ledger
  <2>1. PlanFor(e.on, e.status) \in Paid \cup {"free"}
    BY PaidPlans DEF PlanFor
  <2> QED
    BY <2>1, WithPlanDb DEF Sound, IsDb, Fields, WithPlan
<1>2. SubscriptionWrites(d, e) \in {<<d>>, <<d, d1, d2, d3>>}
  BY DEF SubscriptionWrites
<1> HIDE DEF d1
<1>3. Kept(d, d, {}, S, lim, R) /\ Kept(d1, d, {}, S, lim, R)
  BY <1>1, KeptSelf, TenantKept
<1>4. IsDb(d2) /\ d2.revenue = d1.revenue /\ d2.ledger = d1.ledger
  BY <1>1, SetBillingDb, SetBillingRows
<1> HIDE DEF d2
<1>5. Kept(d2, d, {}, S, lim, R)
  BY <1>1, <1>4, TenantKept
<1>6. Kept(d3, d2, {}, S, lim, R) /\ Sound(d2, S, lim, R)
  BY <1>5, LinkedKept DEF Kept
<1> HIDE DEF d3
<1>7. Kept(d3, d, {}, S, lim, R)
  BY <1>5, <1>6, KeptTrans
<1>8. x \in {d, d1, d2, d3}
  BY <1>2 DEF Range
<1> QED
  BY <1>3, <1>5, <1>7, <1>8

LEMMA DeletedKept ==
  ASSUME NEW S, NEW lim, NEW R, NEW d, Sound(d, S, lim, R), NEW e, e.on \in Sub, e.status \in Status,
         NEW x \in Range(DeletedWrites(d, e))
  PROVE  Kept(x, d, {}, S, lim, R)
<1> DEFINE d1 == WithPlan(d, "free")
           d2 == [d1 EXCEPT !.sub = e.on, !.status = e.status]
<1>1. IsDb(d1) /\ d1.revenue = d.revenue /\ d1.ledger = d.ledger
  BY WithPlanDb DEF Sound, IsDb, Fields, WithPlan
<1>2. DeletedWrites(d, e) \in {<<d>>, <<d, d1, d2>>}
  BY DEF DeletedWrites
<1> HIDE DEF d1
<1>3. IsDb(d2) /\ d2.revenue = d1.revenue /\ d2.ledger = d1.ledger
  BY <1>1 DEF IsDb, Fields
<1> HIDE DEF d2
<1>4. Kept(d, d, {}, S, lim, R) /\ Kept(d1, d, {}, S, lim, R) /\ Kept(d2, d, {}, S, lim, R)
  BY <1>1, <1>3, KeptSelf, TenantKept
<1>5. x \in {d, d1, d2}
  BY <1>2 DEF Range
<1> QED
  BY <1>4, <1>5

LEMMA CheckoutKept ==
  ASSUME NEW S, NEW lim, NEW R, NEW d, Sound(d, S, lim, R), NEW s \in Sub, NEW status \in Status,
         NEW x \in Range(CheckoutWrites(d, s, status))
  PROVE  Kept(x, d, {}, S, lim, R)
<1> DEFINE d1 == IF Unlocks(status) THEN WithPlan(d, PlanOf[s]) ELSE d
           d2 == SetTenantBilling(d1, s, status)
           d3 == AssignUnlinked(d2)
<1>1. IsDb(d1) /\ d1.revenue = d.revenue /\ d1.ledger = d.ledger
  BY WithPlanDb, PaidPlans DEF Sound, IsDb, Fields, WithPlan
<1>2. CheckoutWrites(d, s, status) = <<d, d1, d2, d3>>
  BY DEF CheckoutWrites
<1> HIDE DEF d1
<1>3. Kept(d, d, {}, S, lim, R) /\ Kept(d1, d, {}, S, lim, R)
  BY <1>1, KeptSelf, TenantKept
<1>4. IsDb(d2) /\ d2.revenue = d1.revenue /\ d2.ledger = d1.ledger
  BY <1>1, SetBillingDb, SetBillingRows
<1> HIDE DEF d2
<1>5. Kept(d2, d, {}, S, lim, R)
  BY <1>1, <1>4, TenantKept
<1>6. Kept(d3, d2, {}, S, lim, R) /\ Sound(d2, S, lim, R)
  BY <1>5, LinkedKept DEF Kept
<1> HIDE DEF d3
<1>7. Kept(d3, d, {}, S, lim, R)
  BY <1>5, <1>6, KeptTrans
<1>8. x \in {d, d1, d2, d3}
  BY <1>2 DEF Range
<1> QED
  BY <1>3, <1>5, <1>7, <1>8

-----------------------------------------------------------------------------
(* What Stripe sends of money: a charge's refunds add up, and a top-up or  *)
(* an invoice is an act of the story.                                      *)

Lims == [c \in Charge |-> RefundedAt(c)]
Acted(e) == \E i \in DOMAIN story.acts :
  story.acts[i].do = e.type /\ story.acts[i].on = e.on /\ story.acts[i].cents = e.cents
Sold(e) ==
  /\ e.type = "refund" => e.cents <= RefundedAt(e.on)
  /\ e.type \in {"topUp", "invoice"} => Acted(e)
Rising(c) == \A k \in 1..(Len(refunds[c]) - 1) : refunds[c][k] <= refunds[c][k + 1]
Sales ==
  /\ \A c \in Charge : Rising(c)
  /\ \A n \in 1..Len(sent) : Sold(sent[n])

\* From a state to the next the events become more, and what is refunded.
More ==
  /\ \A n \in 1..Len(sent) : n \in 1..Len(sent') /\ sent'[n] = sent[n]
  /\ \A c \in Charge : Lims[c] <= Lims'[c]

LEMMA LimsNat == ASSUME Inv PROVE Lims \in [Charge -> Nat] /\ \A c \in Charge : Lims[c] = RefundedAt(c)
BY RefundedNat DEF Lims

LEMMA SalesSame ==
  ASSUME Inv, Sales, UNCHANGED <<story, refunds, sent>>
  PROVE  Sales' /\ More
<1>1. UNCHANGED Lims /\ \A c \in Charge : Lims[c] \in Nat
  <2>1. UNCHANGED Lims
    BY DEF Lims, RefundedAt
  <2> QED
    BY <2>1, LimsNat
<1>2. More
  BY <1>1 DEF More
<1>3. Sales'
  BY DEF Sales, Sold, Rising, Acted, RefundedAt
<1> QED
  BY <1>2, <1>3

LEMMA RefundedNatNext ==
  ASSUME Inv', NEW c \in Charge
  PROVE  RefundedAt(c)' \in Nat
<1>1. refunds'[c] \in Seq(Nat)
  BY DEF Inv, Stripe
<1>2. refunds'[c] # <<>> => refunds'[c][Len(refunds'[c])] \in Nat
  BY <1>1
<1> QED
  BY <1>2 DEF RefundedAt, Last

\* Events that are sent, the refunds of one charge growing at most.
LEMMA SalesMore ==
  ASSUME Inv, Inv', Sales, UNCHANGED story, NEW k \in Seq(Event), sent' = sent \o k,
         \A c \in Charge : RefundedAt(c) <= RefundedAt(c)' /\ Rising(c)',
         \A n \in 1..Len(k) : Sold(k[n])'
  PROVE  Sales' /\ More
<1>1. sent \in Seq(Event)
  BY DEF Inv, Stripe
<1>2. Len(sent') = Len(sent) + Len(k)
  BY <1>1
<1>3. \A n \in 1..Len(sent) : sent'[n] = sent[n] /\ n \in 1..Len(sent') /\ sent[n] \in Event
  BY <1>1
<1>4. ASSUME NEW n \in 1..Len(sent')
      PROVE  Sold(sent[n])'
  <2>1. CASE n <= Len(sent)
    <3>1. n \in 1..Len(sent)
      BY <1>1, <2>1
    <3>2. Sold(sent[n]) /\ sent'[n] = sent[n] /\ sent[n] \in Event
      BY <1>3, <3>1 DEF Sales
    <3>3. sent[n].on \in Charge /\ sent[n].cents \in Nat
      BY <3>2 DEF Event
    <3>4. PICK c \in Charge : c = sent[n].on
      BY <3>3
    <3>5. RefundedAt(c) \in Nat /\ RefundedAt(c)' \in Nat /\ RefundedAt(c) <= RefundedAt(c)'
      BY RefundedNat, RefundedNatNext
    <3>6. sent[n].type = "refund" => sent[n].cents <= RefundedAt(c)
      BY <3>2, <3>4 DEF Sold
    <3>7. sent'[n].type = "refund" => sent'[n].cents <= RefundedAt(c)'
      BY <3>2, <3>3, <3>5, <3>6
    <3>8. RefundedAt(sent[n].on)' = RefundedAt(c)'
      BY <3>2, <3>4 DEF RefundedAt
    <3>9. sent'[n].type \in {"topUp", "invoice"} => Acted(sent[n])'
      BY <3>2 DEF Sold, Acted
    <3> QED
      BY <3>7, <3>8, <3>9 DEF Sold
  <2>2. CASE n > Len(sent)
    <3>1. n - Len(sent) \in 1..Len(k)
      BY <1>1, <1>2, <2>2
    <3>2. sent'[n] = k[n - Len(sent)]
      BY <1>1, <1>2, <2>2
    <3> QED
      BY <3>1, <3>2 DEF Sold
  <2> QED
    BY <1>1, <1>2, <2>1, <2>2
<1>5. More
  <2>1. \A c \in Charge : Lims[c] = RefundedAt(c) /\ Lims'[c] = RefundedAt(c)'
    BY DEF Lims
  <2> QED
    BY <1>3, <2>1 DEF More
<1> QED
  BY <1>4, <1>5 DEF Sales

\* An event that is neither a refund, nor a top-up, nor an invoice.
LEMMA TurnsSales ==
  ASSUME Inv, Inv', Sales, UNCHANGED <<story, refunds>>, NEW s \in Sub, NEW status,
         NEW type \in {"updated", "deleted"}, <<status, type>> \in {<<"past_due", "updated">>,
                         <<"active", "updated">>, <<"canceled", "deleted">>},
         Turns(s, status, type)
  PROVE  Sales' /\ More
<1>1. CASE UNCHANGED sent
  BY <1>1, SalesSame
<1>2. CASE sent' = Append(sent, Said(type, s, status, 0))
  <2>1. PICK e \in Event : e = Said(type, s, status, 0)
    BY SaidEvent DEF Charge, Status
  <2>2. e.type = type
    BY <2>1 DEF Said
  <2>3. sent \in Seq(Event) /\ <<e>> \in Seq(Event) /\ sent' = sent \o <<e>>
        /\ Len(<<e>>) = 1 /\ <<e>>[1] = e
    <3>1. sent \in Seq(Event)
      BY DEF Inv, Stripe
    <3> QED
      BY <1>2, <2>1, <3>1
  <2>4. \A n \in 1..Len(<<e>>) : Sold(<<e>>[n])'
    BY <2>2, <2>3 DEF Sold
  <2>5. \A c \in Charge : RefundedAt(c) <= RefundedAt(c)' /\ Rising(c)'
    <3>1. \A c \in Charge : RefundedAt(c)' = RefundedAt(c)
      BY DEF RefundedAt
    <3>2. \A c \in Charge : RefundedAt(c) <= RefundedAt(c)'
      BY <3>1, RefundedNat
    <3> QED
      BY <3>2 DEF Sales, Rising
  <2> QED
    BY <2>3, <2>4, <2>5, SalesMore
<1> QED
  BY <1>1, <1>2 DEF Turns

LEMMA RefundsRise ==
  ASSUME Inv, Sales, NEW c \in Charge, NEW cents \in Nat,
         refunds' = [refunds EXCEPT ![c] = Append(refunds[c], RefundedAt(c) + cents)]
  PROVE  /\ \A q \in Charge : RefundedAt(q) <= RefundedAt(q)' /\ Rising(q)'
         /\ RefundedAt(c)' = RefundedAt(c) + cents
<1>1. refunds \in [Charge -> Seq(Nat)] /\ \A q \in Charge : RefundedAt(q) \in Nat /\ Rising(q)
  BY RefundedNat DEF Inv, Stripe, Sales
<1>2. \A q \in Charge \ {c} : refunds'[q] = refunds[q]
  BY <1>1
<1>3. \A q \in Charge \ {c} : RefundedAt(q)' = RefundedAt(q) /\ Rising(q)'
  BY <1>1, <1>2 DEF RefundedAt, Rising
<1> DEFINE old == refunds[c]
           new == refunds'[c]
           top == RefundedAt(c) + cents
<1>4. old \in Seq(Nat) /\ new = Append(old, top) /\ top \in Nat
  BY <1>1
<1>5. new \in Seq(Nat) /\ Len(new) = Len(old) + 1 /\ new[Len(old) + 1] = top /\ new # <<>>
      /\ \A k \in 1..Len(old) : new[k] = old[k]
  <2> HIDE DEF old, new, top
  <2>1. Len(new) = Len(old) + 1 /\ new \in Seq(Nat)
    BY <1>4
  <2>2. new[Len(old) + 1] = top
    BY <1>4
  <2>3. new # <<>>
    BY <1>4, <2>1
  <2>4. \A k \in 1..Len(old) : new[k] = old[k]
    BY <1>4
  <2> QED
    BY <2>1, <2>2, <2>3, <2>4
<1>6. RefundedAt(c)' = top
  <2>1. RefundedAt(c)' = new[Len(new)]
    BY <1>5 DEF RefundedAt, Last
  <2> HIDE DEF new
  <2> QED
    BY <1>5, <2>1
<1>7. Rising(c)'
  <2> SUFFICES ASSUME NEW k \in 1..(Len(new) - 1)
               PROVE  new[k] <= new[k + 1]
    BY DEF Rising
  <2>1. CASE k = Len(old)
    <3>1. old # <<>> /\ RefundedAt(c) = old[Len(old)]
      <4>1. old # <<>>
        BY <1>4, <1>5, <2>1
      <4> QED
        BY <4>1 DEF RefundedAt, Last
    <3> HIDE DEF new, old
    <3> QED
      BY <1>1, <1>4, <1>5, <2>1, <3>1 DEF top
  <2>2. CASE k # Len(old)
    <3>1. k \in 1..Len(old) /\ k + 1 \in 1..Len(old) /\ k \in 1..(Len(old) - 1)
      BY <1>4, <1>5, <2>2
    <3>2. old[k] <= old[k + 1]
      BY <1>1, <3>1 DEF Rising
    <3> QED
      BY <1>5, <3>1, <3>2
  <2> QED
    BY <2>1, <2>2
<1>8. RefundedAt(c) <= RefundedAt(c)'
  BY <1>1, <1>6
<1>9. \A q \in Charge \ {c} : RefundedAt(q) <= RefundedAt(q)'
  BY <1>1, <1>3
<1> QED
  BY <1>3, <1>6, <1>7, <1>8, <1>9

LEMMA HappensSales == ASSUME Inv, Inv', Sales, Happens PROVE Sales' /\ More
<1>1. told < Len(story.acts) /\ UNCHANGED story
  BY DEF Happens
<1>2. PICK a \in Act : a = story.acts[told + 1]
  BY <1>1, ActOf
<1>3. told + 1 \in DOMAIN story.acts
  <2>1. IsStory(story) /\ told \in 0..Len(story.acts)
    BY StoryAssumption DEF Inv, Stripe
  <2>2. story.acts \in Seq(Act)
    BY <2>1 DEF IsStory
  <2> QED
    BY <1>1, <2>1, <2>2
<1>4. a.do \in {"subscribe", "lapse", "recover", "cancel"} => a.on \in Sub
  BY <1>1, <1>2, ActOf
<1>5. a.on \in Charge /\ a.cents \in Nat /\ sent \in Seq(Event)
  BY <1>2 DEF Act, Inv, Stripe
<1>6. \/ a.do = "subscribe" /\ Subscribes(a.on) /\ UNCHANGED refunds
      \/ a.do = "lapse" /\ Turns(a.on, "past_due", "updated") /\ UNCHANGED refunds
      \/ a.do = "recover" /\ Turns(a.on, "active", "updated") /\ UNCHANGED refunds
      \/ a.do = "cancel" /\ Turns(a.on, "canceled", "deleted") /\ UNCHANGED refunds
      \/ a.do = "refund" /\ Refunds(a.on, a.cents)
      \/ /\ a.do \in {"topUp", "invoice", "dispute"}
         /\ sent' = Append(sent, Said(a.do, a.on, "none", a.cents))
         /\ UNCHANGED <<stripe, refunds, lapsed>>
  BY <1>2 DEF Happens
<1>7. CASE a.do \in {"lapse", "recover", "cancel"}
  BY <1>1, <1>4, <1>6, <1>7, TurnsSales
<1>8. CASE a.do \in {"subscribe", "topUp", "invoice", "dispute"}
  <2>1. UNCHANGED refunds
    BY <1>6, <1>8
  <2>2. \A c \in Charge : RefundedAt(c) <= RefundedAt(c)' /\ Rising(c)'
    <3>1. \A c \in Charge : RefundedAt(c)' = RefundedAt(c)
      BY <2>1 DEF RefundedAt
    <3>2. \A c \in Charge : RefundedAt(c) <= RefundedAt(c)'
      BY <3>1, RefundedNat
    <3> QED
      BY <2>1, <3>2 DEF Sales, Rising
  <2>3. CASE a.do = "subscribe"
    <3>1. PICK e1 \in Event : e1 = Said("created", a.on, "active", 0)
      BY <1>5, SaidEvent DEF Status
    <3>2. PICK e2 \in Event : e2 = Said("checkout", a.on, "active", 0)
      BY <1>5, SaidEvent DEF Status
    <3>3. e1.type = "created" /\ e2.type = "checkout" /\ sent' = sent \o <<e1, e2>>
      BY <1>6, <2>3, <3>1, <3>2 DEF Said, Subscribes
    <3>4. <<e1, e2>> \in Seq(Event) /\ \A n \in 1..Len(<<e1, e2>>) : Sold(<<e1, e2>>[n])'
      BY <3>3 DEF Sold
    <3> QED
      BY <1>1, <2>2, <3>3, <3>4, SalesMore
  <2>4. CASE a.do # "subscribe"
    <3>1. PICK e \in Event : e = Said(a.do, a.on, "none", a.cents)
      BY <1>5, <1>8, <2>4, SaidEvent DEF Status
    <3>2. e.type = a.do /\ e.on = a.on /\ e.cents = a.cents
      BY <3>1 DEF Said
    <3>3. sent' = sent \o <<e>>
      BY <1>5, <1>6, <1>8, <2>4, <3>1
    <3>4. Sold(e)'
      <4>1. Acted(e)'
        BY <1>1, <1>2, <1>3, <3>2 DEF Acted
      <4> QED
        BY <1>8, <3>2, <4>1 DEF Sold
    <3>5. <<e>> \in Seq(Event) /\ \A n \in 1..Len(<<e>>) : Sold(<<e>>[n])'
      BY <3>4
    <3> QED
      BY <1>1, <2>2, <3>3, <3>5, SalesMore
  <2> QED
    BY <2>3, <2>4
<1>9. CASE a.do = "refund"
  <2>1. /\ refunds' = [refunds EXCEPT ![a.on] = Append(refunds[a.on], RefundedAt(a.on) + a.cents)]
        /\ sent' = Append(sent, Said("refund", a.on, "none", RefundedAt(a.on) + a.cents))
    BY <1>6, <1>9 DEF Refunds
  <2>2. /\ \A q \in Charge : RefundedAt(q) <= RefundedAt(q)' /\ Rising(q)'
        /\ RefundedAt(a.on)' = RefundedAt(a.on) + a.cents
    <3>1. PICK c \in Charge : c = a.on
      BY <1>5
    <3>2. PICK cents \in Nat : cents = a.cents
      BY <1>5
    <3>3. refunds' = [refunds EXCEPT ![c] = Append(refunds[c], RefundedAt(c) + cents)]
      BY <2>1, <3>1, <3>2
    <3>4. /\ \A q \in Charge : RefundedAt(q) <= RefundedAt(q)' /\ Rising(q)'
          /\ RefundedAt(c)' = RefundedAt(c) + cents
      BY <3>3, RefundsRise
    <3>5. RefundedAt(a.on)' = RefundedAt(c)'
      BY <1>1, <1>2, <3>1 DEF RefundedAt
    <3> QED
      BY <3>1, <3>2, <3>4, <3>5
  <2>3. RefundedAt(a.on) \in Nat
    BY <1>5, RefundedNat
  <2>4. PICK e \in Event : e = Said("refund", a.on, "none", RefundedAt(a.on) + a.cents)
    BY <1>5, <2>3, SaidEvent DEF Status
  <2>5. e.type = "refund" /\ e.on = a.on /\ e.cents = RefundedAt(a.on) + a.cents
    BY <2>4 DEF Said
  <2>6. sent' = sent \o <<e>>
    BY <1>5, <2>1, <2>4
  <2>7. Sold(e)'
    <3>1. e.cents <= RefundedAt(a.on)'
      BY <1>5, <2>2, <2>3, <2>5
    <3>2. RefundedAt(e.on)' = RefundedAt(a.on)'
      BY <2>5 DEF RefundedAt
    <3> QED
      BY <2>5, <3>1, <3>2 DEF Sold
  <2>8. <<e>> \in Seq(Event) /\ \A n \in 1..Len(<<e>>) : Sold(<<e>>[n])'
    BY <2>7
  <2> QED
    BY <1>1, <2>2, <2>6, <2>8, SalesMore
<1> QED
  BY <1>2, <1>7, <1>8, <1>9 DEF Act

LEMMA SalesStep == ASSUME Inv, Inv', Sales, [Next]_vars PROVE Sales' /\ More
<1>1. CASE Happens
  BY <1>1, HappensSales
<1>2. CASE \E n \in Id : CancelSubscription(n)
  <2>1. PICK n \in Id : CancelSubscription(n)
    BY <1>2
  <2>2. claim[n] = "cancelling" /\ UNCHANGED <<story, refunds>>
        /\ (Turns(prior[n], "canceled", "deleted") \/ UNCHANGED sent)
    BY <2>1 DEF CancelSubscription
  <2>3. prior[n] \in Sub
    BY <2>2 DEF Inv, Claims
  <2> QED
    BY <2>2, <2>3, TurnsSales, SalesSame
<1>3. CASE UNCHANGED <<stripeVars, sent>>
  BY <1>3, SalesSame DEF stripeVars
<1>4. Happens \/ (\E n \in Id : CancelSubscription(n)) \/ UNCHANGED <<stripeVars, sent>>
  BY DEF Next, vars, Handle, Process, StartCheckout, GetSubscription, Spend, Sync, ListInvoices,
         ListCharges, ListRefunds, SyncFails, Crash
<1> QED
  BY <1>1, <1>2, <1>3, <1>4

-----------------------------------------------------------------------------
(* What the reconciliation holds while it waits for a charge's refunds.    *)

\* What it read of the charges is not beyond what Stripe refunded, and what it
\* read of the rows is what they hold, but for what webhooks recorded since.
Asks(y, d, lim, R) ==
  y.at = "refunds" =>
    /\ y.of \in Charge /\ y.was \in Nat /\ y.seen \in [Charge -> Nat] /\ y.left \in Seq(Charge)
    /\ \A c \in Charge : y.seen[c] <= lim[c]
    /\ y.was <= SumRefunds(d, y.of)
    /\ y.of \notin R => SumRefunds(d, y.of) = y.was

LEMMA ChargesListed == SetToSeq(Charge) \in Seq(Charge)
<1>1. IsFiniteSet(Charge)
  BY SubAssumption DEF Charge
<1>2. Cardinality(Charge) \in Nat /\ ExistsBijection(1..Cardinality(Charge), Charge)
  BY <1>1, FS_CardinalityType
<1>3. \E f \in [1..Cardinality(Charge) -> Charge] : IsInjective(f)
  BY <1>2 DEF ExistsBijection, Bijection, Injection, IsInjective
<1>4. SetToSeq(Charge) \in [1..Cardinality(Charge) -> Charge]
  BY <1>3, Zenon DEF SetToSeq
<1> QED
  BY <1>2, <1>4

LEMMA ReadAsks ==
  ASSUME NEW d, RowsFine(d), NEW left \in Seq(Charge), NEW seen \in [Charge -> Nat],
         NEW lim \in [Charge -> Nat], \A c \in Charge : seen[c] <= lim[c], NEW R, NEW of \in Charge
  PROVE  Asks([at |-> "refunds", left |-> left, seen |-> seen, of |-> of, was |-> SumRefunds(d, of)], d, lim, R)
<1> DEFINE was == SumRefunds(d, of)
           y == [at |-> "refunds", left |-> left, seen |-> seen, of |-> of, was |-> was]
<1>1. was \in Nat /\ was = SumRefunds(d, of) /\ was <= was
  BY RowsMoney
<1>2. y.left = left /\ y.seen = seen /\ y.of = of /\ y.was = was
  OBVIOUS
<1> HIDE DEF was, y
<1>3. Asks(y, d, lim, R)
  BY <1>1, <1>2 DEF Asks
<1> QED
  BY <1>3 DEF y, was

LEMMA TurnAsks ==
  ASSUME NEW d, RowsFine(d), NEW left \in Seq(Charge), NEW seen \in [Charge -> Nat],
         NEW lim \in [Charge -> Nat], \A c \in Charge : seen[c] <= lim[c], NEW R
  PROVE  Asks(Turn(d, left, seen), d, lim, R)
<1> DEFINE I == {j \in 1..Len(left) : seen[left[j]] > SumRefunds(d, left[j])}
           i == SelectInSeq(left, LAMBDA c : seen[c] > SumRefunds(d, c))
<1>1. i = IF I # {} THEN Min(I) ELSE 0
  BY DEF SelectInSeq
<1>2. I # {} => Min(I) \in I
  <2>1. I \subseteq Nat
    OBVIOUS
  <2>2. I # {} => \E j \in I : \A k \in I : j <= k
    <3> HIDE DEF I
    <3> QED
      BY <2>1, LeastExists
  <2> HIDE DEF I
  <2> QED
    BY <2>2 DEF Min
<1>3. i # 0 => i \in 1..Len(left)
  <2> HIDE DEF i
  <2> QED
    BY <1>1, <1>2
<1>4. Turn(d, left, seen) =
        IF i = 0 THEN NoSync
        ELSE [at |-> "refunds", left |-> SubSeq(left, i + 1, Len(left)), seen |-> seen,
              of |-> left[i], was |-> SumRefunds(d, left[i])]
  BY DEF Turn
<1> HIDE DEF i, I
<1>5. CASE i = 0
  BY <1>4, <1>5 DEF Asks, NoSync
<1>6. CASE i # 0
  <2>1. left[i] \in Charge /\ SubSeq(left, i + 1, Len(left)) \in Seq(Charge)
    <3>1. i \in Nat /\ i >= 1 /\ i <= Len(left) /\ Len(left) \in Nat
      BY <1>3, <1>6
    <3>2. \A k \in (i + 1)..Len(left) : left[k] \in Charge
      BY <3>1
    <3> QED
      BY <3>1, <3>2
  <2>2. PICK of \in Charge : of = left[i]
    BY <2>1
  <2>3. PICK rest \in Seq(Charge) : rest = SubSeq(left, i + 1, Len(left))
    BY <2>1
  <2>4. Turn(d, left, seen) =
          [at |-> "refunds", left |-> rest, seen |-> seen, of |-> of, was |-> SumRefunds(d, of)]
    BY <1>4, <1>6, <2>2, <2>3, Zenon
  <2> QED
    BY <2>4, ReadAsks
<1> QED
  BY <1>5, <1>6

\* What the handlers record keeps it so; refunds of the charge asked for raise
\* the rows, and are in R then.
LEMMA AsksKept ==
  ASSUME NEW y, NEW d, NEW x, RowsFine(d), RowsFine(x), NEW lim \in [Charge -> Nat],
         NEW more \in [Charge -> Nat], \A c \in Charge : lim[c] <= more[c],
         NEW R, NEW Q, R \subseteq Q, Asks(y, d, lim, R), Grows(x, d), NEW C, Refunded(x, d, C),
         y.at = "refunds" /\ y.of \in C => y.of \in Q
  PROVE  Asks(y, x, more, Q)
<1> SUFFICES ASSUME y.at = "refunds"
             PROVE  Asks(y, x, more, Q)
  BY DEF Asks
<1>1. /\ y.of \in Charge /\ y.was \in Nat /\ y.seen \in [Charge -> Nat] /\ y.left \in Seq(Charge)
      /\ \A c \in Charge : y.seen[c] <= lim[c]
      /\ y.was <= SumRefunds(d, y.of)
      /\ y.of \notin R => SumRefunds(d, y.of) = y.was
  BY DEF Asks
<1>2. SumRefunds(d, y.of) \in Nat /\ SumRefunds(x, y.of) \in Nat
  BY RowsMoney
<1>3. \A c \in Charge : y.seen[c] <= more[c]
  <2> SUFFICES ASSUME NEW c \in Charge
               PROVE  y.seen[c] <= more[c]
    OBVIOUS
  <2>1. y.seen[c] \in Nat /\ lim[c] \in Nat /\ more[c] \in Nat /\ y.seen[c] <= lim[c] /\ lim[c] <= more[c]
    BY <1>1
  <2> QED
    BY <2>1
<1>4. SumRefunds(d, y.of) <= SumRefunds(x, y.of)
  BY <1>1 DEF Grows
<1>5. y.of \notin Q => SumRefunds(x, y.of) = SumRefunds(d, y.of)
  BY <1>1 DEF Refunded
<1> QED
  BY <1>1, <1>2, <1>3, <1>4, <1>5 DEF Asks

-----------------------------------------------------------------------------
(* The rows that the reconciliation adds.                                  *)

LEMMA AddedFine ==
  ASSUME NEW d, RowsFine(d), NEW more, IsFiniteSet(more), \A r \in more : IsRow(r),
         \A r, s \in more : SameRevenue(r, s) => r = s,
         \A r \in d.revenue, s \in more : ~SameRevenue(r, s),
         NEW x, x.revenue = d.revenue \cup more
  PROVE  RowsFine(x)
<1>1. IsFiniteSet(x.revenue)
  BY FS_Union DEF RowsFine
<1>2. \A r \in d.revenue, s \in more : ~SameRevenue(s, r)
  BY DEF SameRevenue
<1> QED
  BY <1>1, <1>2 DEF RowsFine

\* The charge that the reconciliation asks for.
Asking == sync.at = "refunds" /\ Asks(sync, db, Lims, raced)

LEMMA Totals ==
  ASSUME Inv, Sales, NEW c \in Charge
  PROVE  /\ Len(refunds[c]) \in Nat /\ Total(c, Len(refunds[c])) = Lims[c]
         /\ \A k \in 0..Len(refunds[c]) : Total(c, k) \in Nat
         /\ \A k \in 1..Len(refunds[c]) : Total(c, k - 1) <= Total(c, k)
<1>1. refunds[c] \in Seq(Nat) /\ Rising(c)
  BY DEF Inv, Stripe, Sales
<1>2. \A k \in 1..Len(refunds[c]) : Total(c, k) = refunds[c][k] /\ refunds[c][k] \in Nat
  BY <1>1 DEF Total
<1>3. Total(c, 0) = 0
  BY DEF Total
<1>4. \A k \in 0..Len(refunds[c]) : Total(c, k) \in Nat
  BY <1>1, <1>2, <1>3
<1>5. ASSUME NEW k \in 1..Len(refunds[c])
      PROVE  Total(c, k - 1) <= Total(c, k)
  <2>1. CASE k = 1
    BY <1>2, <1>3, <2>1
  <2>2. CASE k # 1
    <3>1. k - 1 \in 1..(Len(refunds[c]) - 1) /\ k - 1 \in 1..Len(refunds[c]) /\ (k - 1) + 1 = k
      BY <1>1, <2>2
    <3>2. refunds[c][k - 1] <= refunds[c][(k - 1) + 1]
      BY <1>1, <3>1 DEF Rising
    <3> QED
      BY <1>2, <3>1, <3>2
  <2> QED
    BY <2>1, <2>2
<1>6. Total(c, Len(refunds[c])) = Lims[c]
  <2>1. CASE refunds[c] = <<>>
    <3>1. Len(refunds[c]) = 0
      BY <2>1
    <3> QED
      BY <1>3, <2>1, <3>1 DEF Lims, RefundedAt
  <2>2. CASE refunds[c] # <<>>
    <3>1. Len(refunds[c]) \in 1..Len(refunds[c])
      BY <1>1, <2>2
    <3> QED
      BY <1>2, <2>2, <3>1 DEF Lims, RefundedAt, Last
  <2> QED
    BY <2>1, <2>2
<1> QED
  BY <1>1, <1>4, <1>5, <1>6

\* One refund's row.
LEMMA RefundRowFine ==
  ASSUME Inv, Sales, Asking, NEW k \in 1..Len(refunds[sync.of])
  PROVE  LET c == sync.of
             row == RefundRow(c, k)
         IN /\ IsRow(row) /\ row.type = "refund" /\ row.on = c /\ row.id = KeyOf("refund", c, k)
            /\ row.id.by = "refund" /\ row.id.n = k
            /\ row.cents = Uncovered(c, k)
            /\ Total(c, k) <= sync.was => row.cents = 0
            /\ Total(c, k) > sync.was /\ Total(c, k - 1) <= sync.was => row.cents = Total(c, k) - sync.was
            /\ Total(c, k - 1) > sync.was => row.cents = Total(c, k) - Total(c, k - 1)
<1> DEFINE c == sync.of
           row == RefundRow(c, k)
           a == Total(c, k - 1)
           b == Total(c, k)
           was == sync.was
<1>1. c \in Charge /\ was \in Nat
  BY DEF Asking, Asks
<1>2. a \in Nat /\ b \in Nat /\ a <= b
  <2>1. k - 1 \in 0..Len(refunds[c]) /\ k \in 0..Len(refunds[c])
    BY <1>1, Totals
  <2> QED
    BY <1>1, <2>1, Totals
<1> DEFINE m == Max({was, a})
           u == Max({0, b - m})
<1>3. m \in {was, a} /\ m >= was /\ m >= a
  <2>1. was \in Int /\ a \in Int
    BY <1>1, <1>2
  <2> HIDE DEF was, a
  <2> QED
    BY <2>1, OfTwo
<1>4. m \in Int /\ b - m \in Int /\ 0 \in Int
  <2> HIDE DEF m, a, b, was
  <2> QED
    BY <1>1, <1>2, <1>3
<1>5. u \in {0, b - m} /\ u >= 0 /\ u >= b - m
  <2> HIDE DEF m, b
  <2> QED
    BY <1>4, OfTwo
<1>6. Uncovered(c, k) = u
  BY DEF Uncovered
<1> HIDE DEF m, u
<1>7. /\ u \in Nat /\ (b <= was => u = 0) /\ (b > was /\ a <= was => u = b - was)
      /\ (a > was => u = b - a)
  <2> HIDE DEF a, b, was
  <2> QED
    BY <1>1, <1>2, <1>3, <1>4, <1>5
<1>8. /\ row.type = "refund" /\ row.on = c /\ row.id = KeyOf("refund", c, k)
      /\ row.cents = u
      /\ row = [id |-> row.id, type |-> row.type, on |-> row.on, cents |-> row.cents, known |-> row.known]
  BY <1>6 DEF RefundRow, RowOf
<1>9. KeyOf("refund", c, k).by = "refund" /\ KeyOf("refund", c, k).n = k
  BY DEF KeyOf
<1> HIDE DEF row
<1> QED
  BY <1>6, <1>7, <1>8, <1>9 DEF IsRow, row

LEMMA NewRowsFine ==
  ASSUME Inv, Sales, RowsFine(db), Asking, NEW k \in 0..Len(refunds[sync.of])
  PROVE  LET N == NewRows(sync.of, k)
         IN /\ IsFiniteSet(N) /\ Money(N) /\ Cents(N) \in Nat
            /\ \A r \in N : IsRow(r) /\ r.type = "refund" /\ r.on = sync.of /\ r.id.by = "refund"
            /\ \A r, s \in N : SameRevenue(r, s) => r = s
            /\ \A r \in db.revenue, s \in N : ~SameRevenue(r, s)
<1> DEFINE c == sync.of
           N == NewRows(c, k)
           h == [j \in 1..k |-> RefundRow(c, j)]
<1>1. c \in Charge /\ k \in Nat /\ \A j \in 1..k : j \in 1..Len(refunds[c])
  <2>1. c \in Charge
    BY DEF Asking, Asks
  <2>2. Len(refunds[c]) \in Nat
    BY <2>1, Totals
  <2> QED
    BY <2>1, <2>2
<1>2. ASSUME NEW j \in 1..k
      PROVE  /\ IsRow(RefundRow(c, j)) /\ RefundRow(c, j).type = "refund" /\ RefundRow(c, j).on = c
             /\ RefundRow(c, j).id.by = "refund" /\ RefundRow(c, j).id.n = j
  BY <1>1, RefundRowFine
<1>3. \A r \in N : \E j \in 1..k : r = RefundRow(c, j)
  BY DEF NewRows
<1>4. \A r \in db.revenue, s \in N : r.id # s.id
  BY DEF NewRows
<1>5. IsFiniteSet(N)
  <2>1. IsFiniteSet(1..k)
    BY <1>1, FS_Interval
  <2>2. IsFiniteSet({h[j] : j \in 1..k})
    <3> HIDE DEF h
    <3> QED
      BY <2>1, FiniteImage
  <2>3. N \subseteq {h[j] : j \in 1..k}
    BY <1>3
  <2> HIDE DEF N, h
  <2> QED
    BY <2>2, <2>3, FS_Subset
<1> HIDE DEF N
<1>6. \A r \in N : IsRow(r) /\ r.type = "refund" /\ r.on = c /\ r.id.by = "refund"
  BY <1>2, <1>3
<1>7. \A r, s \in N : SameRevenue(r, s) => r = s
  <2> SUFFICES ASSUME NEW r \in N, NEW s \in N, SameRevenue(r, s)
               PROVE  r = s
    OBVIOUS
  <2>1. r.id = s.id
    BY <1>6 DEF SameRevenue
  <2>2. PICK i \in 1..k : r = RefundRow(c, i)
    BY <1>3
  <2>3. PICK j \in 1..k : s = RefundRow(c, j)
    BY <1>3
  <2>4. i = j
    BY <1>2, <2>1, <2>2, <2>3
  <2> QED
    BY <2>2, <2>3, <2>4
<1>8. \A r \in db.revenue, s \in N : ~SameRevenue(r, s)
  BY <1>4, <1>6 DEF SameRevenue
<1>9. Money(N) /\ Cents(N) \in Nat
  <2>1. \A r \in N : r.cents \in Nat
    BY <1>6 DEF IsRow
  <2>2. Money(N)
    BY <1>5, <2>1 DEF Money
  <2> QED
    BY <2>1, <2>2, CentsType
<1> QED
  BY <1>5, <1>6, <1>7, <1>8, <1>9 DEF N

\* Together the refunds' rows hold no more than was not covered: each holds what
\* its refund adds to the larger of what was covered and the refunds before.
LEMMA NewRowsSum ==
  ASSUME Inv, Sales, RowsFine(db), Asking, NEW k \in 0..Len(refunds[sync.of])
  PROVE  Cents(NewRows(sync.of, k)) <=
           IF Total(sync.of, k) > sync.was THEN Total(sync.of, k) - sync.was ELSE 0
<1> DEFINE c == sync.of
           was == sync.was
           Rest(j) == IF Total(c, j) > was THEN Total(c, j) - was ELSE 0
           Wrong == {j \in 0..Len(refunds[c]) : ~(Cents(NewRows(c, j)) <= Rest(j))}
<1>1. c \in Charge /\ was \in Nat
  BY DEF Asking, Asks
<1>2. /\ Len(refunds[c]) \in Nat
      /\ \A j \in 0..Len(refunds[c]) : Total(c, j) \in Nat
      /\ \A j \in 1..Len(refunds[c]) : Total(c, j - 1) <= Total(c, j)
  BY <1>1, Totals
<1>3. 0 \notin Wrong
  <2>1. NewRows(c, 0) = {}
    BY DEF NewRows
  <2>2. 0 <= Rest(0)
    BY <1>1, <1>2 DEF Total
  <2> QED
    BY <2>1, <2>2, CentsEmpty
<1>4. ASSUME NEW j \in 1..Len(refunds[c]), j - 1 \notin Wrong
      PROVE  j \notin Wrong
  <2> DEFINE row == RefundRow(c, j)
             before == NewRows(c, j - 1)
  <2>1. j - 1 \in 0..Len(refunds[c]) /\ j \in 0..Len(refunds[c])
    BY <1>2
  <2>2. Cents(before) <= Rest(j - 1) /\ Cents(before) \in Nat /\ Money(before)
    BY <1>4, <2>1, NewRowsFine
  <2>3. /\ row.cents \in Nat
        /\ Total(c, j) <= was => row.cents = 0
        /\ Total(c, j) > was /\ Total(c, j - 1) <= was => row.cents = Total(c, j) - was
        /\ Total(c, j - 1) > was => row.cents = Total(c, j) - Total(c, j - 1)
    BY RefundRowFine DEF IsRow
  <2>4. Total(c, j) \in Nat /\ Total(c, j - 1) \in Nat /\ Total(c, j - 1) <= Total(c, j)
    BY <1>2, <2>1
  <2>5. NewRows(c, j) \in {before, before \cup {row}}
    <3>1. \A i : i \in 1..j <=> i \in 1..(j - 1) \/ i = j
      BY <1>2
    <3> QED
      BY <3>1 DEF NewRows
  <2>6. Cents(NewRows(c, j)) <= Cents(before) + row.cents
    <3> HIDE DEF before, row
    <3>1. CASE NewRows(c, j) = before
      BY <2>2, <2>3, <3>1
    <3>2. CASE NewRows(c, j) # before
      <4>1. NewRows(c, j) = before \cup {row} /\ row \notin before
        BY <2>5, <3>2
      <4>2. row.cents \in Int
        BY <2>3
      <4>3. Cents(before \cup {row}) = Cents(before) + row.cents
        BY <2>2, <4>1, <4>2, CentsAdd
      <4> QED
        BY <2>2, <2>3, <4>1, <4>3
    <3> QED
      BY <3>1, <3>2
  <2>7. Cents(NewRows(c, j)) \in Nat
    BY <2>1, NewRowsFine
  <2>8. Cents(before) + row.cents <= Rest(j)
    <3> HIDE DEF before, row
    <3> QED
      BY <1>1, <2>2, <2>3, <2>4
  <2>9. Cents(NewRows(c, j)) <= Rest(j)
    <3>1. Cents(before) \in Nat /\ row.cents \in Nat /\ Rest(j) \in Int
      BY <1>1, <2>2, <2>3, <2>4
    <3> HIDE DEF before, row, Rest
    <3> QED
      BY <2>6, <2>7, <2>8, <3>1
  <2> QED
    BY <2>9
<1>5. Wrong = {}
  <2>1. Wrong \subseteq Nat
    BY <1>2
  <2>2. \A j \in Wrong : j \in 0..Len(refunds[c])
    OBVIOUS
  <2> HIDE DEF Wrong
  <2> SUFFICES ASSUME Wrong # {} PROVE FALSE
    OBVIOUS
  <2>3. PICK j \in Wrong : \A i \in Wrong : j <= i
    BY <2>1, LeastExists
  <2>4. j # 0 /\ j \in 1..Len(refunds[c])
    BY <1>2, <1>3, <2>2
  <2>5. j - 1 \notin Wrong
    BY <2>1, <2>3, <2>4
  <2> QED
    BY <1>4, <2>4, <2>5
<1> QED
  BY <1>5

Covered == Sound(db, sent, Lims, raced)

\* The refunds' rows up to any of them, which is what a crash leaves.
LEMMA AfterRowsKept ==
  ASSUME Inv, Sales, Covered, Asking, NEW k \in 0..Len(refunds[sync.of])
  PROVE  /\ Kept(AfterRows(k), db, {sync.of}, sent, Lims, raced)
         /\ SumRefunds(AfterRows(k), sync.of) = SumRefunds(db, sync.of) + Cents(NewRows(sync.of, k))
<1> DEFINE c == sync.of
           N == NewRows(c, k)
           x == AfterRows(k)
<1>1. RowsFine(db) /\ IsDb(db) /\ c \in Charge
  BY DEF Covered, Sound, RowsOk, Asking, Asks
<1>2. x.revenue = db.revenue \cup N /\ IsDb(x) /\ x.ledger = db.ledger
  <2>1. IsDb(x) /\ x.ledger = db.ledger
    BY AfterRowsBeside
  <2>2. x = [db EXCEPT !.revenue = db.revenue \cup N]
    BY DEF AfterRows
  <2>3. x.revenue = db.revenue \cup N
    BY <1>1, <2>2 DEF IsDb, Fields
  <2> QED
    BY <2>1, <2>3
<1>3. /\ IsFiniteSet(N) /\ Money(N) /\ Cents(N) \in Nat
      /\ \A r \in N : IsRow(r) /\ r.type = "refund" /\ r.on = c /\ r.id.by = "refund"
      /\ \A r, s \in N : SameRevenue(r, s) => r = s
      /\ \A r \in db.revenue, s \in N : ~SameRevenue(r, s)
  BY <1>1, NewRowsFine
<1>4. Cents(N) <= IF Total(c, k) > sync.was THEN Total(c, k) - sync.was ELSE 0
  BY <1>1, NewRowsSum
<1> DEFINE all == NewRows(c, Len(refunds[c]))
<1>5. Cents(all) <= (IF Lims[c] > sync.was THEN Lims[c] - sync.was ELSE 0) /\ Cents(N) <= Cents(all)
  <2>1. Len(refunds[c]) \in 0..Len(refunds[c]) /\ Total(c, Len(refunds[c])) = Lims[c]
    BY <1>1, Totals
  <2>2. Money(all) /\ \A r \in all : r.cents \in Nat
    BY <1>1, <2>1, NewRowsFine DEF IsRow
  <2>3. N \subseteq all
    <3>1. 1..k \subseteq 1..Len(refunds[c])
      BY <1>1, Totals
    <3> QED
      BY <3>1 DEF NewRows
  <2>4. Cents(N) <= Cents(all)
    <3> HIDE DEF N, all
    <3> QED
      BY <2>2, <2>3, CentsFewer
  <2> QED
    BY <1>1, <2>1, <2>4, NewRowsSum
<1>6. Cents(all) \in Nat /\ Lims[c] \in Nat /\ sync.was \in Nat
  <2>1. Len(refunds[c]) \in 0..Len(refunds[c])
    BY <1>1, Totals
  <2> QED
    BY <1>1, <2>1, NewRowsFine, LimsNat DEF Asking, Asks
<1> HIDE DEF N, x, all
<1>7. RowsFine(x)
  BY <1>1, <1>2, <1>3, AddedFine
<1>8. SumRefunds(x, c) = SumRefunds(db, c) + Cents(N)
  <2>1. RefundRows(x, c) = RefundRows(db, c) \cup N /\ RefundRows(db, c) \cap N = {}
    BY <1>2, <1>3 DEF RefundRows, SameRevenue
  <2>2. Money(RefundRows(db, c))
    BY <1>1, RowsMoney
  <2> QED
    BY <1>3, <2>1, <2>2, CentsUnion DEF SumRefunds
<1>9. \A q \in Charge \ {c} : SumRefunds(x, q) = SumRefunds(db, q)
  <2>1. \A q \in Charge \ {c} : RefundRows(x, q) = RefundRows(db, q)
    BY <1>2, <1>3 DEF RefundRows
  <2> QED
    BY <2>1 DEF SumRefunds
<1>10. \A q : ByEvents(x, q) = ByEvents(db, q) /\ Invoices(x, q) = Invoices(db, q)
  BY <1>2, <1>3 DEF ByEvents, RefundRows, Invoices
<1>11. \A q \in Charge : SumRefunds(db, q) \in Nat /\ Cents(ByEvents(db, q)) \in Nat
  BY <1>1, RowsMoney
<1>12. \A q \in Charge : SumRefunds(db, q) <= SumRefunds(x, q)
  <2>1. SumRefunds(db, c) <= SumRefunds(x, c)
    BY <1>1, <1>3, <1>8, <1>11
  <2> QED
    BY <1>9, <1>11, <2>1
<1>13. Grows(x, db)
  BY <1>2, <1>10, <1>12 DEF Grows
<1>14. Sourced(x, sent)
  <2> SUFFICES ASSUME NEW r \in x.revenue
               PROVE  /\ r.id.by = "event" =>
                           /\ r.id.n \in 1..Len(sent) /\ r.on = sent[r.id.n].on /\ r.type = sent[r.id.n].type
                           /\ r.type = "refund" => sent[r.id.n].cents <= SumRefunds(x, r.on)
                      /\ r.id.by = "invoice" => r.type = "invoice"
                      /\ r.id.by \in {"refund", "rest"} => r.type = "refund"
    BY Zenon DEF Sourced
  <2>1. CASE r \in N
    BY <1>3, <2>1
  <2>2. CASE r \in db.revenue
    <3>1. r.id.by = "event" => r.id.n \in 1..Len(sent) /\ r.on = sent[r.id.n].on
                               /\ (r.type = "refund" => sent[r.id.n].cents <= SumRefunds(db, r.on))
      BY <2>2 DEF Covered, Sound, RowsOk, Sourced
    <3>2. r.id.by = "event" => sent[r.id.n] \in Event
      BY <3>1 DEF Inv, Stripe
    <3>3. r.id.by = "event" => sent[r.id.n].cents \in Nat /\ r.on \in Charge
      BY <3>1, <3>2 DEF Event
    <3>4. r.on \in Charge => SumRefunds(db, r.on) \in Nat /\ SumRefunds(x, r.on) \in Nat
                            /\ SumRefunds(db, r.on) <= SumRefunds(x, r.on)
      BY <1>7, <1>11, <1>12, RowsMoney
    <3>5. r.id.by = "event" /\ r.type = "refund" => sent[r.id.n].cents <= SumRefunds(x, r.on)
      BY <3>1, <3>3, <3>4
    <3> QED
      BY <2>2, <3>5 DEF Covered, Sound, RowsOk, Sourced
  <2> QED
    BY <1>2, <2>1, <2>2
<1>15. Bounded(x, Lims, raced)
  <2> SUFFICES ASSUME NEW q \in Charge
               PROVE  /\ q \notin raced => SumRefunds(x, q) <= Lims[q]
                      /\ Cents(ByEvents(x, q)) <= Lims[q]
    BY DEF Bounded
  <2>1. (q \notin raced => SumRefunds(db, q) <= Lims[q]) /\ Cents(ByEvents(db, q)) <= Lims[q]
    BY DEF Covered, Sound, RowsOk, Bounded
  <2>2. CASE q = c
    <3>1. c \notin raced => SumRefunds(db, c) = sync.was
      BY DEF Asking, Asks
    <3>2. c \notin raced => SumRefunds(db, c) + Cents(N) <= Lims[c]
      BY <1>3, <1>5, <1>6, <2>1, <2>2, <3>1
    <3> QED
      BY <1>8, <1>10, <2>1, <2>2, <3>2
  <2>3. CASE q # c
    BY <1>9, <1>10, <2>1, <2>3
  <2> QED
    BY <2>2, <2>3
<1>16. Kept(x, db, {c}, sent, Lims, raced)
  <2>1. RowsOk(x, sent, Lims, raced)
    BY <1>7, <1>14, <1>15 DEF RowsOk
  <2>2. Refunded(x, db, {c})
    BY <1>9 DEF Refunded
  <2>3. \A q \in Charge : Cents(ByEvents(db, q)) <= Cents(ByEvents(x, q))
    BY <1>10, <1>11
  <2> QED
    BY <1>2, <1>13, <2>1, <2>2, <2>3, RevenueKept DEF Covered
<1> QED
  BY <1>8, <1>16 DEF x, N

\* What is left of what the charge says it refunded is one row more.
LEMMA AfterRestKept ==
  ASSUME Inv, Sales, Covered, Asking
  PROVE  Kept(AfterRest(AfterRows(Len(refunds[sync.of]))), db, {sync.of}, sent, Lims, raced)
<1> DEFINE c == sync.of
           k == Len(refunds[c])
           d == AfterRows(k)
           row == RestRow(c)
<1>1. c \in Charge /\ sync.seen[c] \in Nat /\ sync.was \in Nat /\ sync.seen[c] <= Lims[c]
      /\ Lims[c] \in Nat /\ RowsFine(db) /\ sent \in Seq(Event)
      /\ (c \notin raced => SumRefunds(db, c) = sync.was)
  BY LimsNat DEF Asking, Asks, Covered, Sound, RowsOk, Inv, Stripe
<1>2. k \in 0..Len(refunds[c])
  BY <1>1, Totals
<1>3. Kept(d, db, {c}, sent, Lims, raced) /\ SumRefunds(d, c) = SumRefunds(db, c) + Cents(NewRows(c, k))
      /\ Cents(NewRows(c, k)) \in Nat
  BY <1>1, <1>2, AfterRowsKept, NewRowsFine
<1>4. /\ row.type = "refund" /\ row.on = c /\ row.id.by = "rest"
      /\ row.cents = sync.seen[c] - sync.was - Cents(NewRows(c, k))
      /\ row = [id |-> row.id, type |-> row.type, on |-> row.on, cents |-> row.cents, known |-> row.known]
  BY DEF RestRow, RowOf, KeyOf
<1>5. AfterRest(d) = IF row.cents > 0 THEN Recorded(d, row) ELSE d
  BY DEF AfterRest
<1> DEFINE recorded == Cents(NewRows(c, k))
<1> HIDE DEF d, row, recorded
<1>6. CASE AfterRest(d) = d
  BY <1>3, <1>6 DEF d
<1>7. CASE AfterRest(d) # d
  <2>1. row.cents > 0 /\ AfterRest(d) = Recorded(d, row)
    BY <1>5, <1>7
  <2>2. \A r \in d.revenue : ~SameRevenue(r, row)
    BY <1>7, <2>1 DEF Recorded
  <2>3. row.cents \in Nat
    BY <1>1, <1>3, <1>4, <2>1 DEF recorded
  <2>4. IsRow(row)
    BY <1>4, <2>3 DEF IsRow
  <2>5. Sound(d, sent, Lims, raced) /\ IsDb(d) /\ RowsOk(d, sent, Lims, raced)
    BY <1>3 DEF Kept, Sound
  <2>6. c \notin raced => SumRefunds(d, c) + row.cents <= Lims[c]
    <3>1. c \notin raced => SumRefunds(d, c) + row.cents = sync.seen[c]
      BY <1>1, <1>3, <1>4 DEF recorded
    <3> QED
      BY <1>1, <3>1
  <2> DEFINE x == Recorded(d, row)
  <2>7. /\ IsDb(x) /\ RowsOk(x, sent, Lims, raced) /\ x.ledger = d.ledger /\ Grows(x, d)
        /\ Refunded(x, d, {c})
        /\ \A q \in Charge : Cents(ByEvents(d, q)) <= Cents(ByEvents(x, q))
    <3>1. Lims \in [Charge -> Nat] /\ sent \in Seq(Event)
      BY <1>1, LimsNat
    <3>2. row.id.by # "event" /\ row.id.by # "invoice"
      BY <1>4
    <3>3. /\ row.on \in Charge
          /\ row.id.by = "event" => /\ row.id.n \in 1..Len(sent)
                                    /\ row.on = sent[row.id.n].on /\ row.type = sent[row.id.n].type
          /\ row.id.by = "invoice" => row.type = "invoice"
          /\ row.id.by \in {"refund", "rest"} => row.type = "refund"
          /\ row.type = "refund" =>
               /\ row.on \notin raced => SumRefunds(d, row.on) + row.cents <= Lims[row.on]
               /\ row.id.by = "event" =>
                    /\ sent[row.id.n].cents <= SumRefunds(d, row.on) + row.cents
                    /\ Cents(ByEvents(d, row.on)) + row.cents <= Lims[row.on]
      BY <1>1, <1>4, <2>6, <3>2
    <3>4. /\ IsDb(x) /\ RowsOk(x, sent, Lims, raced) /\ x.ledger = d.ledger /\ Grows(x, d)
          /\ Refunded(x, d, IF row.type = "refund" THEN {row.on} ELSE {})
          /\ \A q \in Charge : Cents(ByEvents(d, q)) <= Cents(ByEvents(x, q))
      <4> HIDE DEF c
      <4> QED
        BY <2>2, <2>4, <2>5, <3>1, <3>3, RecordedKept, Zenon
    <3> QED
      BY <1>4, <3>4
  <2> HIDE DEF x
  <2>8. Kept(x, d, {c}, sent, Lims, raced)
    BY <2>5, <2>7, RevenueKept
  <2>9. Kept(x, db, {c}, sent, Lims, raced)
    BY <1>3, <2>8, KeptTrans DEF Covered
  <2> QED
    BY <2>1, <2>9 DEF x, d
<1> QED
  BY <1>6, <1>7

\* An invoice has one amount, whichever of its events tells it.
LEMMA OneAmount ==
  ASSUME Inv, Sales, NEW e \in Invoiced, NEW f \in Invoiced, e.on = f.on
  PROVE  e.cents = f.cents
<1>1. Acted(e) /\ Acted(f) /\ e.type = "invoice" /\ f.type = "invoice"
  <2>1. \A g \in Invoiced : \E n \in 1..Len(sent) : g = sent[n] /\ g.type = "invoice"
    BY DEF Invoiced, Range, Inv, Stripe
  <2> QED
    BY <2>1 DEF Sales, Sold
<1>2. PICK i \in DOMAIN story.acts :
        story.acts[i].do = "invoice" /\ story.acts[i].on = e.on /\ story.acts[i].cents = e.cents
  BY <1>1 DEF Acted
<1>3. PICK k \in DOMAIN story.acts :
        story.acts[k].do = "invoice" /\ story.acts[k].on = f.on /\ story.acts[k].cents = f.cents
  BY <1>1 DEF Acted
<1>4. IsStory(story)
  BY StoryAssumption DEF Inv, Stripe
<1> QED
  BY <1>2, <1>3, <1>4 DEF IsStory

LEMMA ListedKept ==
  ASSUME Inv, Sales, Covered, ListInvoices
  PROVE  Kept(db', db, {}, sent, Lims, raced)
<1> DEFINE N == {row \in {InvoiceRow(e) : e \in Invoiced} : \A r \in db.revenue : ~SameRevenue(r, row)}
           x == db'
<1>1. RowsFine(db) /\ IsDb(db) /\ sent \in Seq(Event)
  BY DEF Covered, Sound, RowsOk, Inv, Stripe
<1>2. x.revenue = db.revenue \cup N /\ IsDb(x) /\ x.ledger = db.ledger
  <2>1. x = [db EXCEPT !.revenue = db.revenue \cup N]
    BY DEF ListInvoices
  <2>2. IsDb(x) /\ x.ledger = db.ledger
    BY <1>1, <2>1, Columns DEF Beside
  <2> QED
    BY <1>1, <2>1, <2>2 DEF IsDb, Fields
<1>3. \A e \in Invoiced : e \in Event /\ e.type = "invoice"
  BY <1>1 DEF Invoiced, Range
<1>4. ASSUME NEW e \in Invoiced
      PROVE  LET r == InvoiceRow(e)
             IN IsRow(r) /\ r.type = "invoice" /\ r.on = e.on /\ r.id.by = "invoice" /\ r.cents = e.cents
  <2>1. e.cents \in Nat
    BY <1>3 DEF Event
  <2> QED
    BY <2>1 DEF InvoiceRow, RowOf, KeyOf, IsRow
<1>5. IsFiniteSet(N)
  <2> DEFINE g == [n \in 1..Len(sent) |-> InvoiceRow(sent[n])]
             Images == {g[n] : n \in 1..Len(sent)}
  <2>1. IsFiniteSet(1..Len(sent))
    BY <1>1, FS_Interval
  <2>2. IsFiniteSet(Images)
    <3> HIDE DEF g
    <3> QED
      BY <2>1, FiniteImage
  <2>3. N \subseteq Images
    BY <1>1 DEF Invoiced, Range
  <2> HIDE DEF Images, N
  <2> QED
    BY <2>2, <2>3, FS_Subset
<1>6. \A r \in N : IsRow(r) /\ r.type = "invoice" /\ r.id.by = "invoice"
  BY <1>4
<1>7. \A r, s \in N : SameRevenue(r, s) => r = s
  <2> SUFFICES ASSUME NEW r \in N, NEW s \in N, SameRevenue(r, s)
               PROVE  r = s
    OBVIOUS
  <2>1. PICK e \in Invoiced : r = InvoiceRow(e)
    OBVIOUS
  <2>2. PICK f \in Invoiced : s = InvoiceRow(f)
    OBVIOUS
  <2>3. e.on = f.on
    <3>1. r.on = e.on /\ s.on = f.on
      BY <1>4, <2>1, <2>2
    <3>2. r.id = s.id => e.on = f.on
      BY <2>1, <2>2 DEF InvoiceRow, RowOf, KeyOf
    <3> QED
      BY <3>1, <3>2 DEF SameRevenue
  <2>4. e.cents = f.cents
    BY <2>3, OneAmount
  <2> QED
    BY <2>1, <2>2, <2>3, <2>4 DEF InvoiceRow
<1>8. \A r \in db.revenue, s \in N : ~SameRevenue(r, s)
  OBVIOUS
<1> HIDE DEF N, x
<1>9. RowsFine(x)
  BY <1>1, <1>2, <1>5, <1>6, <1>7, <1>8, AddedFine
<1>10. \A q : RefundRows(x, q) = RefundRows(db, q) /\ ByEvents(x, q) = ByEvents(db, q)
  BY <1>2, <1>6 DEF ByEvents, RefundRows
<1>11. \A q : SumRefunds(x, q) = SumRefunds(db, q)
  BY <1>10 DEF SumRefunds
<1>12. \A q : SumRefunds(db, q) \in Nat /\ Cents(ByEvents(db, q)) \in Nat
  BY <1>1, RowsMoney
<1>13. Grows(x, db)
  <2>1. \A q : Invoices(db, q) \subseteq Invoices(x, q)
    BY <1>2 DEF Invoices
  <2> QED
    BY <1>2, <1>11, <1>12, <2>1 DEF Grows
<1>14. RowsOk(x, sent, Lims, raced)
  <2>1. Sourced(x, sent)
    BY <1>2, <1>6, <1>11 DEF Covered, Sound, RowsOk, Sourced
  <2>2. Bounded(x, Lims, raced)
    BY <1>10, <1>11 DEF Covered, Sound, RowsOk, Bounded
  <2> QED
    BY <1>9, <2>1, <2>2 DEF RowsOk
<1>15. Refunded(x, db, {})
  BY <1>11 DEF Refunded
<1>16. \A q \in Charge : Cents(ByEvents(db, q)) <= Cents(ByEvents(x, q))
  BY <1>10, <1>12
<1> QED
  BY <1>2, <1>13, <1>14, <1>15, <1>16, RevenueKept DEF Covered, x

-----------------------------------------------------------------------------
(* The invariant of the money, and its steps.                              *)

AllDone == \A n \in Id : claim[n] = "done" => n <= Len(sent) /\ Done(db, sent[n])
MoneyInv == Sales /\ Covered /\ Asks(sync, db, Lims, raced) /\ AllDone

\* More events and refunds at Stripe, and more charges told of.
LEMMA SoundMore ==
  ASSUME NEW d, NEW S, NEW lim \in [Charge -> Nat], NEW R, Sound(d, S, lim, R),
         NEW T, \A n \in 1..Len(S) : n \in 1..Len(T) /\ T[n] = S[n],
         NEW more \in [Charge -> Nat], \A c \in Charge : lim[c] <= more[c], NEW Q, R \subseteq Q
  PROVE  Sound(d, T, more, Q)
<1>1. Sourced(d, T)
  BY DEF Sound, RowsOk, Sourced
<1>2. Bounded(d, more, Q)
  <2> SUFFICES ASSUME NEW c \in Charge
               PROVE  /\ c \notin Q => SumRefunds(d, c) <= more[c]
                      /\ Cents(ByEvents(d, c)) <= more[c]
    BY DEF Bounded
  <2>1. (c \notin R => SumRefunds(d, c) <= lim[c]) /\ Cents(ByEvents(d, c)) <= lim[c]
    BY DEF Sound, RowsOk, Bounded
  <2>2. lim[c] \in Nat /\ more[c] \in Nat /\ lim[c] <= more[c]
    OBVIOUS
  <2>3. SumRefunds(d, c) \in Nat /\ Cents(ByEvents(d, c)) \in Nat
    BY RowsMoney DEF Sound, RowsOk
  <2> QED
    BY <2>1, <2>2, <2>3
<1> QED
  BY <1>1, <1>2 DEF Sound, RowsOk

LEMMA LimsNatNext == ASSUME Inv' PROVE Lims' \in [Charge -> Nat]
BY RefundedNatNext DEF Lims

LEMMA MoneyStep ==
  ASSUME Inv, Inv', MoneyInv, Sales', More, raced \subseteq raced',
         NEW C, Kept(db', db, C, sent, Lims, raced),
         \/ UNCHANGED sync /\ (sync.at = "refunds" /\ sync.of \in C => sync.of \in raced')
         \/ Asks(sync', db', Lims', raced'),
         \A n \in Id : claim'[n] = "done" =>
           claim[n] = "done" \/ (n <= Len(sent) /\ Done(db', sent[n]))
  PROVE  MoneyInv'
<1>1. Lims \in [Charge -> Nat] /\ Lims' \in [Charge -> Nat] /\ \A c \in Charge : Lims[c] <= Lims'[c]
  BY LimsNat, LimsNatNext DEF More
<1>2. Covered'
  <2>1. \A n \in 1..Len(sent) : n \in 1..Len(sent') /\ sent'[n] = sent[n]
    BY DEF More
  <2>2. Sound(db', sent, Lims, raced)
    BY DEF Kept
  <2>3. Sound(db', sent', Lims', raced')
    BY <1>1, <2>1, <2>2, SoundMore
  <2> QED
    BY <2>3 DEF Covered
<1>3. RowsFine(db) /\ RowsFine(db') /\ Grows(db', db) /\ Refunded(db', db, C)
  BY DEF MoneyInv, Covered, Kept, Sound, RowsOk
<1>4. Asks(sync', db', Lims', raced')
  <2>1. CASE UNCHANGED sync /\ (sync.at = "refunds" /\ sync.of \in C => sync.of \in raced')
    <3>1. Asks(sync, db, Lims, raced)
      BY DEF MoneyInv
    <3>2. Asks(sync, db', Lims', raced')
      BY <1>1, <1>3, <2>1, <3>1, AsksKept
    <3> QED
      BY <2>1, <3>2
  <2> QED
    BY <2>1
<1>5. AllDone'
  <2> SUFFICES ASSUME NEW n \in Id, claim'[n] = "done"
               PROVE  n <= Len(sent') /\ Done(db', sent'[n])
    BY DEF AllDone, Done, HasEntry, Invoices, SumRefunds, RefundRows
  <2>1. n <= Len(sent) /\ (Done(db, sent[n]) \/ Done(db', sent[n]))
    BY DEF MoneyInv, AllDone
  <2>2. n \in 1..Len(sent) /\ sent[n] \in Event
    BY <2>1 DEF Inv, Stripe, Id
  <2>3. n \in 1..Len(sent') /\ sent'[n] = sent[n]
    BY <2>2 DEF More
  <2>4. sent[n].on \in Charge /\ sent[n].cents \in Nat
    BY <2>2 DEF Event
  <2>5. Done(db', sent[n])
    BY <1>3, <2>1, <2>4, GrowsDone
  <2> QED
    BY <2>3, <2>5
<1> QED
  BY <1>2, <1>4, <1>5 DEF MoneyInv

\* What the statements of an event lead to, and what they have done at last.
Told(n) == IF sent[n].type = "refund" THEN {sent[n].on} ELSE {}

LEMMA WritesKept ==
  ASSUME Inv, MoneyInv, NEW n \in Id, n <= Len(sent)
  PROVE  /\ \A x \in Range(Writes(n)) : Kept(x, db, Told(n), sent, Lims, raced)
         /\ sent[n].type # "checkout" => Done(Last(Writes(n)), sent[n])
<1> DEFINE e == sent[n]
           W == Writes(n)
<1>1. /\ e \in Event /\ Truthful(e) /\ n \in 1..Len(sent) /\ sent \in Seq(Event)
      /\ Sound(db, sent, Lims, raced) /\ Lims \in [Charge -> Nat] /\ Sold(e)
  <2>1. n \in 1..Len(sent) /\ sent \in Seq(Event)
    BY DEF Inv, Stripe, Id
  <2>2. Sold(e)
    BY <2>1 DEF MoneyInv, Sales
  <2> QED
    BY <2>1, <2>2, Given, LimsNat DEF MoneyInv, Covered
<1>2. e.status \in Status /\ e.on \in Charge /\ e.cents \in Nat
  BY <1>1 DEF Event
<1>3. CASE e.type \in {"created", "updated"}
  <2>1. W = SubscriptionWrites(db, e) /\ Told(n) = {} /\ e.on \in Sub
    BY <1>1, <1>3 DEF Writes, Told, Truthful
  <2>2. Done(Last(W), e)
    BY <1>3 DEF Done
  <2> HIDE DEF e, W
  <2>3. \A x \in Range(W) : Kept(x, db, {}, sent, Lims, raced)
    BY <1>1, <1>2, <2>1, SubscriptionKept
  <2> QED
    BY <2>1, <2>2, <2>3 DEF e, W
<1>4. CASE e.type = "deleted"
  <2>1. W = DeletedWrites(db, e) /\ Told(n) = {} /\ e.on \in Sub
    BY <1>1, <1>4 DEF Writes, Told, Truthful
  <2>2. Done(Last(W), e)
    BY <1>4 DEF Done
  <2> HIDE DEF e, W
  <2>3. \A x \in Range(W) : Kept(x, db, {}, sent, Lims, raced)
    BY <1>1, <1>2, <2>1, DeletedKept
  <2> QED
    BY <2>1, <2>2, <2>3 DEF e, W
<1>5. CASE e.type = "topUp"
  <2>1. W = TopUpWrites(db, e.on) /\ Told(n) = {}
    BY <1>5 DEF Writes, Told
  <2>2. e.on \in Session
    <3>1. PICK i \in DOMAIN story.acts : story.acts[i].do = "topUp" /\ story.acts[i].on = e.on
      BY <1>1, <1>5 DEF Sold, Acted
    <3>2. IsStory(story)
      BY StoryAssumption DEF Inv, Stripe
    <3> QED
      BY <3>1, <3>2 DEF IsStory
  <2>3. /\ \A x \in Range(W) : Kept(x, db, {}, sent, Lims, raced)
        /\ HasEntry(Last(W), KeyOf("session", e.on, 0))
    <3> HIDE DEF e, W
    <3> QED
      BY <1>1, <2>1, <2>2, TopUpKept
  <2>4. Done(Last(W), e)
    BY <1>5, <2>3 DEF Done
  <2> QED
    BY <2>1, <2>3, <2>4
<1>6. CASE e.type = "invoice"
  <2>1. W = InvoiceWrites(db, n, e.on, e.cents) /\ Told(n) = {}
    BY <1>6 DEF Writes, Told
  <2>2. /\ \A x \in Range(W) : Kept(x, db, {}, sent, Lims, raced)
        /\ Invoices(Last(W), e.on) # {}
    BY <1>1, <1>6, <2>1, InvoiceKept
  <2>3. Done(Last(W), e)
    BY <1>6, <2>2 DEF Done
  <2> QED
    BY <2>1, <2>2, <2>3
<1>7. CASE e.type = "refund"
  <2>1. W = RefundWrites(db, n, e.on, e.cents) /\ Told(n) = {e.on}
    BY <1>7 DEF Writes, Told
  <2>2. e.cents <= Lims[e.on]
    BY <1>1, <1>2, <1>7 DEF Sold, Lims
  <2>3. /\ \A x \in Range(W) : Kept(x, db, {e.on}, sent, Lims, raced)
        /\ e.cents <= SumRefunds(Last(W), e.on)
    BY <1>1, <1>7, <2>1, <2>2, RefundKept
  <2>4. Done(Last(W), e)
    BY <1>7, <2>3 DEF Done
  <2> QED
    BY <2>1, <2>3, <2>4
<1>8. CASE e.type = "dispute"
  <2>1. W = DisputeWrites(db, e.on, e.cents) /\ Told(n) = {}
    BY <1>8 DEF Writes, Told
  <2>2. \A x \in Range(W) : Kept(x, db, {}, sent, Lims, raced)
    <3> HIDE DEF e, W
    <3> QED
      BY <1>1, <1>2, <2>1, DisputeKept
  <2>3. Done(Last(W), e)
    BY <1>8 DEF Done
  <2> QED
    BY <2>1, <2>2, <2>3
<1>9. CASE e.type = "checkout"
  <2>1. W = <<db>> /\ Told(n) = {}
    BY <1>9 DEF Writes, Told
  <2>2. \A x \in Range(W) : x = db
    BY <2>1 DEF Range
  <2> QED
    BY <1>1, <1>9, <2>1, <2>2, KeptSelf
<1> QED
  BY <1>1, <1>3, <1>4, <1>5, <1>6, <1>7, <1>8, <1>9 DEF Event

LEMMA MoneyInit == Init => MoneyInv
<1> SUFFICES ASSUME Init PROVE MoneyInv
  OBVIOUS
<1>1. Sales
  BY DEF Init, Sales, Rising
<1>2. db.revenue = {} /\ db.ledger = {} /\ raced = {} /\ sent = <<>>
  BY DEF Init
<1>3. \A c : SumRefunds(db, c) = 0 /\ Cents(ByEvents(db, c)) = 0 /\ Cents(Taken(db, c)) = 0
  <2>1. \A c : RefundRows(db, c) = {} /\ ByEvents(db, c) = {} /\ Taken(db, c) = {}
    BY <1>2 DEF RefundRows, ByEvents, Taken
  <2> QED
    BY <2>1, CentsEmpty DEF SumRefunds
<1>4. \A c \in Charge : Lims[c] = 0
  BY DEF Init, Lims, RefundedAt
<1>5. Covered
  <2>1. IsDb(db) /\ Once(db)
    BY InitInv DEF Inv
  <2>2. RowsFine(db)
    BY <1>2, FS_EmptySet DEF RowsFine
  <2>3. RowsOk(db, sent, Lims, raced)
    BY <1>2, <1>3, <1>4, <2>2 DEF RowsOk, Sourced, Bounded
  <2>4. WalletOk(db)
    <3>1. LedgerFine(db)
      BY <1>2, FS_EmptySet DEF LedgerFine
    <3>2. Balance(db) = 0
      BY <1>2, CentsEmpty DEF Balance
    <3> QED
      BY <1>3, <3>1, <3>2 DEF WalletOk
  <2> QED
    BY <2>1, <2>3, <2>4 DEF Covered, Sound
<1>6. Asks(sync, db, Lims, raced) /\ AllDone
  BY DEF Init, NoSync, Asks, AllDone
<1> QED
  BY <1>1, <1>5, <1>6 DEF MoneyInv

\* Steps that leave the rows, the claims and the reconciliation alone.
LEMMA MoneySame ==
  ASSUME Inv, Inv', MoneyInv, Sales', More, UNCHANGED <<db, raced>>,
         UNCHANGED sync \/ Asks(sync', db', Lims', raced'),
         \A n \in Id : claim'[n] = "done" => claim[n] = "done"
  PROVE  MoneyInv'
<1>1. Kept(db, db, {}, sent, Lims, raced)
  BY KeptSelf DEF MoneyInv, Covered
<1>2. Kept(db', db, {}, sent, Lims, raced)
  BY <1>1
<1> QED
  BY <1>2, MoneyStep

LEMMA ProcessMoney ==
  ASSUME Inv, Inv', MoneyInv, Sales', More, NEW n \in Id, Process(n)
  PROVE  MoneyInv'
<1>1. /\ n <= Len(sent) /\ sent[n].type # "checkout" /\ db' = Last(Writes(n))
      /\ claim' = [claim EXCEPT ![n] = "done"] /\ raced' = Races(n) /\ UNCHANGED sync
  BY DEF Process, Delivered
<1>2. Kept(db', db, Told(n), sent, Lims, raced) /\ Done(db', sent[n])
  BY <1>1, WritesKept, LastWrites
<1>3. raced \subseteq raced' /\ (sync.at = "refunds" /\ sync.of \in Told(n) => sync.of \in raced')
  BY <1>1 DEF Races, Told
<1>4. \A m \in Id : claim'[m] = "done" => claim[m] = "done" \/ (m <= Len(sent) /\ Done(db', sent[m]))
  BY <1>1, <1>2 DEF Inv, Claims
<1> QED
  BY <1>1, <1>2, <1>3, <1>4, MoneyStep

\* The statements of a checkout.
LEMMA CheckoutRows ==
  ASSUME Inv, MoneyInv, NEW n \in Id, claim[n] = "retrieving", NEW status \in Status,
         NEW x \in Range(CheckoutWrites(db, sent[n].on, status))
  PROVE  Kept(x, db, {}, sent, Lims, raced)
<1>1. sent[n].on \in Sub /\ Sound(db, sent, Lims, raced)
  BY Retrieved DEF MoneyInv, Covered
<1> QED
  BY <1>1, CheckoutKept

LEMMA GetMoney ==
  ASSUME Inv, Inv', MoneyInv, Sales', More, NEW n \in Id, GetSubscription(n)
  PROVE  MoneyInv'
<1>1. /\ claim[n] = "retrieving" /\ claim' = [claim EXCEPT ![n] = "done"] /\ UNCHANGED <<sync, raced>>
      /\ \/ db' = Last(CheckoutWrites(db, sent[n].on, stripe[sent[n].on]))
         \/ db' = Last(CheckoutWrites(db, sent[n].on, "complete"))
  BY DEF GetSubscription
<1>2. stripe[sent[n].on] \in Status /\ "complete" \in Status
  BY <1>1, Retrieved DEF Status
<1>3. PICK status \in Status : db' = Last(CheckoutWrites(db, sent[n].on, status))
  BY <1>1, <1>2
<1>4. Kept(db', db, {}, sent, Lims, raced)
  BY <1>1, <1>3, CheckoutRows, LastCheckout
<1>5. n <= Len(sent) /\ sent[n].type = "checkout"
  BY <1>1 DEF Inv, Claims, Open
<1>6. \A m \in Id : claim'[m] = "done" => claim[m] = "done" \/ (m <= Len(sent) /\ Done(db', sent[m]))
  BY <1>1, <1>5 DEF Inv, Claims, Done
<1> QED
  BY <1>1, <1>4, <1>6, MoneyStep

LEMMA SpendMoney ==
  ASSUME Inv, Inv', MoneyInv, Sales', More, NEW r \in Run, Spend(r)
  PROVE  MoneyInv'
<1> DEFINE key == KeyOf("run", r, 0)
<1>1. Balance(db) >= 1 /\ ~HasEntry(db, key) /\ db' = Entered(db, key, -1)
      /\ UNCHANGED <<claim, sync, raced>>
  BY DEF Spend
<1>2. Sound(db, sent, Lims, raced) /\ Balance(db) \in Int
  BY LedgerMoney DEF MoneyInv, Covered, Sound, WalletOk
<1>3. key.by = "run"
  BY DEF KeyOf
<1> HIDE DEF key
<1> DEFINE x == Entered(db, key, -1)
<1>4. Balance(db) + (-1) >= 0 /\ -1 \in Int
  BY <1>1, <1>2
<1>5. /\ IsDb(x) /\ WalletOk(x) /\ Once(x) /\ x.revenue = db.revenue
      /\ x.ledger = db.ledger \cup {[key |-> key, cents |-> -1]}
  BY <1>1, <1>2, <1>3, <1>4, EnteredKept DEF Sound, RowsOk
<1> HIDE DEF x
<1>6. db.ledger \subseteq x.ledger
  BY <1>5
<1>7. Kept(x, db, {}, sent, Lims, raced)
  BY <1>2, <1>5, <1>6, LedgerKept
<1>8. Kept(db', db, {}, sent, Lims, raced)
  BY <1>1, <1>7 DEF x
<1> QED
  BY <1>1, <1>8, MoneyStep

LEMMA SyncMoney ==
  ASSUME Inv, Inv', MoneyInv, Sales', More, Sync \/ ListInvoices \/ ListCharges \/ ListRefunds \/ SyncFails
  PROVE  MoneyInv'
<1>1. UNCHANGED <<claim, raced, sent, refunds>> /\ UNCHANGED Lims
  BY DEF Sync, ListInvoices, ListCharges, ListRefunds, SyncFails, stripeVars, Lims, RefundedAt
<1>2. /\ Lims \in [Charge -> Nat] /\ \A c \in Charge : Lims[c] = RefundedAt(c)
      /\ Lims' \in [Charge -> Nat] /\ \A c \in Charge : Lims[c] <= Lims[c]
  BY <1>1, LimsNat
<1>3. CASE Sync
  BY <1>1, <1>3, MoneySame DEF Sync, Asks
<1>4. CASE SyncFails
  BY <1>1, <1>4, MoneySame DEF SyncFails, NoSync, Asks
<1>5. CASE ListInvoices
  <2>1. Kept(db', db, {}, sent, Lims, raced)
    BY <1>5, ListedKept DEF MoneyInv
  <2>2. Asks(sync', db', Lims', raced')
    BY <1>5 DEF ListInvoices, Asks
  <2> QED
    BY <1>1, <2>1, <2>2, MoneyStep
<1>6. CASE ListCharges
  <2> DEFINE seen == [c \in Charge |-> RefundedAt(c)]
  <2>1. sync' = Turn(db, SetToSeq(Charge), seen) /\ UNCHANGED db
    BY <1>6 DEF ListCharges
  <2>2. seen \in [Charge -> Nat] /\ \A c \in Charge : seen[c] <= Lims[c]
    BY <1>2 DEF Lims
  <2>3. RowsFine(db)
    BY DEF MoneyInv, Covered, Sound, RowsOk
  <2> HIDE DEF seen
  <2>4. Asks(sync', db, Lims, raced)
    BY <1>2, <2>1, <2>2, <2>3, ChargesListed, TurnAsks
  <2> QED
    BY <1>1, <2>1, <2>4, MoneySame
<1>7. CASE ListRefunds
  <2>1. /\ sync.at = "refunds" /\ db' = AfterRest(AfterRows(Len(refunds[sync.of])))
        /\ sync' = Turn(db', sync.left, sync.seen)
    BY <1>7 DEF ListRefunds
  <2>2. Asking
    BY <2>1 DEF Asking, MoneyInv
  <2>3. Kept(db', db, {sync.of}, sent, Lims, raced)
    BY <2>1, <2>2, AfterRestKept DEF MoneyInv
  <2>4. /\ sync.left \in Seq(Charge) /\ sync.seen \in [Charge -> Nat]
        /\ \A c \in Charge : sync.seen[c] <= Lims[c]
    BY <2>2 DEF Asking, Asks
  <2>5. RowsFine(db')
    BY <2>3 DEF Kept, Sound, RowsOk
  <2>6. Asks(sync', db', Lims, raced)
    BY <1>2, <2>1, <2>4, <2>5, TurnAsks
  <2> QED
    BY <1>1, <2>3, <2>6, MoneyStep
<1> QED
  BY <1>3, <1>4, <1>5, <1>6, <1>7

LEMMA CrashMoney ==
  ASSUME Inv, Inv', MoneyInv, Sales', More, Crash
  PROVE  MoneyInv'
<1>1. /\ db' \in Interrupted /\ sync' = NoSync /\ UNCHANGED <<raced>>
      /\ claim' = [n \in Id |-> IF claim[n] \in Open THEN "free" ELSE claim[n]]
  BY DEF Crash
<1>2. Asks(sync', db', Lims', raced')
  BY <1>1 DEF Asks, NoSync
<1>3. \A n \in Id : claim'[n] = "done" => claim[n] = "done"
  BY <1>1 DEF Open
<1>4. \E C : Kept(db', db, C, sent, Lims, raced)
  <2>1. \/ db' = db
        \/ db' \in UNION {Range(Writes(n)) : n \in {m \in Id : Delivered(m)}}
        \/ db' \in UNION {Range(CheckoutWrites(db, sent[n].on, stripe[sent[n].on])) :
                          n \in {m \in Id : claim[m] = "retrieving"}}
        \/ db' \in IF sync.at = "refunds" THEN {AfterRows(k) : k \in DOMAIN refunds[sync.of]} ELSE {}
    BY <1>1 DEF Interrupted
  <2>2. CASE db' = db
    <3>1. Kept(db, db, {}, sent, Lims, raced)
      BY KeptSelf DEF MoneyInv, Covered
    <3> QED
      BY <2>2, <3>1
  <2>3. CASE db' \in UNION {Range(Writes(n)) : n \in {m \in Id : Delivered(m)}}
    <3>1. PICK n \in {m \in Id : Delivered(m)} : db' \in Range(Writes(n))
      BY <2>3, Zenon
    <3>2. n \in Id /\ n <= Len(sent)
      BY <3>1 DEF Delivered
    <3> QED
      BY <3>1, <3>2, WritesKept
  <2>4. CASE db' \in UNION {Range(CheckoutWrites(db, sent[n].on, stripe[sent[n].on])) :
                            n \in {m \in Id : claim[m] = "retrieving"}}
    <3>1. PICK n \in {m \in Id : claim[m] = "retrieving"} :
            db' \in Range(CheckoutWrites(db, sent[n].on, stripe[sent[n].on]))
      BY <2>4, Zenon
    <3>2. PICK status \in Status : status = stripe[sent[n].on]
      BY <3>1, Retrieved
    <3>3. db' \in Range(CheckoutWrites(db, sent[n].on, status))
      BY <3>1, <3>2
    <3> QED
      BY <3>1, <3>3, CheckoutRows
  <2>5. CASE db' \in IF sync.at = "refunds" THEN {AfterRows(k) : k \in DOMAIN refunds[sync.of]} ELSE {}
    <3>1. sync.at = "refunds" /\ \E k \in DOMAIN refunds[sync.of] : db' = AfterRows(k)
      BY <2>5, Zenon
    <3>2. Asking /\ sync.of \in Charge
      BY <3>1 DEF Asking, Asks, MoneyInv
    <3>3. \A k \in DOMAIN refunds[sync.of] : k \in 0..Len(refunds[sync.of])
      BY <3>2 DEF Inv, Stripe
    <3>4. \A k \in DOMAIN refunds[sync.of] : Kept(AfterRows(k), db, {sync.of}, sent, Lims, raced)
      BY <3>2, <3>3, AfterRowsKept DEF MoneyInv
    <3> QED
      BY <3>1, <3>4
  <2> QED
    BY <2>1, <2>2, <2>3, <2>4, <2>5
<1>5. PICK C : Kept(db', db, C, sent, Lims, raced)
  BY <1>4
<1> QED
  BY <1>1, <1>2, <1>3, <1>5, MoneyStep

LEMMA MoneyNext == ASSUME Inv, Inv', MoneyInv, [Next]_vars PROVE MoneyInv'
<1>1. Sales' /\ More
  BY SalesStep DEF MoneyInv
<1>2. CASE Happens
  BY <1>1, <1>2, MoneySame DEF Happens
<1>3. CASE \E n \in Id : Handle(n)
  <2>1. PICK n \in Id : Handle(n)
    BY <1>3
  <2>2. CASE StartCheckout(n) \/ CancelSubscription(n)
    <3>1. UNCHANGED <<db, raced, sync>>
      BY <2>2 DEF StartCheckout, CancelSubscription
    <3>2. \A m \in Id : claim'[m] = "done" => claim[m] = "done"
      BY <2>2 DEF StartCheckout, CancelSubscription, Inv, Claims
    <3> QED
      BY <1>1, <3>1, <3>2, MoneySame
  <2> QED
    BY <1>1, <2>1, <2>2, ProcessMoney, GetMoney DEF Handle
<1>4. CASE \E r \in Run : Spend(r)
  BY <1>1, <1>4, SpendMoney
<1>5. CASE Sync \/ ListInvoices \/ ListCharges \/ ListRefunds \/ SyncFails
  BY <1>1, <1>5, SyncMoney
<1>6. CASE Crash
  BY <1>1, <1>6, CrashMoney
<1>7. CASE UNCHANGED vars
  BY <1>1, <1>7, MoneySame DEF vars
<1> QED
  BY <1>2, <1>3, <1>4, <1>5, <1>6, <1>7 DEF Next

\* Every event has a claim of its own.
Within == Len(sent) <= MaxEvents

LEMMA WithinStep == ASSUME Inv, Within, [Next]_vars PROVE Within'
<1>1. sent \in Seq(Event) /\ MaxEvents \in Nat
  BY BillingBounds DEF Inv, Stripe
<1>2. CASE UNCHANGED sent
  BY <1>2 DEF Within
<1>3. CASE Happens
  <2>1. Len(sent) + 2 <= MaxEvents
    BY <1>3 DEF Happens
  <2>2. \/ sent' = sent
        \/ \E e : sent' = Append(sent, e)
        \/ \E e, f : sent' = sent \o <<e, f>>
    BY <1>3 DEF Happens, Subscribes, Turns, Refunds
  <2>3. CASE sent' = sent
    BY <2>3 DEF Within
  <2>4. CASE \E e : sent' = Append(sent, e)
    BY <1>1, <2>1, <2>4 DEF Within
  <2>5. CASE \E e, f : sent' = sent \o <<e, f>>
    <3>1. PICK e, f : sent' = sent \o <<e, f>>
      BY <2>5
    <3>2. <<e, f>> \in Seq({e, f}) /\ Len(<<e, f>>) = 2
      OBVIOUS
    <3>3. sent \in Seq(Event \cup {e, f}) /\ <<e, f>> \in Seq(Event \cup {e, f})
      BY <1>1, <3>2
    <3>4. Len(sent \o <<e, f>>) = Len(sent) + Len(<<e, f>>)
      BY <3>3
    <3> QED
      BY <1>1, <2>1, <3>1, <3>2, <3>4 DEF Within
  <2> QED
    BY <2>2, <2>3, <2>4, <2>5
<1>4. CASE \E n \in Id : CancelSubscription(n)
  <2>1. Len(sent) < MaxEvents /\ (UNCHANGED sent \/ \E e : sent' = Append(sent, e))
    BY <1>4 DEF CancelSubscription, Turns
  <2> QED
    BY <1>1, <2>1 DEF Within
<1>5. Happens \/ (\E n \in Id : CancelSubscription(n)) \/ UNCHANGED sent
  BY DEF Next, vars, Handle, Process, StartCheckout, GetSubscription, Spend, Sync, ListInvoices,
         ListCharges, ListRefunds, SyncFails, Crash
<1> QED
  BY <1>2, <1>3, <1>4, <1>5

LEMMA MoneyHolds == Spec => [](Inv /\ MoneyInv /\ Within)
<1>1. Init => MoneyInv /\ Within
  BY MoneyInit, BillingBounds DEF Init, Within
<1>2. Inv /\ Inv' /\ MoneyInv /\ [Next]_vars => MoneyInv'
  BY MoneyNext
<1>3. Inv /\ Within /\ [Next]_vars => Within'
  BY WithinStep
<1> QED
  BY <1>1, <1>2, <1>3, InvHolds, PTL DEF Spec

\* Refunds of a charge are counted once, whatever the order, the repetition and
\* the crashes of their events, and an invoice has one row.
THEOREM RefundsExact == Spec => []RevenueExact
<1>1. ASSUME Inv, MoneyInv, Within
      PROVE  RevenueExact
  <2> SUFFICES ASSUME NEW c \in Charge
               PROVE  /\ \A total \in HandledRefunds(c) : SumRefunds(db, c) >= total
                      /\ c \notin raced => SumRefunds(db, c) <= RefundedAt(c)
                      /\ Cardinality(InvoiceRows(c)) <= 1
                      /\ (\E n \in 1..Len(sent) : claim[n] = "done" /\ sent[n].type = "invoice" /\ sent[n].on = c)
                           => InvoiceRows(c) # {}
    BY DEF RevenueExact
  <2>1. /\ RowsFine(db) /\ Bounded(db, Lims, raced) /\ Lims[c] = RefundedAt(c)
        /\ SumRefunds(db, c) \in Nat /\ InvoiceRows(c) = Invoices(db, c)
    BY <1>1, LimsNat, RowsMoney DEF MoneyInv, Covered, Sound, RowsOk, InvoiceRows, Invoices
  <2>2. \A n \in 1..Len(sent) : claim[n] = "done" => Done(db, sent[n]) /\ sent[n].cents \in Nat
    <3> SUFFICES ASSUME NEW n \in 1..Len(sent), claim[n] = "done"
                 PROVE  Done(db, sent[n]) /\ sent[n].cents \in Nat
      OBVIOUS
    <3>1. sent[n] \in Event
      BY <1>1 DEF Inv, Stripe
    <3>2. n \in Id
      BY <1>1, BillingBounds DEF Inv, Stripe, Within, Id
    <3> QED
      BY <1>1, <3>1, <3>2 DEF MoneyInv, AllDone, Event
  <2>3. \A total \in HandledRefunds(c) : SumRefunds(db, c) >= total
    <3> SUFFICES ASSUME NEW total \in HandledRefunds(c)
                 PROVE  SumRefunds(db, c) >= total
      OBVIOUS
    <3>1. PICK n \in 1..Len(sent) :
            claim[n] = "done" /\ sent[n].type = "refund" /\ sent[n].on = c /\ total = sent[n].cents
      BY DEF HandledRefunds
    <3> QED
      BY <2>1, <2>2, <3>1 DEF Done
  <2>4. Cardinality(InvoiceRows(c)) <= 1
    <3>1. \A r, s \in InvoiceRows(c) : r = s
      BY <2>1 DEF RowsFine, InvoiceRows, SameRevenue
    <3>2. CASE InvoiceRows(c) = {}
      BY <3>2, FS_EmptySet
    <3>3. CASE InvoiceRows(c) # {}
      <4>1. PICK r \in InvoiceRows(c) : TRUE
        BY <3>3
      <4>2. InvoiceRows(c) = {r}
        BY <3>1, <4>1
      <4>3. Cardinality({r}) = 1
        BY FS_Singleton
      <4> QED
        BY <4>2, <4>3
    <3> QED
      BY <3>2, <3>3
  <2>5. c \notin raced => SumRefunds(db, c) <= RefundedAt(c)
    BY <2>1 DEF Bounded
  <2>6. (\E n \in 1..Len(sent) : claim[n] = "done" /\ sent[n].type = "invoice" /\ sent[n].on = c)
          => InvoiceRows(c) # {}
    BY <2>1, <2>2 DEF Done
  <2> QED
    BY <2>3, <2>4, <2>5, <2>6
<1>2. Inv /\ MoneyInv /\ Within => RevenueExact
  BY <1>1
<1> QED
  BY <1>2, MoneyHolds, PTL

\* The wallet is never overdrawn; a paid session is credited once; refunds of a
\* charge take no more than was refunded.
THEOREM WalletKept == Spec => []WalletExact
<1>1. ASSUME Inv, MoneyInv, Within
      PROVE  WalletExact
  <2>1. /\ RowsFine(db) /\ WalletOk(db) /\ LedgerFine(db) /\ Once(db) /\ Bounded(db, Lims, raced)
        /\ Balance(db) >= 0
    BY <1>1 DEF MoneyInv, Covered, Sound, RowsOk, WalletOk
  <2>2. ASSUME NEW k \in Session
        PROVE  /\ Moved("session", k) \in {0, Price[k]}
               /\ k \in ToppedUp => Moved("session", k) = Price[k]
    <3> DEFINE l == [key |-> KeyOf("session", k, 0), cents |-> Price[k]]
               E == Entries("session", k)
    <3>1. \A m \in E : m = l
      BY <2>1 DEF LedgerFine, Entries
    <3>2. HasEntry(db, KeyOf("session", k, 0)) => E # {}
      BY DEF HasEntry, Entries, KeyOf
    <3>3. l.cents = Price[k] /\ l.cents \in Int
      BY PriceAssumption
    <3>4. Moved("session", k) = Cents(E)
      BY DEF Moved
    <3> HIDE DEF l, E
    <3>5. E = {} \/ E = {l}
      BY <3>1
    <3>6. Cents(E) \in {0, Price[k]} /\ (E # {} => Cents(E) = Price[k])
      BY <3>3, <3>5, CentsEmpty, CentsOne
    <3>7. ASSUME k \in ToppedUp
          PROVE  HasEntry(db, KeyOf("session", k, 0))
      <4>1. PICK n \in 1..Len(sent) : claim[n] = "done" /\ sent[n].type = "topUp" /\ sent[n].on = k
        BY <3>7 DEF ToppedUp
      <4>2. n \in Id
        BY <1>1, BillingBounds DEF Inv, Stripe, Within, Id
      <4> QED
        BY <1>1, <4>1, <4>2 DEF MoneyInv, AllDone, Done
    <3> QED
      BY <3>2, <3>4, <3>6, <3>7
  <2>3. ASSUME NEW c \in Charge
        PROVE  -Moved("refund", c) <= RefundedAt(c)
    <3>1. Moved("refund", c) = Cents(Taken(db, c))
      BY DEF Moved, Entries, Taken
    <3>2. -Cents(Taken(db, c)) <= Cents(ByEvents(db, c)) /\ Cents(ByEvents(db, c)) <= Lims[c]
      BY <2>1 DEF WalletOk, Bounded
    <3>3. Cents(Taken(db, c)) \in Int /\ Cents(ByEvents(db, c)) \in Nat
          /\ Lims[c] \in Nat /\ Lims[c] = RefundedAt(c)
      BY <1>1, <2>1, LedgerMoney, RowsMoney, LimsNat
    <3> QED
      BY <3>1, <3>2, <3>3
  <2> QED
    BY <2>1, <2>2, <2>3 DEF WalletExact
<1>2. Inv /\ MoneyInv /\ Within => WalletExact
  BY <1>1
<1> QED
  BY <1>2, MoneyHolds, PTL

-----------------------------------------------------------------------------
(* The subscription bought last, when events are handled in order.  What   *)
(* is left to handle will put right what is wrong with the row: its status *)
(* (RowKnown), its plan (PlanKept), which subscription it names            *)
(* (LastBought), and a second one that Stripe still charges (OneLive).     *)

Bears(e, s) == e.type \in {"created", "updated", "deleted", "checkout"} /\ e.on = s
Buys(e) == e.type = "checkout"
Live(s) == stripe[s] \in {"active", "past_due"}
Left == {n \in 1..Len(sent) : claim[n] # "done"}
Due(n) == n \in Left /\ \A m \in 1..(n - 1) : claim[m] = "done"

RowKnown(d) ==
  d.sub \in Sub \ blind => d.status = stripe[d.sub] \/ \E n \in Left : Bears(sent[n], d.sub)
PlanKept(d) ==
  d.status = "active" =>
    /\ d.sub \in Sub
    /\ d.plan = PlanOf[d.sub] \/ \E n \in Left : Due(n) /\ (Buys(sent[n]) \/ Bears(sent[n], d.sub))
LastBought(d) ==
  \A n \in 1..Len(sent) :
    /\ Buys(sent[n]) /\ claim[n] = "done"
    /\ \A m \in 1..Len(sent) : m > n /\ Buys(sent[m]) => claim[m] # "done"
    => d.sub = sent[n].on \/ \E k \in Left : Due(k) /\ Buys(sent[k]) /\ d.sub = sent[k].on
OneLive(d) ==
  \A s \in Sub : Live(s) => s = d.sub \/ \E n \in Left : Buys(sent[n]) /\ sent[n].on = s
Fits(d) == RowKnown(d) /\ PlanKept(d) /\ LastBought(d) /\ OneLive(d)

InTurn ==
  \A n \in Id : claim[n] # "free" => n <= Len(sent) /\ \A m \in 1..(n - 1) : claim[m] = "done"
LastWord ==
  /\ \A s \in Sub, n \in 1..Len(sent) :
       Bears(sent[n], s) /\ (\A m \in 1..Len(sent) : m > n => ~Bears(sent[m], s))
         => sent[n].status = stripe[s]
  /\ \A n \in 1..Len(sent) : sent[n].type = "deleted" => sent[n].status = "canceled"
NewestBought ==
  Subscribed # {} =>
    \E n \in 1..Len(sent) : /\ Buys(sent[n]) /\ sent[n].on = Newest
                            /\ \A m \in 1..Len(sent) : m > n => ~Buys(sent[m])

\* A checkout gives up the old subscription before it records the new one.
GaveUp(n) ==
  \/ db.sub \in {NoSub, sent[n].on} \/ ~Live(db.sub)
  \/ \E m \in Left \ {n} : Buys(sent[m]) /\ sent[m].on = db.sub
Cancelled == \A n \in Id : claim[n] = "retrieving" => GaveUp(n)
Cancelling == \A n \in Id : claim[n] = "cancelling" => prior[n] = db.sub

Ordered == Fits(db) /\ InTurn /\ LastWord /\ NewestBought /\ Cancelled /\ Cancelling
OrderedInv == story.ordered => Ordered

LEMMA OrderedInit == Init => OrderedInv
<1> SUFFICES ASSUME Init PROVE Ordered
  BY DEF OrderedInv
<1>1. sent = <<>> /\ Left = {} /\ Len(sent) = 0 /\ 1..Len(sent) = {}
  BY DEF Init, Left
<1>2. Fits(db)
  BY <1>1, SubAssumption DEF Init, Fits, RowKnown, PlanKept, LastBought, OneLive, Live
<1>3. InTurn /\ LastWord
  BY <1>1 DEF Init, InTurn, LastWord
<1>4. NewestBought
  BY DEF Init, NewestBought, Subscribed
<1>5. Cancelled /\ Cancelling
  BY DEF Init, Cancelled, Cancelling
<1> QED
  BY <1>2, <1>3, <1>4, <1>5 DEF Ordered

-----------------------------------------------------------------------------
(* More events, the same ones handled.                                     *)

\* The claims that are done are the same ones.
SameDone == \A n \in Id : claim'[n] = "done" <=> claim[n] = "done"

\* What Stripe says in k is what it is now.
Tells(k) ==
  /\ k \in Seq(Event) /\ sent' = sent \o k
  /\ \A i \in 1..Len(k) : k[i].type = "deleted" => k[i].status = "canceled"
  /\ \A s \in Sub : \/ \E i \in 1..Len(k) : Bears(k[i], s)
                    \/ stripe'[s] = stripe[s]
  /\ \A s \in Sub, i \in 1..Len(k) : Bears(k[i], s) => k[i].status = stripe'[s]
  /\ \A s \in Sub : Live(s)' => Live(s) \/ \E i \in 1..Len(k) : Buys(k[i]) /\ k[i].on = s

\* The old events keep their places, the new ones follow.
LEMMA Longer ==
  ASSUME Inv, NEW k, Tells(k)
  PROVE  /\ sent \in Seq(Event) /\ Len(sent) \in Nat /\ Len(k) \in Nat
         /\ Len(sent') = Len(sent) + Len(k)
         /\ \A n \in 1..Len(sent) : n \in 1..Len(sent') /\ sent'[n] = sent[n]
         /\ \A i \in 1..Len(k) : /\ Len(sent) + i \in 1..Len(sent')
                                 /\ sent'[Len(sent) + i] = k[i]
         /\ \A n \in 1..Len(sent') : n > Len(sent) => n - Len(sent) \in 1..Len(k)
                                                    /\ sent'[n] = k[n - Len(sent)]
<1>1. sent \in Seq(Event) /\ k \in Seq(Event) /\ sent' = sent \o k
  BY DEF Inv, Stripe, Tells
<1>2. Len(sent') = Len(sent) + Len(k) /\ Len(sent) \in Nat /\ Len(k) \in Nat
  BY <1>1
<1>3. \A n \in 1..Len(sent) : n \in 1..Len(sent') /\ sent'[n] = sent[n]
  BY <1>1, <1>2
<1>4. ASSUME NEW n \in 1..Len(sent'), n > Len(sent)
      PROVE  n - Len(sent) \in 1..Len(k) /\ sent'[n] = k[n - Len(sent)]
  BY <1>1, <1>2, <1>4
<1>5. ASSUME NEW i \in 1..Len(k)
      PROVE  Len(sent) + i \in 1..Len(sent') /\ sent'[Len(sent) + i] = k[i]
  <2>1. Len(sent) + i \in 1..Len(sent') /\ Len(sent) + i > Len(sent)
    BY <1>2
  <2>2. (Len(sent) + i) - Len(sent) = i
    BY <1>2
  <2> QED
    BY <1>4, <2>1, <2>2
<1> QED
  BY <1>1, <1>2, <1>3, <1>4, <1>5

LEMMA LastWordMore ==
  ASSUME Inv, LastWord, NEW k, Tells(k)
  PROVE  LastWord'
<1>1. ASSUME NEW s \in Sub, NEW n \in 1..Len(sent'), Bears(sent'[n], s),
             \A m \in 1..Len(sent') : m > n => ~Bears(sent'[m], s)
      PROVE  sent'[n].status = stripe'[s]
  <2>1. CASE n > Len(sent)
    <3>1. n - Len(sent) \in 1..Len(k) /\ sent'[n] = k[n - Len(sent)]
      BY <2>1, Longer
    <3> QED
      BY <1>1, <3>1 DEF Tells
  <2>2. CASE n <= Len(sent)
    <3>1. n \in 1..Len(sent) /\ sent'[n] = sent[n]
      BY <2>2, Longer
    <3>2. \A i \in 1..Len(k) : ~Bears(k[i], s)
      <4> SUFFICES ASSUME NEW i \in 1..Len(k) PROVE ~Bears(k[i], s)
        OBVIOUS
      <4>1. Len(sent) + i \in 1..Len(sent') /\ sent'[Len(sent) + i] = k[i] /\ Len(sent) + i > n
        BY <2>2, Longer
      <4> QED
        BY <1>1, <4>1
    <3>3. stripe'[s] = stripe[s]
      BY <3>2 DEF Tells
    <3>4. \A m \in 1..Len(sent) : m > n => ~Bears(sent[m], s)
      BY <1>1, Longer
    <3> QED
      BY <1>1, <3>1, <3>3, <3>4 DEF LastWord
  <2>3. n \in Nat /\ Len(sent) \in Nat
    BY Longer
  <2> QED
    BY <2>1, <2>2, <2>3
<1>2. ASSUME NEW n \in 1..Len(sent'), sent'[n].type = "deleted"
      PROVE  sent'[n].status = "canceled"
  <2>1. CASE n > Len(sent)
    BY <1>2, <2>1, Longer DEF Tells
  <2>2. CASE n <= Len(sent)
    <3>1. n \in 1..Len(sent) /\ sent'[n] = sent[n]
      BY <2>2, Longer
    <3> QED
      BY <1>2, <3>1 DEF LastWord
  <2>3. n \in Nat /\ Len(sent) \in Nat
    BY Longer
  <2> QED
    BY <2>1, <2>2, <2>3
<1> QED
  BY <1>1, <1>2 DEF LastWord, Bears

\* What is left stays left, in its turn, and the new events are left.
LEMMA LeftMore ==
  ASSUME Inv, Within, Within', InTurn, NEW k, Tells(k), SameDone
  PROVE  /\ \A n \in Left : n \in Left' /\ sent'[n] = sent[n] /\ (Due(n) => Due(n)')
         /\ \A i \in 1..Len(k) : Len(sent) + i \in Left' /\ sent'[Len(sent) + i] = k[i]
         /\ \A n \in 1..Len(sent') : claim'[n] = "done" => n \in 1..Len(sent) /\ claim[n] = "done"
<1>1. Len(sent') <= MaxEvents /\ Len(sent) <= MaxEvents /\ MaxEvents \in Nat /\ Len(sent) \in Nat
      /\ Len(sent') \in Nat
  BY BillingBounds, Longer DEF Within
<1>2. \A n \in 1..Len(sent') : n \in Id
  BY <1>1 DEF Id
<1>3. ASSUME NEW n \in Left
      PROVE  n \in Left' /\ sent'[n] = sent[n] /\ (Due(n) => Due(n)')
  <2>1. n \in 1..Len(sent) /\ claim[n] # "done" /\ n \in 1..Len(sent') /\ sent'[n] = sent[n]
    BY Longer DEF Left
  <2>2. n \in Left'
    BY <1>2, <2>1 DEF Left, SameDone
  <2>3. \A m \in 1..(n - 1) : m \in Id
    BY <1>1, <2>1 DEF Id
  <2> QED
    BY <2>1, <2>2, <2>3 DEF Due, SameDone
<1>4. ASSUME NEW n \in 1..Len(sent'), claim'[n] = "done"
      PROVE  n \in 1..Len(sent) /\ claim[n] = "done"
  <2>1. claim[n] = "done"
    BY <1>2, <1>4 DEF SameDone
  <2> QED
    BY <1>1, <1>2, <2>1 DEF InTurn
<1>5. ASSUME NEW i \in 1..Len(k)
      PROVE  Len(sent) + i \in Left' /\ sent'[Len(sent) + i] = k[i]
  <2>1. Len(sent) + i \in 1..Len(sent') /\ sent'[Len(sent) + i] = k[i] /\ Len(sent) + i \notin 1..Len(sent)
    BY <1>1, Longer
  <2>2. claim'[Len(sent) + i] # "done"
    BY <1>4, <2>1
  <2> QED
    BY <2>1, <2>2 DEF Left
<1> QED
  BY <1>3, <1>4, <1>5

LEMMA FitsMore ==
  ASSUME Inv, Within, Within', InTurn, NEW k, Tells(k), SameDone, UNCHANGED blind,
         NEW x, x = db', Fits(x)
  PROVE  Fits(db)'
<1>1. /\ \A n \in Left : n \in Left' /\ sent'[n] = sent[n] /\ (Due(n) => Due(n)')
      /\ \A i \in 1..Len(k) : Len(sent) + i \in Left' /\ sent'[Len(sent) + i] = k[i]
      /\ \A n \in 1..Len(sent') : claim'[n] = "done" => n \in 1..Len(sent) /\ claim[n] = "done"
  BY LeftMore
<1>2. RowKnown(db)'
  <2> SUFFICES ASSUME x.sub \in Sub \ blind
               PROVE  x.status = stripe'[x.sub] \/ \E n \in Left' : Bears(sent'[n], x.sub)
    BY DEF RowKnown, Bears
  <2>1. CASE \E i \in 1..Len(k) : Bears(k[i], x.sub)
    BY <1>1, <2>1
  <2>2. CASE stripe'[x.sub] = stripe[x.sub]
    BY <1>1, <2>2 DEF Fits, RowKnown
  <2> QED
    BY <2>1, <2>2 DEF Tells
<1>3. PlanKept(db)'
  <2> SUFFICES ASSUME x.status = "active"
               PROVE  /\ x.sub \in Sub
                      /\ x.plan = PlanOf[x.sub] \/
                           \E n \in Left' : Due(n)' /\ (Buys(sent'[n]) \/ Bears(sent'[n], x.sub))
    BY DEF PlanKept, Buys, Bears
  <2> QED
    BY <1>1 DEF Fits, PlanKept
<1>4. LastBought(db)'
  <2> SUFFICES ASSUME NEW n \in 1..Len(sent'), Buys(sent'[n]), claim'[n] = "done",
                      \A m \in 1..Len(sent') : m > n /\ Buys(sent'[m]) => claim'[m] # "done"
               PROVE  x.sub = sent'[n].on \/
                        \E j \in Left' : Due(j)' /\ Buys(sent'[j]) /\ x.sub = sent'[j].on
    BY DEF LastBought, Buys
  <2>1. n \in 1..Len(sent) /\ claim[n] = "done" /\ sent'[n] = sent[n]
    BY <1>1, Longer
  <2>2. ASSUME NEW m \in 1..Len(sent), m > n, Buys(sent[m]) PROVE claim[m] # "done"
    <3>1. m \in 1..Len(sent') /\ sent'[m] = sent[m]
      BY Longer
    <3>2. m \in Id
      BY BillingBounds, Longer DEF Within, Id
    <3> QED
      BY <2>2, <3>1, <3>2 DEF SameDone
  <2>3. x.sub = sent[n].on \/ \E j \in Left : Due(j) /\ Buys(sent[j]) /\ x.sub = sent[j].on
    BY <2>1, <2>2 DEF Fits, LastBought
  <2> QED
    BY <1>1, <2>1, <2>3
<1>5. OneLive(db)'
  <2> SUFFICES ASSUME NEW s \in Sub, Live(s)'
               PROVE  s = x.sub \/ \E n \in Left' : Buys(sent'[n]) /\ sent'[n].on = s
    BY DEF OneLive, Buys, Live
  <2>1. CASE Live(s)
    BY <1>1, <2>1 DEF Fits, OneLive
  <2>2. CASE \E i \in 1..Len(k) : Buys(k[i]) /\ k[i].on = s
    BY <1>1, <2>2
  <2> QED
    BY <2>1, <2>2 DEF Tells
<1> QED
  BY <1>2, <1>3, <1>4, <1>5 DEF Fits

LEMMA TellsNothing == ASSUME Inv, UNCHANGED <<stripe, sent>> PROVE Tells(<<>>)
<1>1. sent \in Seq(Event) /\ <<>> \in Seq(Event) /\ sent' = sent \o <<>> /\ 1..Len(<<>>) = {}
  BY DEF Inv, Stripe
<1> QED
  BY <1>1 DEF Tells, Live

LEMMA StandsFits == ASSUME NEW d, NEW x, Stands(x, d), Fits(d) PROVE Fits(x)
BY DEF Stands, Fits, RowKnown, PlanKept, LastBought, OneLive

-----------------------------------------------------------------------------
(* What happens at Stripe is told.                                         *)

LEMMA TurnsTells ==
  ASSUME Inv, NEW s \in Sub, NEW status, NEW type,
         <<status, type>> \in {<<"past_due", "updated">>, <<"active", "updated">>, <<"canceled", "deleted">>},
         Turns(s, status, type)
  PROVE  \E k : Tells(k) /\ \A i \in 1..Len(k) : ~Buys(k[i])
<1> DEFINE e == Said(type, s, status, 0)
<1>1. CASE stripe[s] \in {"active", "past_due"} \ {status}
  <2>1. stripe' = [stripe EXCEPT ![s] = status] /\ sent' = Append(sent, e)
    BY <1>1 DEF Turns
  <2>2. e \in Event /\ sent \in Seq(Event) /\ stripe \in [Sub -> {"none", "active", "past_due", "canceled"}]
    BY SaidEvent DEF Charge, Status, Inv, Stripe
  <2>3. /\ e.type \in {"updated", "deleted"} /\ e.on = s /\ e.status = status
        /\ e.type = "deleted" => e.status = "canceled"
    BY DEF Said
  <2> HIDE DEF e
  <2>4. <<e>> \in Seq(Event) /\ sent' = sent \o <<e>> /\ Len(<<e>>) = 1 /\ <<e>>[1] = e
    BY <2>1, <2>2
  <2>5. \A i \in 1..Len(<<e>>) : <<e>>[i] = e
    BY <2>4
  <2>6. stripe'[s] = status /\ \A r \in Sub : r # s => stripe'[r] = stripe[r]
    BY <2>1, <2>2
  <2>7. Bears(e, s) /\ \A r \in Sub : Bears(e, r) => r = s
    BY <2>3 DEF Bears
  <2>8. Live(s)
    BY <1>1 DEF Live
  <2>9. \A r \in Sub : Live(r)' => Live(r)
    BY <2>6, <2>8 DEF Live
  <2>10. \A r \in Sub : (\E i \in 1..Len(<<e>>) : Bears(<<e>>[i], r)) \/ stripe'[r] = stripe[r]
    <3>1. 1 \in 1..Len(<<e>>)
      BY <2>4
    <3> QED
      BY <2>4, <2>6, <2>7, <3>1
  <2>11. \A r \in Sub, i \in 1..Len(<<e>>) : Bears(<<e>>[i], r) => <<e>>[i].status = stripe'[r]
    BY <2>3, <2>5, <2>6, <2>7
  <2>12. \A i \in 1..Len(<<e>>) : <<e>>[i].type = "deleted" => <<e>>[i].status = "canceled"
    BY <2>3, <2>5
  <2>13. Tells(<<e>>)
    BY <2>4, <2>9, <2>10, <2>11, <2>12 DEF Tells
  <2>14. \A i \in 1..Len(<<e>>) : ~Buys(<<e>>[i])
    BY <2>3, <2>5 DEF Buys
  <2> QED
    BY <2>13, <2>14
<1>2. CASE stripe[s] \notin {"active", "past_due"} \ {status}
  <2>1. UNCHANGED <<stripe, sent>>
    BY <1>2 DEF Turns
  <2>2. Tells(<<>>) /\ 1..Len(<<>>) = {}
    BY <2>1, TellsNothing
  <2> QED
    BY <2>2
<1> QED
  BY <1>1, <1>2

LEMMA SubscribesTells ==
  ASSUME Inv, NEW s \in Sub, Subscribes(s)
  PROVE  \E k : Tells(k) /\ Len(k) = 2 /\ Buys(k[2]) /\ k[2].on = s
<1> DEFINE e1 == Said("created", s, "active", 0)
           e2 == Said("checkout", s, "active", 0)
           k == <<e1, e2>>
<1>1. stripe' = [stripe EXCEPT ![s] = "active"] /\ sent' = sent \o k
  BY DEF Subscribes
<1>2. /\ e1 \in Event /\ e2 \in Event /\ sent \in Seq(Event)
      /\ stripe \in [Sub -> {"none", "active", "past_due", "canceled"}]
  BY SaidEvent DEF Charge, Status, Inv, Stripe
<1>3. /\ e1.type = "created" /\ e1.on = s /\ e1.status = "active"
      /\ e2.type = "checkout" /\ e2.on = s /\ e2.status = "active"
  BY DEF Said
<1> HIDE DEF e1, e2
<1>4. k \in Seq(Event) /\ Len(k) = 2 /\ k[1] = e1 /\ k[2] = e2
  BY <1>2
<1>5. \A i \in 1..Len(k) : k[i] \in {e1, e2}
  BY <1>4
<1> HIDE DEF k
<1>6. stripe'[s] = "active" /\ \A r \in Sub : r # s => stripe'[r] = stripe[r]
  BY <1>1, <1>2
<1>7. 2 \in 1..Len(k) /\ Bears(k[2], s) /\ Buys(k[2]) /\ k[2].on = s
  BY <1>3, <1>4 DEF Bears, Buys
<1>8. \A r \in Sub, i \in 1..Len(k) : Bears(k[i], r) => k[i].status = stripe'[r]
  BY <1>3, <1>5, <1>6 DEF Bears
<1>9. \A r \in Sub : Live(r)' => Live(r) \/ \E i \in 1..Len(k) : Buys(k[i]) /\ k[i].on = r
  BY <1>6, <1>7 DEF Live
<1>10. \A i \in 1..Len(k) : k[i].type = "deleted" => k[i].status = "canceled"
  BY <1>3, <1>5
<1>11. \A r \in Sub : (\E i \in 1..Len(k) : Bears(k[i], r)) \/ stripe'[r] = stripe[r]
  BY <1>6, <1>7
<1>12. Tells(k)
  BY <1>1, <1>4, <1>8, <1>9, <1>10, <1>11 DEF Tells
<1> QED
  BY <1>4, <1>7, <1>12

\* Of anything but a subscription.
LEMMA OtherTells ==
  ASSUME Inv, NEW type \in {"topUp", "refund", "invoice", "dispute"}, NEW on \in Charge, NEW cents \in Nat,
         sent' = Append(sent, Said(type, on, "none", cents)), UNCHANGED stripe
  PROVE  \E k : Tells(k) /\ \A i \in 1..Len(k) : ~Buys(k[i])
<1> DEFINE e == Said(type, on, "none", cents)
<1>1. e \in Event /\ sent \in Seq(Event)
  BY SaidEvent DEF Status, Inv, Stripe
<1>2. e.type \in {"topUp", "refund", "invoice", "dispute"} /\ ~Buys(e) /\ \A r : ~Bears(e, r)
  BY DEF Said, Buys, Bears
<1> HIDE DEF e
<1>3. sent' = sent \o <<e>> /\ <<e>> \in Seq(Event) /\ \A i \in 1..Len(<<e>>) : <<e>>[i] = e
  <2>1. sent' = Append(sent, e)
    BY DEF e
  <2> QED
    BY <1>1, <2>1
<1>4. Tells(<<e>>)
  BY <1>2, <1>3 DEF Tells, Live
<1> QED
  BY <1>2, <1>3, <1>4

LEMMA NewestSame ==
  ASSUME Inv, NewestBought, NEW k, Tells(k), \A i \in 1..Len(k) : ~Buys(k[i]),
         Subscribed' = Subscribed, UNCHANGED story
  PROVE  NewestBought'
<1> SUFFICES ASSUME Subscribed # {}
             PROVE  \E n \in 1..Len(sent') : /\ Buys(sent'[n]) /\ sent'[n].on = Newest
                                             /\ \A m \in 1..Len(sent') : m > n => ~Buys(sent'[m])
  BY DEF NewestBought, Newest, Buys
<1>1. PICK n \in 1..Len(sent) : /\ Buys(sent[n]) /\ sent[n].on = Newest
                                /\ \A m \in 1..Len(sent) : m > n => ~Buys(sent[m])
  BY DEF NewestBought
<1>2. n \in 1..Len(sent') /\ sent'[n] = sent[n]
  BY Longer
<1>3. ASSUME NEW m \in 1..Len(sent'), m > n PROVE ~Buys(sent'[m])
  <2>1. CASE m > Len(sent)
    BY <2>1, Longer
  <2>2. CASE m <= Len(sent)
    <3>1. m \in 1..Len(sent) /\ sent'[m] = sent[m]
      BY <2>2, Longer
    <3> QED
      BY <1>1, <1>3, <3>1
  <2>3. m \in Nat /\ Len(sent) \in Nat
    BY Longer
  <2> QED
    BY <2>1, <2>2, <2>3
<1> QED
  BY <1>1, <1>2, <1>3

LEMMA GaveUpMore ==
  ASSUME Inv, Within, Within', InTurn, NEW k, Tells(k), SameDone, UNCHANGED db,
         NEW n \in Id, claim[n] \in Open, GaveUp(n)
  PROVE  GaveUp(n)'
<1>1. n \in 1..Len(sent) /\ sent'[n] = sent[n]
  <2>1. n <= Len(sent)
    BY DEF Inv, Claims
  <2> QED
    BY <2>1, Longer DEF Id
<1>2. /\ \A m \in Left : m \in Left' /\ sent'[m] = sent[m]
      /\ \A i \in 1..Len(k) : Len(sent) + i \in Left' /\ sent'[Len(sent) + i] = k[i]
  BY LeftMore
<1>3. CASE db.sub \in {NoSub, sent[n].on}
  BY <1>1, <1>3 DEF GaveUp
<1>4. CASE db.sub \in Sub /\ ~Live(db.sub)
  <2>1. CASE ~Live(db.sub)'
    BY <2>1 DEF GaveUp
  <2>2. CASE \E i \in 1..Len(k) : Buys(k[i]) /\ k[i].on = db.sub
    <3>1. PICK i \in 1..Len(k) : Buys(k[i]) /\ k[i].on = db.sub
      BY <2>2
    <3>2. Len(sent) + i # n
      BY <1>1, Longer
    <3> QED
      BY <1>2, <3>1, <3>2 DEF GaveUp, Buys
  <2> QED
    BY <1>4, <2>1, <2>2 DEF Tells, Live
<1>5. CASE \E m \in Left \ {n} : Buys(sent[m]) /\ sent[m].on = db.sub
  BY <1>2, <1>5 DEF GaveUp, Buys
<1> QED
  BY <1>3, <1>4, <1>5 DEF GaveUp, Inv, IsDb

LEMMA InTurnSame ==
  ASSUME Inv, InTurn, NEW k, Tells(k), UNCHANGED claim
  PROVE  InTurn'
<1>1. Len(sent) \in Nat /\ Len(sent') \in Nat /\ Len(sent) <= Len(sent')
  BY Longer
<1>2. \A n \in Id : n \in Nat
  BY BillingBounds DEF Id
<1> QED
  BY <1>1, <1>2 DEF InTurn

LEMMA HappensOrdered ==
  ASSUME Inv, Within, Within', Ordered, Happens
  PROVE  Ordered'
<1>1. /\ told < Len(story.acts) /\ told' = told + 1
      /\ UNCHANGED <<story, claim, prior, db, blind>>
  BY DEF Happens
<1>2. PICK a \in Act : a = story.acts[told + 1]
  BY <1>1, ActOf
<1>3. \/ a.do = "subscribe" /\ Subscribes(a.on) /\ UNCHANGED refunds
      \/ a.do = "lapse" /\ Turns(a.on, "past_due", "updated") /\ UNCHANGED refunds
      \/ a.do = "recover" /\ Turns(a.on, "active", "updated") /\ UNCHANGED refunds
      \/ a.do = "cancel" /\ Turns(a.on, "canceled", "deleted") /\ UNCHANGED refunds
      \/ a.do = "refund" /\ Refunds(a.on, a.cents)
      \/ /\ a.do \in {"topUp", "invoice", "dispute"}
         /\ sent' = Append(sent, Said(a.do, a.on, "none", a.cents))
         /\ UNCHANGED <<stripe, refunds, lapsed>>
  BY <1>2 DEF Happens
<1>4. /\ a.on \in Charge /\ a.cents \in Nat /\ told \in Nat
      /\ a.do \in {"subscribe", "lapse", "recover", "cancel"} => a.on \in Sub
  BY <1>1, <1>2, ActOf DEF Act, Inv, Stripe
<1>5. ASSUME NEW k, Tells(k)
      PROVE  Fits(db)' /\ InTurn' /\ LastWord' /\ Cancelled' /\ Cancelling'
  <2>1. SameDone
    BY <1>1 DEF SameDone
  <2>2. Fits(db)'
    BY <1>1, <1>5, <2>1, FitsMore DEF Ordered
  <2>3. InTurn' /\ LastWord'
    BY <1>1, <1>5, InTurnSame, LastWordMore DEF Ordered
  <2>4. \A n \in Id : claim'[n] = "retrieving" => GaveUp(n)'
    BY <1>1, <1>5, <2>1, GaveUpMore DEF Ordered, Cancelled, Open
  <2>5. Cancelled'
    BY <2>4 DEF Cancelled
  <2>6. Cancelling'
    BY <1>1 DEF Ordered, Cancelling
  <2> QED
    BY <2>2, <2>3, <2>5, <2>6
<1>6. CASE a.do # "subscribe"
  <2>1. \E k : Tells(k) /\ \A i \in 1..Len(k) : ~Buys(k[i])
    <3>1. CASE a.do \in {"lapse", "recover", "cancel"}
      BY <1>3, <1>4, <3>1, TurnsTells
    <3>2. CASE a.do \in {"refund", "topUp", "invoice", "dispute"}
      <4>1. PICK cents \in Nat : sent' = Append(sent, Said(a.do, a.on, "none", cents)) /\ UNCHANGED stripe
        BY <1>3, <1>4, <3>2, RefundedNat DEF Refunds
      <4> QED
        BY <1>4, <3>2, <4>1, OtherTells
    <3> QED
      BY <1>6, <3>1, <3>2 DEF Act
  <2>2. Subscribed' = Subscribed
    <3>1. 1..(told + 1) = (1..told) \cup {told + 1}
      BY <1>4
    <3> QED
      BY <1>1, <1>2, <1>6, <3>1 DEF Subscribed
  <2>3. PICK k : Tells(k) /\ \A i \in 1..Len(k) : ~Buys(k[i])
    BY <2>1
  <2>4. NewestBought'
    BY <1>1, <2>2, <2>3, NewestSame DEF Ordered
  <2> QED
    BY <1>5, <2>3, <2>4 DEF Ordered
<1>7. CASE a.do = "subscribe"
  <2>1. PICK k : Tells(k) /\ Len(k) = 2 /\ Buys(k[2]) /\ k[2].on = a.on
    BY <1>3, <1>4, <1>7, SubscribesTells
  <2>2. Newest' = a.on
    <3>1. Subscribed' \subseteq 1..(told + 1) /\ told + 1 \in Subscribed'
      BY <1>1, <1>2, <1>4, <1>7 DEF Subscribed
    <3>2. \A i \in Subscribed' : told + 1 >= i
      BY <1>4, <3>1
    <3>3. \A j \in Subscribed' : (\A i \in Subscribed' : j >= i) => j = told + 1
      BY <1>4, <3>1
    <3>4. Max(Subscribed') = told + 1
      BY <3>1, <3>2, <3>3 DEF Max
    <3> QED
      BY <1>1, <1>2, <3>4 DEF Newest
  <2>3. /\ Len(sent) + 2 \in 1..Len(sent') /\ sent'[Len(sent) + 2] = k[2]
        /\ \A m \in 1..Len(sent') : ~(m > Len(sent) + 2)
    <3>1. /\ Len(sent) \in Nat /\ Len(sent') = Len(sent) + Len(k)
          /\ \A i \in 1..Len(k) : Len(sent) + i \in 1..Len(sent') /\ sent'[Len(sent) + i] = k[i]
      BY <2>1, Longer
    <3>2. 2 \in 1..Len(k) /\ Len(k) = 2
      BY <2>1
    <3>3. \A m \in 1..Len(sent') : ~(m > Len(sent) + 2)
      BY <3>1, <3>2
    <3> QED
      BY <3>1, <3>2, <3>3
  <2>4. NewestBought'
    BY <2>1, <2>2, <2>3 DEF NewestBought, Buys
  <2> QED
    BY <1>5, <2>1, <2>4 DEF Ordered
<1> QED
  BY <1>6, <1>7

-----------------------------------------------------------------------------
(* Where the statements of an event leave the row.                         *)

\* What the row says of its subscription is what it said, or it names s.
Half(x, d, s) == x.sub = s \/ (x.sub = d.sub /\ x.status = d.status)
Says(x, plan, s, status) == x.plan = plan /\ x.sub = s /\ x.status = status

LEMMA SubscriptionStands ==
  ASSUME NEW d, IsDb(d), NEW e, e.on \in Sub, e.status \in Status
  PROVE  IF IsCurrentSubscription(d, e.on)
         THEN /\ \A x \in Range(SubscriptionWrites(d, e)) : Half(x, d, e.on)
              /\ Says(Last(SubscriptionWrites(d, e)), PlanFor(e.on, e.status), e.on, e.status)
         ELSE \A x \in Range(SubscriptionWrites(d, e)) : x = d
<1> DEFINE d1 == WithPlan(d, PlanFor(e.on, e.status))
           d2 == SetTenantBilling(d1, e.on, e.status)
           d3 == AssignUnlinked(d2)
<1>1. CASE ~IsCurrentSubscription(d, e.on)
  <2>1. SubscriptionWrites(d, e) = <<d>>
    BY <1>1 DEF SubscriptionWrites
  <2> QED
    BY <1>1, <2>1 DEF Range
<1>2. CASE IsCurrentSubscription(d, e.on)
  <2>1. SubscriptionWrites(d, e) = <<d, d1, d2, d3>>
    BY <1>2 DEF SubscriptionWrites
  <2>2. PlanFor(e.on, e.status) \in Paid \cup {"free"}
    BY PaidPlans DEF PlanFor
  <2>3. IsDb(d1) /\ d1.plan = PlanFor(e.on, e.status) /\ d1.sub = d.sub /\ d1.status = d.status
    BY <2>2, WithPlanDb
  <2> HIDE DEF d1
  <2>4. IsDb(d2) /\ d2.plan = d1.plan /\ d2.sub = e.on /\ d2.status = e.status
    BY <2>3, SetBillingDb
  <2> HIDE DEF d2
  <2>5. d3.plan = d1.plan /\ d3.sub = e.on /\ d3.status = e.status
    BY <2>4, AssignBeside DEF Beside, Stands
  <2> HIDE DEF d3
  <2>6. \A x \in Range(SubscriptionWrites(d, e)) : x \in {d, d1, d2, d3}
    BY <2>1 DEF Range
  <2>7. Last(SubscriptionWrites(d, e)) = d3
    BY <2>1 DEF Last
  <2> QED
    BY <1>2, <2>3, <2>4, <2>5, <2>6, <2>7 DEF Half, Says
<1> QED
  BY <1>1, <1>2

LEMMA DeletedStands ==
  ASSUME NEW d, IsDb(d), NEW e, e.on \in Sub, e.status \in Status
  PROVE  IF IsCurrentSubscription(d, e.on)
         THEN /\ \A x \in Range(DeletedWrites(d, e)) : Half(x, d, e.on)
              /\ Says(Last(DeletedWrites(d, e)), "free", e.on, e.status)
         ELSE \A x \in Range(DeletedWrites(d, e)) : x = d
<1> DEFINE d1 == WithPlan(d, "free")
           d2 == [d1 EXCEPT !.sub = e.on, !.status = e.status]
<1>1. CASE ~IsCurrentSubscription(d, e.on)
  <2>1. DeletedWrites(d, e) = <<d>>
    BY <1>1 DEF DeletedWrites
  <2> QED
    BY <1>1, <2>1 DEF Range
<1>2. CASE IsCurrentSubscription(d, e.on)
  <2>1. DeletedWrites(d, e) = <<d, d1, d2>>
    BY <1>2 DEF DeletedWrites
  <2>2. IsDb(d1) /\ d1.plan = "free" /\ d1.sub = d.sub /\ d1.status = d.status
    BY WithPlanDb
  <2> HIDE DEF d1
  <2>3. d2.plan = "free" /\ d2.sub = e.on /\ d2.status = e.status
    BY <2>2 DEF IsDb, Fields
  <2> HIDE DEF d2
  <2>4. \A x \in Range(DeletedWrites(d, e)) : x \in {d, d1, d2}
    BY <2>1 DEF Range
  <2>5. Last(DeletedWrites(d, e)) = d2
    BY <2>1 DEF Last
  <2> QED
    BY <1>2, <2>2, <2>3, <2>4, <2>5 DEF Half, Says
<1> QED
  BY <1>1, <1>2

LEMMA CheckoutStands ==
  ASSUME NEW d, IsDb(d), NEW s \in Sub, NEW status \in Status
  PROVE  /\ \A x \in Range(CheckoutWrites(d, s, status)) : Half(x, d, s)
         /\ LET x == Last(CheckoutWrites(d, s, status))
            IN x.sub = s /\ x.status = status /\ (status = "active" => x.plan = PlanOf[s])
<1> DEFINE d1 == IF Unlocks(status) THEN WithPlan(d, PlanOf[s]) ELSE d
           d2 == SetTenantBilling(d1, s, status)
           d3 == AssignUnlinked(d2)
<1>1. CheckoutWrites(d, s, status) = <<d, d1, d2, d3>>
  BY DEF CheckoutWrites
<1>2. IsDb(d1) /\ d1.sub = d.sub /\ d1.status = d.status /\ (status = "active" => d1.plan = PlanOf[s])
  BY WithPlanDb, PaidPlans DEF Unlocks
<1> HIDE DEF d1
<1>3. IsDb(d2) /\ d2.plan = d1.plan /\ d2.sub = s /\ d2.status = status
  BY <1>2, SetBillingDb
<1> HIDE DEF d2
<1>4. d3.plan = d1.plan /\ d3.sub = s /\ d3.status = status
  BY <1>3, AssignBeside DEF Beside, Stands
<1> HIDE DEF d3
<1>5. \A x \in Range(CheckoutWrites(d, s, status)) : x \in {d, d1, d2, d3}
  BY <1>1 DEF Range
<1>6. Last(CheckoutWrites(d, s, status)) = d3
  BY <1>1 DEF Last
<1> QED
  BY <1>2, <1>3, <1>4, <1>5, <1>6 DEF Half

\* The events that are about no subscription, or about one that is not the
\* row's, leave it alone.
Own(e) == e.type \in {"created", "updated", "deleted"} /\ IsCurrentSubscription(db, e.on)

LEMMA WritesStand ==
  ASSUME Inv, NEW n \in Id, n <= Len(sent)
  PROVE  IF Own(sent[n])
         THEN /\ \A x \in Range(Writes(n)) : Half(x, db, sent[n].on)
              /\ LET e == sent[n]
                     plan == IF e.type = "deleted" THEN "free" ELSE PlanFor(e.on, e.status)
                 IN Says(Last(Writes(n)), plan, e.on, e.status)
         ELSE \A x \in Range(Writes(n)) : Stands(x, db)
<1> DEFINE e == sent[n]
<1>1. e \in Event /\ Truthful(e) /\ IsDb(db)
  BY Given DEF Inv
<1>2. e.status \in Status /\ (e.type \in {"created", "updated", "deleted"} => e.on \in Sub)
  BY <1>1 DEF Event, Truthful
<1>3. CASE e.type \in {"created", "updated"}
  <2>1. Writes(n) = SubscriptionWrites(db, e)
    BY <1>3 DEF Writes
  <2>2. e.type # "deleted" /\ (Own(e) <=> IsCurrentSubscription(db, e.on))
    BY <1>3 DEF Own
  <2> HIDE DEF e
  <2>3. IF IsCurrentSubscription(db, e.on)
        THEN /\ \A x \in Range(SubscriptionWrites(db, e)) : Half(x, db, e.on)
             /\ Says(Last(SubscriptionWrites(db, e)), PlanFor(e.on, e.status), e.on, e.status)
        ELSE \A x \in Range(SubscriptionWrites(db, e)) : x = db
    BY <1>1, <1>2, <1>3, SubscriptionStands
  <2> USE DEF e
  <2> QED
    BY <2>1, <2>2, <2>3 DEF Stands
<1>4. CASE e.type = "deleted"
  <2>1. Writes(n) = DeletedWrites(db, e)
    BY <1>4 DEF Writes
  <2>2. Own(e) <=> IsCurrentSubscription(db, e.on)
    BY <1>4 DEF Own
  <2> HIDE DEF e
  <2>3. IF IsCurrentSubscription(db, e.on)
        THEN /\ \A x \in Range(DeletedWrites(db, e)) : Half(x, db, e.on)
             /\ Says(Last(DeletedWrites(db, e)), "free", e.on, e.status)
        ELSE \A x \in Range(DeletedWrites(db, e)) : x = db
    BY <1>1, <1>2, <1>4, DeletedStands
  <2> USE DEF e
  <2> QED
    BY <1>4, <2>1, <2>2, <2>3 DEF Stands
<1>5. CASE e.type \notin {"created", "updated", "deleted"}
  <2>1. ~Own(e)
    BY <1>5 DEF Own
  <2> SUFFICES ASSUME NEW x \in Range(Writes(n)) PROVE Stands(x, db)
    BY <2>1
  <2>2. CASE e.type = "topUp"
    <3>1. Writes(n) = TopUpWrites(db, e.on)
      BY <2>2 DEF Writes
    <3> QED
      BY <1>1, <3>1, TopUpFollows DEF Follows, Beside
  <2>3. CASE e.type = "invoice"
    <3>1. Writes(n) = InvoiceWrites(db, n, e.on, e.cents)
      BY <2>3 DEF Writes
    <3> QED
      BY <1>1, <3>1, InvoiceFollows DEF Follows, Beside
  <2>4. CASE e.type = "refund"
    <3>1. Writes(n) = RefundWrites(db, n, e.on, e.cents)
      BY <2>4 DEF Writes
    <3> QED
      BY <1>1, <3>1, RefundFollows DEF Follows, Beside
  <2>5. CASE e.type = "dispute"
    <3>1. Writes(n) = DisputeWrites(db, e.on, e.cents)
      BY <2>5 DEF Writes
    <3> QED
      BY <1>1, <3>1, DisputeFollows DEF Follows, Beside
  <2>6. CASE e.type = "checkout"
    <3>1. Writes(n) = <<db>>
      BY <2>6 DEF Writes
    <3>2. x = db
      BY <3>1 DEF Range
    <3> QED
      BY <3>2 DEF Stands
  <2> QED
    BY <1>1, <1>5, <2>2, <2>3, <2>4, <2>5, <2>6 DEF Event
<1> QED
  BY <1>3, <1>4, <1>5

-----------------------------------------------------------------------------
(* The event whose turn it is.                                             *)

LEMMA DeliveredDue ==
  ASSUME Inv, story.ordered, NEW n \in Id, Delivered(n)
  PROVE  Due(n)
<1>1. n \in 1..Len(sent) /\ claim[n] = "free"
  BY DEF Delivered, Id, Inv, Stripe
<1> QED
  BY <1>1 DEF Delivered, Due, Left

LEMMA OpenDue ==
  ASSUME Inv, InTurn, NEW n \in Id, claim[n] \in Open
  PROVE  Due(n) /\ Buys(sent[n])
<1>1. n \in 1..Len(sent) /\ sent[n].type = "checkout" /\ claim[n] \notin {"free", "done"}
  BY DEF Inv, Claims, Stripe, Id, Open
<1>2. \A m \in 1..(n - 1) : claim[m] = "done"
  BY <1>1 DEF InTurn
<1> QED
  BY <1>1, <1>2 DEF Due, Left, Buys

LEMMA OneDue == ASSUME Inv, NEW n, NEW m, Due(n), Due(m) PROVE n = m
<1>1. n \in Nat /\ m \in Nat /\ n >= 1 /\ m >= 1 /\ claim[n] # "done" /\ claim[m] # "done"
  BY DEF Due, Left
<1>2. n < m => n \in 1..(m - 1)
  BY <1>1
<1>3. m < n => m \in 1..(n - 1)
  BY <1>1
<1> QED
  BY <1>1, <1>2, <1>3 DEF Due

LEMMA DoneBefore ==
  ASSUME Inv, Within, InTurn, NEW n, Due(n), NEW j \in 1..Len(sent)
  PROVE  (claim[j] = "done" => j < n) /\ (j > n => claim[j] # "done" /\ j \in Left)
<1>1. n \in 1..Len(sent) /\ n \in Nat /\ j \in Nat /\ claim[n] # "done"
  BY DEF Due, Left
<1>2. j \in Id
  BY BillingBounds, Longer DEF Within, Id, Inv, Stripe
<1>3. j > n => n \in 1..(j - 1)
  BY <1>1
<1>4. j > n => claim[j] # "done"
  BY <1>1, <1>2, <1>3 DEF InTurn
<1> QED
  BY <1>1, <1>4 DEF Left

\* A subscription that was bought exists.
LEMMA BoughtSub ==
  ASSUME Inv, NEW j \in 1..Len(sent), Buys(sent[j])
  PROVE  sent[j].on \in Sub
BY DEF Inv, Stripe, Truthful, Buys

\* A crash in the middle of an event leaves the row to that event.
LEMMA HalfFits ==
  ASSUME Inv, Ordered, NEW n \in Id, Due(n), NEW s \in Sub, Bears(sent[n], s),
         NEW x, Half(x, db, s),
         claim[n] = "retrieving" \/ (~Buys(sent[n]) /\ IsCurrentSubscription(db, s))
  PROVE  Fits(x)
<1>0. /\ n \in Left /\ n \in Id /\ Fits(db) /\ sent[n].on = s
      /\ claim[n] = "retrieving" => Buys(sent[n])
  BY DEF Due, Left, Ordered, Bears, Buys, Inv, Claims, Open
<1>1. CASE x.sub = db.sub /\ x.status = db.status
  <2>1. RowKnown(x) /\ LastBought(x) /\ OneLive(x)
    BY <1>0, <1>1 DEF Fits, RowKnown, LastBought, OneLive
  <2>2. PlanKept(x)
    <3> SUFFICES ASSUME db.status = "active"
                 PROVE  db.sub \in Sub /\ (Buys(sent[n]) \/ Bears(sent[n], db.sub))
      BY <1>0, <1>1 DEF PlanKept
    <3>1. db.sub \in Sub
      BY <1>0 DEF Fits, PlanKept
    <3> QED
      BY <1>0, <3>1, SubAssumption DEF IsCurrentSubscription
  <2> QED
    BY <2>1, <2>2 DEF Fits
<1>2. CASE x.sub = s
  <2>1. RowKnown(x) /\ PlanKept(x)
    BY <1>0, <1>2 DEF RowKnown, PlanKept
  <2>2. LastBought(x)
    <3> SUFFICES ASSUME NEW j \in 1..Len(sent), Buys(sent[j]), claim[j] = "done",
                        \A m \in 1..Len(sent) : m > j /\ Buys(sent[m]) => claim[m] # "done"
                 PROVE  x.sub = sent[j].on \/ \E k \in Left : Due(k) /\ Buys(sent[k]) /\ x.sub = sent[k].on
      BY DEF LastBought
    <3>1. db.sub = sent[j].on \/ \E k \in Left : Due(k) /\ Buys(sent[k]) /\ db.sub = sent[k].on
      BY <1>0 DEF Fits, LastBought
    <3>2. CASE Buys(sent[n])
      BY <1>0, <1>2, <3>2
    <3>3. CASE ~Buys(sent[n]) /\ IsCurrentSubscription(db, s)
      <4>1. db.sub = sent[j].on
        BY <3>1, <3>3, OneDue
      <4>2. db.sub \in Sub
        BY <4>1, BoughtSub
      <4> QED
        BY <1>2, <3>3, <4>1, <4>2, SubAssumption DEF IsCurrentSubscription
    <3> QED
      BY <1>0, <3>2, <3>3
  <2>3. OneLive(x)
    <3> SUFFICES ASSUME NEW r \in Sub, Live(r)
                 PROVE  r = x.sub \/ \E m \in Left : Buys(sent[m]) /\ sent[m].on = r
      BY DEF OneLive
    <3>1. r = db.sub \/ \E m \in Left : Buys(sent[m]) /\ sent[m].on = r
      BY <1>0 DEF Fits, OneLive
    <3>2. CASE r = db.sub /\ claim[n] = "retrieving"
      <4>1. GaveUp(n)
        BY <1>0, <3>2 DEF Ordered, Cancelled
      <4> QED
        BY <1>0, <1>2, <3>2, <4>1, SubAssumption DEF GaveUp
    <3>3. CASE r = db.sub /\ IsCurrentSubscription(db, s)
      BY <1>2, <3>3, SubAssumption DEF IsCurrentSubscription
    <3> QED
      BY <3>1, <3>2, <3>3
  <2> QED
    BY <2>1, <2>2, <2>3 DEF Fits
<1> QED
  BY <1>1, <1>2 DEF Half

-----------------------------------------------------------------------------
(* An event is done.                                                       *)

\* The claim of n is done now; the others, and Stripe, are as before.
Finishes(n) == claim' = [claim EXCEPT ![n] = "done"] /\ UNCHANGED <<stripe, sent>>

LEMMA DoneLeft ==
  ASSUME Inv, Within, Ordered, NEW n \in Id, Due(n), Finishes(n)
  PROVE  /\ Left' = Left \ {n}
         /\ \A m \in Left : ~Due(m) \/ m = n
         /\ \A j \in 1..Len(sent) : claim'[j] = "done" => j = n \/ (claim[j] = "done" /\ j < n)
         /\ \A j \in 1..Len(sent) : claim'[j] # "done" => claim[j] # "done"
         /\ claim'[n] = "done" /\ n \in 1..Len(sent) /\ n \in Left
<1>1. \A j \in 1..Len(sent) : j \in Id
  BY BillingBounds, Longer DEF Within, Id, Inv, Stripe
<1>2. \A j \in 1..Len(sent) : claim'[j] = IF j = n THEN "done" ELSE claim[j]
  BY <1>1 DEF Finishes, Inv, Claims
<1>3. n \in Left /\ n \in 1..Len(sent)
  BY DEF Due, Left
<1>4. Left' = Left \ {n}
  BY <1>2, <1>3 DEF Left, Finishes
<1>5. \A j \in 1..Len(sent) : claim[j] = "done" => j < n
  BY DoneBefore DEF Ordered
<1>6. \A m \in Left : ~Due(m) \/ m = n
  BY OneDue
<1> QED
  BY <1>2, <1>3, <1>4, <1>5, <1>6

LEMMA TurnDone ==
  ASSUME Inv, Within, Ordered, NEW n \in Id, Due(n), Finishes(n), UNCHANGED <<story, told>>
  PROVE  InTurn' /\ LastWord' /\ NewestBought' /\ Cancelled' /\ Cancelling'
<1>1. \A m \in 1..(n - 1) : claim[m] = "done" /\ claim'[m] = "done"
  BY DEF Due, Id, Finishes, Inv, Claims
<1>2. n <= Len(sent) /\ \A m \in Id : claim'[m] = IF m = n THEN "done" ELSE claim[m]
  BY DEF Due, Left, Finishes, Inv, Claims
<1>3. InTurn'
  <2> SUFFICES ASSUME NEW m \in Id, claim'[m] # "free"
               PROVE  m <= Len(sent) /\ \A j \in 1..(m - 1) : claim'[j] = "done"
    BY DEF InTurn, Finishes
  <2>1. CASE m = n
    BY <1>1, <1>2, <2>1
  <2>2. CASE m # n
    <3>1. m <= Len(sent) /\ \A j \in 1..(m - 1) : claim[j] = "done" /\ j \in Id
      BY <1>2, <2>2, BillingBounds DEF Ordered, InTurn, Id
    <3> QED
      BY <1>2, <3>1
  <2> QED
    BY <2>1, <2>2
<1>4. LastWord' /\ NewestBought'
  BY DEF Finishes, Ordered, LastWord, Bears, NewestBought, Buys, Newest, Subscribed
<1>5. \A m \in Id : claim'[m] \notin Open
  <2> SUFFICES ASSUME NEW m \in Id, claim'[m] \in Open PROVE FALSE
    OBVIOUS
  <2>1. m # n /\ claim[m] \in Open
    BY <1>2 DEF Open
  <2> QED
    BY <2>1, OpenDue, OneDue DEF Ordered
<1>6. Cancelled' /\ Cancelling'
  BY <1>5 DEF Cancelled, Cancelling, Open
<1> QED
  BY <1>3, <1>4, <1>6

LEMMA PastFits ==
  ASSUME Inv, Within, Ordered, NEW n \in Id, Due(n), Finishes(n), UNCHANGED blind,
         ~Buys(sent[n]), ~Own(sent[n]), NEW x, x = db', Stands(x, db)
  PROVE  Fits(db)'
<1>1. /\ Left' = Left \ {n} /\ \A m \in Left : ~Due(m) \/ m = n
      /\ \A j \in 1..Len(sent) : claim'[j] = "done" => j = n \/ claim[j] = "done"
      /\ \A j \in 1..Len(sent) : claim'[j] # "done" => claim[j] # "done"
  BY DoneLeft
<1>2. ~Bears(sent[n], db.sub)
  BY DEF Own, Bears, Buys, IsCurrentSubscription
<1>3. UNCHANGED <<stripe, sent, blind>> /\ Fits(db)
      /\ x.plan = db.plan /\ x.sub = db.sub /\ x.status = db.status
  BY DEF Finishes, Ordered, Stands
<1>4. RowKnown(db)'
  <2> SUFFICES ASSUME db.sub \in Sub \ blind
               PROVE  db.status = stripe[db.sub] \/ \E m \in Left' : Bears(sent[m], db.sub)
    BY <1>3 DEF RowKnown, Bears
  <2> QED
    BY <1>1, <1>2, <1>3 DEF Fits, RowKnown
<1>5. PlanKept(db)'
  <2> SUFFICES ASSUME db.status = "active"
               PROVE  db.sub \in Sub /\ db.plan = PlanOf[db.sub]
    BY <1>3 DEF PlanKept
  <2> QED
    BY <1>1, <1>2, <1>3 DEF Fits, PlanKept
<1>6. LastBought(db)'
  <2> SUFFICES ASSUME NEW j \in 1..Len(sent), Buys(sent[j]), claim'[j] = "done",
                      \A m \in 1..Len(sent) : m > j /\ Buys(sent[m]) => claim'[m] # "done"
               PROVE  db.sub = sent[j].on
    BY <1>3 DEF LastBought, Buys
  <2>1. claim[j] = "done" /\ \A m \in 1..Len(sent) : m > j /\ Buys(sent[m]) => claim[m] # "done"
    BY <1>1
  <2>2. db.sub = sent[j].on \/ \E k \in Left : Due(k) /\ Buys(sent[k]) /\ db.sub = sent[k].on
    BY <1>3, <2>1 DEF Fits, LastBought
  <2> QED
    BY <1>1, <2>2
<1>7. OneLive(db)'
  <2> SUFFICES ASSUME NEW s \in Sub, Live(s)
               PROVE  s = db.sub \/ \E m \in Left' : Buys(sent[m]) /\ sent[m].on = s
    BY <1>3 DEF OneLive, Live, Buys
  <2> QED
    BY <1>1, <1>3 DEF Fits, OneLive
<1> QED
  BY <1>4, <1>5, <1>6, <1>7 DEF Fits

\* An event about the row's own subscription: the last word about it is the
\* truth, and any other has a later one behind it.
LEMMA OwnFits ==
  ASSUME Inv, Within, Ordered, NEW n \in Id, Due(n), Finishes(n), UNCHANGED blind, Own(sent[n]),
         NEW x, x = db', NEW plan, Says(x, plan, sent[n].on, sent[n].status),
         plan = IF sent[n].type = "deleted" THEN "free" ELSE PlanFor(sent[n].on, sent[n].status)
  PROVE  Fits(db)'
<1> DEFINE s == sent[n].on
<1>1. /\ Left' = Left \ {n} /\ \A m \in Left : ~Due(m) \/ m = n
      /\ \A j \in 1..Len(sent) : claim'[j] = "done" => j = n \/ claim[j] = "done"
      /\ \A j \in 1..Len(sent) : claim'[j] # "done" => claim[j] # "done"
      /\ n \in 1..Len(sent)
  BY DoneLeft
<1>2. s \in Sub /\ Bears(sent[n], s) /\ ~Buys(sent[n]) /\ db.sub \in {NoSub, s}
  BY <1>1 DEF Inv, Stripe, Truthful, Own, Bears, Buys, IsCurrentSubscription
<1>3. UNCHANGED <<stripe, sent, blind>> /\ Fits(db)
      /\ x.plan = plan /\ x.sub = s /\ x.status = sent[n].status
  BY DEF Finishes, Ordered, Says
<1>4. RowKnown(db)'
  <2> SUFFICES ASSUME \A m \in Left' : ~Bears(sent[m], s)
               PROVE  sent[n].status = stripe[s]
    BY <1>3 DEF RowKnown, Bears
  <2>1. \A m \in 1..Len(sent) : m > n => ~Bears(sent[m], s)
    <3> SUFFICES ASSUME NEW m \in 1..Len(sent), m > n PROVE m \in Left'
      OBVIOUS
    <3>1. m \in Left /\ m # n
      BY <1>1, DoneBefore DEF Ordered
    <3> QED
      BY <1>1, <3>1
  <2> QED
    BY <1>1, <1>2, <2>1 DEF Ordered, LastWord
<1>5. PlanKept(db)'
  <2>1. sent[n].type = "deleted" => sent[n].status = "canceled"
    BY <1>1 DEF Ordered, LastWord
  <2>2. x.status = "active" => x.sub \in Sub /\ x.plan = PlanOf[x.sub]
    BY <1>2, <1>3, <2>1 DEF PlanFor, Unlocks
  <2> QED
    BY <2>2 DEF PlanKept
<1>6. LastBought(db)'
  <2> SUFFICES ASSUME NEW j \in 1..Len(sent), Buys(sent[j]), claim'[j] = "done",
                      \A m \in 1..Len(sent) : m > j /\ Buys(sent[m]) => claim'[m] # "done"
               PROVE  s = sent[j].on
    BY <1>3 DEF LastBought, Buys
  <2>1. claim[j] = "done" /\ \A m \in 1..Len(sent) : m > j /\ Buys(sent[m]) => claim[m] # "done"
    BY <1>1, <1>2
  <2>2. db.sub = sent[j].on \/ \E k \in Left : Due(k) /\ Buys(sent[k]) /\ db.sub = sent[k].on
    BY <1>3, <2>1 DEF Fits, LastBought
  <2>3. db.sub = sent[j].on /\ sent[j].on \in Sub
    BY <1>1, <1>2, <2>2, BoughtSub
  <2> QED
    BY <1>2, <2>3, SubAssumption
<1>7. OneLive(db)'
  <2> SUFFICES ASSUME NEW r \in Sub, Live(r)
               PROVE  r = s \/ \E m \in Left' : Buys(sent[m]) /\ sent[m].on = r
    BY <1>3 DEF OneLive, Live, Buys
  <2>1. r = db.sub \/ \E m \in Left : Buys(sent[m]) /\ sent[m].on = r
    BY <1>3 DEF Fits, OneLive
  <2> QED
    BY <1>1, <1>2, <2>1, SubAssumption
<1> QED
  BY <1>4, <1>5, <1>6, <1>7 DEF Fits

\* A checkout is done: the row names its subscription, which is the only one
\* that Stripe still charges without a later checkout.
LEMMA BoughtFits ==
  ASSUME Inv, Within, Ordered, NEW n \in Id, claim[n] = "retrieving", Finishes(n),
         NEW x, x = db', x.sub = sent[n].on, x.status = "active" => x.plan = PlanOf[x.sub],
         (x.status = stripe[x.sub]) \/ x.sub \in blind'
  PROVE  Fits(db)'
<1> DEFINE s == sent[n].on
<1>0. Due(n) /\ Buys(sent[n]) /\ GaveUp(n)
  BY OpenDue DEF Ordered, Cancelled, Open
<1>1. /\ Left' = Left \ {n}
      /\ \A j \in 1..Len(sent) : claim'[j] = "done" => j = n \/ (claim[j] = "done" /\ j < n)
      /\ claim'[n] = "done" /\ n \in 1..Len(sent) /\ n \in Left
  BY <1>0, DoneLeft
<1>2. s \in Sub /\ UNCHANGED <<stripe, sent>> /\ Fits(db)
  BY <1>0, <1>1, BoughtSub DEF Finishes, Ordered
<1>3. RowKnown(db)'
  BY <1>2 DEF RowKnown
<1>4. PlanKept(db)'
  BY <1>2 DEF PlanKept
<1>5. LastBought(db)'
  <2> SUFFICES ASSUME NEW j \in 1..Len(sent), Buys(sent[j]), claim'[j] = "done",
                      \A m \in 1..Len(sent) : m > j /\ Buys(sent[m]) => claim'[m] # "done"
               PROVE  s = sent[j].on
    BY <1>2 DEF LastBought, Buys
  <2>1. ~(n > j)
    BY <1>0, <1>1
  <2>2. j = n
    BY <1>1, <2>1
  <2> QED
    BY <2>2
<1>6. OneLive(db)'
  <2> SUFFICES ASSUME NEW r \in Sub, Live(r)
               PROVE  r = s \/ \E m \in Left' : Buys(sent[m]) /\ sent[m].on = r
    BY <1>2 DEF OneLive, Live, Buys
  <2>1. r = db.sub \/ \E m \in Left : Buys(sent[m]) /\ sent[m].on = r
    BY <1>2 DEF Fits, OneLive
  <2>2. CASE r = db.sub
    BY <1>0, <1>1, <2>2, SubAssumption DEF GaveUp
  <2> QED
    BY <1>1, <2>1, <2>2
<1> QED
  BY <1>3, <1>4, <1>5, <1>6 DEF Fits

-----------------------------------------------------------------------------
(* The steps.                                                              *)

LEMMA ProcessOrdered ==
  ASSUME Inv, Within, story.ordered, Ordered, NEW n \in Id, Process(n)
  PROVE  Ordered'
<1>1. /\ Due(n) /\ Finishes(n) /\ ~Buys(sent[n]) /\ n <= Len(sent)
      /\ db' = Last(Writes(n)) /\ UNCHANGED <<story, told, blind>>
  BY DeliveredDue DEF Process, Finishes, Buys, Delivered, stripeVars
<1>2. db' \in Range(Writes(n))
  BY <1>1, LastWrites
<1>3. Fits(db)'
  <2>1. CASE Own(sent[n])
    <3> DEFINE plan == IF sent[n].type = "deleted" THEN "free" ELSE PlanFor(sent[n].on, sent[n].status)
    <3>1. Says(db', plan, sent[n].on, sent[n].status)
      BY <1>1, <2>1, WritesStand
    <3> QED
      BY <1>1, <2>1, <3>1, OwnFits
  <2>2. CASE ~Own(sent[n])
    <3>1. Stands(db', db)
      BY <1>1, <1>2, <2>2, WritesStand
    <3> QED
      BY <1>1, <2>2, <3>1, PastFits
  <2> QED
    BY <2>1, <2>2
<1>4. InTurn' /\ LastWord' /\ NewestBought' /\ Cancelled' /\ Cancelling'
  BY <1>1, TurnDone
<1> QED
  BY <1>3, <1>4 DEF Ordered

LEMMA GetOrdered ==
  ASSUME Inv, Within, story.ordered, Ordered, NEW n \in Id, GetSubscription(n)
  PROVE  Ordered'
<1> DEFINE s == sent[n].on
<1>1. claim[n] = "retrieving" /\ Finishes(n) /\ UNCHANGED <<story, told>>
  BY DEF GetSubscription, Finishes, stripeVars
<1>2. Due(n)
  BY <1>1, OpenDue DEF Ordered, Open
<1>3. s \in Sub /\ stripe[s] \in Status /\ IsDb(db)
  BY <1>1, Retrieved DEF Inv
<1>4. PICK status \in Status :
        /\ db' = Last(CheckoutWrites(db, s, status))
        /\ status = stripe[s] \/ s \in blind'
  BY <1>3 DEF GetSubscription, Status
<1>5. db'.sub = s /\ db'.status = status /\ (status = "active" => db'.plan = PlanOf[s])
  <2> HIDE DEF s
  <2> QED
    BY <1>3, <1>4, CheckoutStands
<1>6. Fits(db)'
  BY <1>1, <1>4, <1>5, BoughtFits
<1>7. InTurn' /\ LastWord' /\ NewestBought' /\ Cancelled' /\ Cancelling'
  BY <1>1, <1>2, TurnDone
<1> QED
  BY <1>6, <1>7 DEF Ordered

\* A step that ends no event and moves neither Stripe nor what was bought.
LEMMA StillOrdered ==
  ASSUME Inv, Within, Ordered, UNCHANGED <<stripe, sent, story, told, blind>>, SameDone,
         InTurn', NEW x, x = db', Fits(x), Cancelled', Cancelling'
  PROVE  Ordered'
<1>1. Tells(<<>>) /\ Within' /\ 1..Len(<<>>) = {}
  BY TellsNothing DEF Within
<1>2. Fits(db)' /\ LastWord'
  BY <1>1, FitsMore, LastWordMore DEF Ordered
<1>3. NewestBought'
  BY DEF Ordered, NewestBought, Buys, Newest, Subscribed
<1> QED
  BY <1>2, <1>3 DEF Ordered

\* The wallet and the reconciliation.
LEMMA AsideOrdered ==
  ASSUME Inv, Within, Ordered, UNCHANGED <<stripe, sent, claim, prior, story, told, blind>>,
         NEW x, x = db', Stands(x, db)
  PROVE  Ordered'
<1>1. Fits(x)
  BY StandsFits DEF Ordered
<1>2. SameDone /\ InTurn'
  BY DEF Ordered, SameDone, InTurn
<1>3. Left' = Left
  BY DEF Left
<1>4. Cancelled' /\ Cancelling'
  BY <1>3 DEF Ordered, Cancelled, Cancelling, GaveUp, Live, Buys, Stands
<1> QED
  BY <1>1, <1>2, <1>4, StillOrdered

LEMMA StartOrdered ==
  ASSUME Inv, Within, story.ordered, Ordered, NEW n \in Id, StartCheckout(n)
  PROVE  Ordered'
<1>1. /\ Due(n) /\ claim[n] = "free" /\ prior' = [prior EXCEPT ![n] = db.sub]
      /\ claim' = [claim EXCEPT ![n] =
           IF IsCurrentSubscription(db, sent[n].on) THEN "retrieving" ELSE "cancelling"]
      /\ UNCHANGED <<stripe, sent, db, story, told, blind>>
  BY DeliveredDue DEF StartCheckout, Delivered, stripeVars
<1>2. /\ \A m \in Id : m # n => claim'[m] = claim[m] /\ claim[m] \notin Open
      /\ claim'[n] = IF IsCurrentSubscription(db, sent[n].on) THEN "retrieving" ELSE "cancelling"
      /\ prior'[n] = db.sub
  <2>1. ASSUME NEW m \in Id, m # n, claim[m] \in Open PROVE FALSE
    BY <1>1, <2>1, OpenDue, OneDue DEF Ordered
  <2> QED
    BY <1>1, <2>1 DEF Inv, Claims
<1>3. SameDone
  BY <1>1, <1>2 DEF SameDone
<1>4. InTurn'
  <2> SUFFICES ASSUME NEW m \in Id, claim'[m] # "free"
               PROVE  m <= Len(sent) /\ \A j \in 1..(m - 1) : claim'[j] = "done"
    BY <1>1 DEF InTurn
  <2>1. m <= Len(sent) /\ \A j \in 1..(m - 1) : claim[j] = "done"
    BY <1>1, <1>2 DEF Ordered, InTurn, Due, Left
  <2>2. \A j \in 1..(m - 1) : j \in Id
    BY BillingBounds DEF Id
  <2> QED
    BY <1>3, <2>1, <2>2 DEF SameDone
<1>5. Cancelled'
  <2> SUFFICES ASSUME NEW m \in Id, claim'[m] = "retrieving" PROVE GaveUp(m)'
    BY DEF Cancelled
  <2>1. m = n /\ IsCurrentSubscription(db, sent[n].on)
    BY <1>2 DEF Open
  <2> QED
    BY <1>1, <2>1 DEF GaveUp, IsCurrentSubscription
<1>6. Cancelling'
  BY <1>1, <1>2 DEF Cancelling, Open
<1>7. Fits(db) /\ db = db'
  BY <1>1 DEF Ordered
<1> QED
  BY <1>1, <1>3, <1>4, <1>5, <1>6, <1>7, StillOrdered

LEMMA CancelOrdered ==
  ASSUME Inv, Within, Within', Ordered, NEW n \in Id, CancelSubscription(n)
  PROVE  Ordered'
<1>1. /\ claim[n] = "cancelling" /\ prior[n] \in Sub /\ prior[n] = db.sub
      /\ UNCHANGED <<story, told, db, blind>>
      /\ \/ Turns(prior[n], "canceled", "deleted")
         \/ claim' = [claim EXCEPT ![n] = "free"] /\ UNCHANGED <<stripe, sent>>
      /\ \/ claim' = [claim EXCEPT ![n] = "retrieving"]
         \/ claim' = [claim EXCEPT ![n] = "free"]
  BY DEF CancelSubscription, Ordered, Cancelling, Inv, Claims
<1>2. PICK k : Tells(k) /\ \A i \in 1..Len(k) : ~Buys(k[i])
  <2>1. CASE Turns(prior[n], "canceled", "deleted")
    BY <1>1, <2>1, TurnsTells
  <2>2. CASE UNCHANGED <<stripe, sent>>
    <3>1. Tells(<<>>) /\ 1..Len(<<>>) = {}
      BY <2>2, TellsNothing
    <3> QED
      BY <3>1
  <2> QED
    BY <1>1, <2>1, <2>2
<1>3. /\ \A m \in Id : m # n => claim'[m] = claim[m] /\ claim[m] \notin Open
      /\ claim'[n] \in {"retrieving", "free"}
  <2>1. ASSUME NEW m \in Id, m # n, claim[m] \in Open PROVE FALSE
    BY <1>1, <2>1, OpenDue, OneDue DEF Ordered, Open
  <2> QED
    BY <1>1, <2>1 DEF Inv, Claims
<1>4. SameDone
  BY <1>1, <1>3 DEF SameDone
<1>5. InTurn'
  <2> SUFFICES ASSUME NEW m \in Id, claim'[m] # "free"
               PROVE  m <= Len(sent') /\ \A j \in 1..(m - 1) : claim'[j] = "done"
    BY DEF InTurn
  <2>1. m <= Len(sent) /\ \A j \in 1..(m - 1) : claim[j] = "done"
    BY <1>1, <1>3 DEF Ordered, InTurn
  <2>2. \A j \in 1..(m - 1) : j \in Id
    BY BillingBounds DEF Id
  <2>3. m <= Len(sent')
    BY <1>2, <2>1, BillingBounds, Longer DEF Id
  <2> QED
    BY <1>4, <2>1, <2>2, <2>3 DEF SameDone
<1>6. Cancelled'
  <2> SUFFICES ASSUME NEW m \in Id, claim'[m] = "retrieving" PROVE GaveUp(m)'
    BY DEF Cancelled
  <2>1. m = n
    BY <1>3 DEF Open
  <2>2. Turns(prior[n], "canceled", "deleted")
    BY <1>1, <2>1 DEF Inv, Claims
  <2>3. stripe'[prior[n]] \notin {"active", "past_due"}
    BY <1>1, <2>2 DEF Turns, Inv, Stripe
  <2> QED
    BY <1>1, <2>3 DEF GaveUp, Live
<1>7. Cancelling'
  BY <1>3 DEF Cancelling, Open
<1>8. Fits(db) /\ db = db'
  BY <1>1 DEF Ordered
<1>9. Fits(db)'
  BY <1>1, <1>2, <1>4, <1>8, FitsMore DEF Ordered
<1>10. LastWord' /\ NewestBought'
  BY <1>1, <1>2, LastWordMore, NewestSame DEF Ordered, Subscribed
<1> QED
  BY <1>5, <1>6, <1>7, <1>9, <1>10 DEF Ordered

LEMMA SpendOrdered ==
  ASSUME Inv, Within, Ordered, NEW r \in Run, Spend(r)
  PROVE  Ordered'
<1>1. db' = Entered(db, KeyOf("run", r, 0), -1)
      /\ UNCHANGED <<stripe, sent, claim, prior, story, told, blind>>
  BY DEF Spend, stripeVars
<1>2. Stands(db', db)
  BY <1>1, EnteredBeside DEF Inv, Beside
<1> QED
  BY <1>1, <1>2, AsideOrdered

LEMMA SyncOrdered ==
  ASSUME Inv, Within, Ordered, Sync \/ ListInvoices \/ ListCharges \/ ListRefunds \/ SyncFails
  PROVE  Ordered'
<1>1. UNCHANGED <<stripe, sent, claim, prior, story, told, blind>>
  BY DEF Sync, ListInvoices, ListCharges, ListRefunds, SyncFails, stripeVars
<1>2. Stands(db', db)
  <2>1. CASE Sync \/ ListCharges \/ SyncFails
    BY <2>1 DEF Sync, ListCharges, SyncFails, Stands
  <2>2. CASE ListInvoices
    <3>1. db' = [db EXCEPT !.revenue = db.revenue \cup
             {row \in {InvoiceRow(e) : e \in Invoiced} : \A r \in db.revenue : ~SameRevenue(r, row)}]
      BY <2>2 DEF ListInvoices
    <3> QED
      BY <3>1, Columns DEF Inv, Beside
  <2>3. CASE ListRefunds
    <3> DEFINE d1 == AfterRows(Len(refunds[sync.of]))
    <3>1. db' = AfterRest(d1)
      BY <2>3 DEF ListRefunds
    <3>2. Beside(d1, db) /\ IsDb(d1)
      BY AfterRowsBeside
    <3> HIDE DEF d1
    <3>3. Beside(AfterRest(d1), d1)
      BY <3>2, RecordedBeside, BesideSelf DEF AfterRest
    <3> QED
      BY <3>1, <3>2, <3>3 DEF Beside, Stands
  <2> QED
    BY <2>1, <2>2, <2>3
<1> QED
  BY <1>1, <1>2, AsideOrdered

LEMMA InterruptedFits ==
  ASSUME Inv, story.ordered, Ordered, NEW x \in Interrupted
  PROVE  Fits(x)
<1>0. Fits(db) /\ IsDb(db)
  BY DEF Ordered, Inv
<1>1. ASSUME NEW n \in Id, Delivered(n), x \in Range(Writes(n)) PROVE Fits(x)
  <2>1. Due(n) /\ n <= Len(sent) /\ n \in 1..Len(sent)
    BY <1>1, DeliveredDue DEF Delivered, Due, Left
  <2>2. CASE Own(sent[n])
    <3>1. Half(x, db, sent[n].on)
      BY <1>1, <2>1, <2>2, WritesStand
    <3>2. sent[n].on \in Sub /\ Bears(sent[n], sent[n].on) /\ ~Buys(sent[n])
          /\ IsCurrentSubscription(db, sent[n].on)
      BY <2>1, <2>2 DEF Own, Bears, Buys, Inv, Stripe, Truthful
    <3> QED
      BY <2>1, <3>1, <3>2, HalfFits
  <2>3. CASE ~Own(sent[n])
    BY <1>0, <1>1, <2>1, <2>3, WritesStand, StandsFits
  <2> QED
    BY <2>2, <2>3
<1>2. ASSUME NEW n \in Id, claim[n] = "retrieving",
             x \in Range(CheckoutWrites(db, sent[n].on, stripe[sent[n].on]))
      PROVE  Fits(x)
  <2>1. PICK s \in Sub : s = sent[n].on /\ stripe[s] \in Status
    BY <1>2, Retrieved
  <2>2. Half(x, db, s)
    BY <1>0, <1>2, <2>1, CheckoutStands
  <2>3. Due(n) /\ Bears(sent[n], s)
    BY <1>2, <2>1, OpenDue DEF Ordered, Open, Bears, Buys
  <2> QED
    BY <1>2, <2>2, <2>3, HalfFits
<1>3. ASSUME NEW k, x = AfterRows(k) PROVE Fits(x)
  BY <1>0, <1>3, AfterRowsBeside, StandsFits DEF Beside
<1>4. \/ x = db
      \/ x \in UNION {Range(Writes(n)) : n \in {m \in Id : Delivered(m)}}
      \/ x \in UNION {Range(CheckoutWrites(db, sent[n].on, stripe[sent[n].on])) :
                      n \in {m \in Id : claim[m] = "retrieving"}}
      \/ x \in IF sync.at = "refunds" THEN {AfterRows(k) : k \in DOMAIN refunds[sync.of]} ELSE {}
  BY DEF Interrupted
<1>5. CASE x \in UNION {Range(Writes(n)) : n \in {m \in Id : Delivered(m)}}
  <2>1. \E n \in {m \in Id : Delivered(m)} : x \in Range(Writes(n))
    BY <1>5, Zenon
  <2> QED
    BY <1>1, <2>1
<1>6. CASE x \in UNION {Range(CheckoutWrites(db, sent[n].on, stripe[sent[n].on])) :
                        n \in {m \in Id : claim[m] = "retrieving"}}
  <2>1. \E n \in {m \in Id : claim[m] = "retrieving"} :
          x \in Range(CheckoutWrites(db, sent[n].on, stripe[sent[n].on]))
    BY <1>6, Zenon
  <2> QED
    BY <1>2, <2>1
<1>7. CASE x \in IF sync.at = "refunds" THEN {AfterRows(k) : k \in DOMAIN refunds[sync.of]} ELSE {}
  <2>1. \E k \in DOMAIN refunds[sync.of] : x = AfterRows(k)
    BY <1>7, Zenon
  <2> QED
    BY <1>3, <2>1
<1> QED
  BY <1>0, <1>4, <1>5, <1>6, <1>7

LEMMA CrashOrdered ==
  ASSUME Inv, Within, story.ordered, Ordered, Crash
  PROVE  Ordered'
<1>1. /\ db' \in Interrupted
      /\ claim' = [n \in Id |-> IF claim[n] \in Open THEN "free" ELSE claim[n]]
      /\ UNCHANGED <<stripe, sent, story, told, blind>>
  BY DEF Crash, stripeVars
<1>2. Fits(db')
  BY <1>1, InterruptedFits
<1>3. \A n \in Id : claim'[n] = IF claim[n] \in Open THEN "free" ELSE claim[n]
  BY <1>1
<1>4. SameDone
  BY <1>3 DEF SameDone, Open
<1>5. \A n \in Id : claim'[n] \notin Open
  BY <1>3 DEF Open
<1>6. Cancelled' /\ Cancelling'
  BY <1>5 DEF Cancelled, Cancelling, Open
<1>7. InTurn'
  <2> SUFFICES ASSUME NEW m \in Id, claim'[m] # "free"
               PROVE  m <= Len(sent) /\ \A j \in 1..(m - 1) : claim'[j] = "done"
    BY <1>1 DEF InTurn
  <2>1. m <= Len(sent) /\ \A j \in 1..(m - 1) : claim[j] = "done"
    BY <1>3 DEF Ordered, InTurn
  <2>2. \A j \in 1..(m - 1) : j \in Id
    BY BillingBounds DEF Id
  <2> QED
    BY <1>4, <2>1, <2>2 DEF SameDone
<1> QED
  BY <1>1, <1>2, <1>4, <1>6, <1>7, StillOrdered

LEMMA OrderedNext ==
  ASSUME Inv, Within, Within', OrderedInv, [Next]_vars
  PROVE  OrderedInv'
<1>1. UNCHANGED story
  BY DEF Next, vars, stripeVars, Happens, Handle, Process, StartCheckout, CancelSubscription,
         GetSubscription, Spend, Sync, ListInvoices, ListCharges, ListRefunds, SyncFails, Crash
<1> SUFFICES ASSUME story.ordered PROVE Ordered'
  BY <1>1 DEF OrderedInv
<1>2. Ordered
  BY DEF OrderedInv
<1>3. CASE Happens
  BY <1>2, <1>3, HappensOrdered
<1>4. CASE \E n \in Id : Handle(n)
  BY <1>2, <1>4, ProcessOrdered, StartOrdered, CancelOrdered, GetOrdered DEF Handle
<1>5. CASE \E r \in Run : Spend(r)
  BY <1>2, <1>5, SpendOrdered
<1>6. CASE Sync \/ ListInvoices \/ ListCharges \/ ListRefunds \/ SyncFails
  BY <1>2, <1>6, SyncOrdered
<1>7. CASE Crash
  BY <1>2, <1>7, CrashOrdered
<1>8. CASE UNCHANGED vars
  <2>1. UNCHANGED <<stripe, sent, claim, prior, story, told, blind>> /\ Stands(db', db)
    BY <1>8 DEF vars, stripeVars, Stands
  <2> QED
    BY <1>2, <2>1, AsideOrdered
<1> QED
  BY <1>3, <1>4, <1>5, <1>6, <1>7, <1>8 DEF Next

\* Once every event arrived in order and was handled, the workspace has the
\* plan of the subscription it bought last as long as Stripe calls that active,
\* and pays for no other, however often checkouts and cancellations crashed on
\* the way.
THEOREM UpgradeSettles == Spec => []SettledTruth
<1>1. ASSUME Inv, Within, OrderedInv
      PROVE  SettledTruth
  <2> SUFFICES ASSUME story.ordered, AllHandled, Subscribed # {}, Newest \notin blind
               PROVE  /\ GetTenantPlan(db) = PlanFor(Newest, stripe[Newest])
                      /\ \A s \in Sub \ {Newest} : stripe[s] # "active"
    BY DEF SettledTruth
  <2>1. Ordered /\ Left = {}
    BY <1>1 DEF OrderedInv, AllHandled, Left
  <2>2. PICK n \in 1..Len(sent) : /\ Buys(sent[n]) /\ sent[n].on = Newest
                                  /\ \A m \in 1..Len(sent) : m > n => ~Buys(sent[m])
    BY <2>1 DEF Ordered, NewestBought
  <2>3. Newest \in Sub
    BY <1>1, <2>2, BoughtSub
  <2>4. db.sub = Newest
    BY <2>1, <2>2 DEF Ordered, Fits, LastBought, AllHandled
  <2>5. db.status = stripe[Newest]
    BY <2>1, <2>3, <2>4 DEF Ordered, Fits, RowKnown
  <2>6. db.status = "active" => db.plan = PlanOf[Newest]
    BY <2>1, <2>4 DEF Ordered, Fits, PlanKept
  <2>7. GetTenantPlan(db) = PlanFor(Newest, stripe[Newest])
    BY <2>3, <2>4, <2>5, <2>6, SubAssumption DEF GetTenantPlan, PlanFor, Unlocks
  <2>8. \A s \in Sub \ {Newest} : stripe[s] # "active"
    BY <2>1, <2>4 DEF Ordered, Fits, OneLive, Live
  <2> QED
    BY <2>7, <2>8
<1>2. Init => OrderedInv
  BY OrderedInit
<1>3. Inv /\ Within /\ Within' /\ OrderedInv /\ [Next]_vars => OrderedInv'
  BY OrderedNext
<1> QED
  BY <1>1, <1>2, <1>3, MoneyHolds, PTL DEF Spec
=============================================================================
