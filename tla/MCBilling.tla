------------------------------ MODULE MCBilling ------------------------------
(***************************************************************************)
(* Two subscriptions, one top-up and what can happen to them at Stripe.    *)
(***************************************************************************)
EXTENDS Billing

CONSTANTS oldSub, newSub, topUp1

Plans == (oldSub :> "review" @@ newSub :> "fleet")
Prices == (topUp1 :> 2)

Do(do, on, cents) == [do |-> do, on |-> on, cents |-> cents]
Stories(acts, ordered, reconciled) == [acts |-> acts, ordered |-> ordered, reconciled |-> reconciled]

\* An upgrade whose old subscription lapses and recovers meanwhile, and a new
\* one after a cancellation: in order.
Upgrade == <<Do("subscribe", oldSub, 0), Do("lapse", oldSub, 0), Do("recover", oldSub, 0), Do("subscribe", newSub, 0)>>
Return == <<Do("subscribe", oldSub, 0), Do("cancel", oldSub, 0), Do("subscribe", newSub, 0), Do("lapse", newSub, 0)>>

\* Two checkouts at once, their events in any order.
TwoTabs == <<Do("subscribe", oldSub, 0), Do("subscribe", newSub, 0)>>

\* A subscription's invoice, a top-up, refunds of both and a dispute.
Money == <<Do("topUp", topUp1, 0), Do("invoice", oldSub, 2), Do("refund", topUp1, 1), Do("refund", topUp1, 1)>>
Regret == <<Do("subscribe", oldSub, 0), Do("topUp", topUp1, 0), Do("dispute", topUp1, 2), Do("refund", oldSub, 1), Do("refund", topUp1, 2)>>

AllStories ==
  {Stories(Upgrade, TRUE, FALSE), Stories(Return, TRUE, FALSE),
   Stories(TwoTabs, FALSE, FALSE), Stories(Money, FALSE, TRUE), Stories(Regret, FALSE, TRUE)}
=============================================================================
