--------------------------- MODULE MCStripeWebhooks ---------------------------
(***************************************************************************)
(* Small instances of StripeWebhooks for TLC.                              *)
(***************************************************************************)
EXTENDS StripeWebhooks, TLC

CONSTANTS e1, e2, e3, r1, r2

NoList == << >>

\* A success, then events of the types ts with the lists of refunds ls.
Scenario(m, ts, ls) ==
  [metadata |-> m,
   type     |-> (e1 :> "succeeded") @@ ts,
   refunds  |-> [e \in Events |-> IF e \in DOMAIN ls THEN ls[e] ELSE NoList]]

\* A payment that is disputed and refunded, in two parts of which the one has
\* no status yet and the other has failed.
ThreeEvents ==
  {Scenario(TRUE, (e2 :> "refunded") @@ (e3 :> "disputed"),
            e2 :> ((r1 :> "null") @@ (r2 :> "failed")))}

\* With a second success, which a payment cannot have, there are two events at
\* most: a payment that fails first, one with a refund that waits for an action
\* of the customer, one without its metadata, whose charge comes without its
\* refunds, and one while the account of the partner is rejected.
TwoEvents ==
  {Scenario(m, (e2 :> t) @@ (e3 :> "succeeded"), ls) : <<m, t, ls>> \in
     {<<TRUE, "failed", NoList>>, <<TRUE, "refunded", e2 :> (r1 :> "requires_action")>>,
      <<FALSE, "refunded", NoList>>, <<TRUE, "rejected", NoList>>}}

PaymentScenarios == ThreeEvents \cup TwoEvents
==============================================================================
