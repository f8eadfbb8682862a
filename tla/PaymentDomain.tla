---------------------------- MODULE PaymentDomain ---------------------------
(***************************************************************************)
(* The vocabulary the payment modules share: identifiers, the status enums *)
(* of packages/database/src/schema.ts and the order of payment statuses.   *)
(***************************************************************************)
EXTENDS Naturals

CONSTANTS Intents,         \* report intents
          ProviderOrders,  \* remote order identifiers (order_...)
          Payments,        \* remote payment identifiers (pay_...)
          Refunds,         \* remote refund identifiers (rfnd_...)
          EventIds,        \* payment_events primary keys
          None             \* SQL NULL, or a row that does not exist

ASSUME NoneIsNoRow ==
  None \notin Intents \cup ProviderOrders \cup Payments \cup Refunds

\* Intent statuses some code writes; 'preview_ready' and 'abandoned' are in the
\* enum of the schema and nothing sets them.
IntentStatuses == {"draft", "complete", "checkout_created", "converted", "expired"}

OrderStatuses == {"none", "pending", "ambiguous", "failed", "paid", "expired", "refunded"}

\* 'none' is the absence of a row.  'created' is in the enum and no event carries it.
PaymentStatuses == {"none", "authorized", "failed", "captured", "refunded"}

\* The statuses a provider event can carry (validateProviderEvent).
EventStatuses == {"authorized", "failed", "captured"}

RefundStatuses == {"none", "requested", "approved", "submitted", "refunded", "failed"}

RefundResults == {"submitted", "refunded", "failed"}

\* A provider event.  "exact": amount, currency and receipt all match the order.
ProviderEvents == [payment : Payments, order : ProviderOrders,
                   status : EventStatuses, exact : BOOLEAN]

\* What payment_events keeps of an event to recognise a redelivery.
EventRows == [payment : Payments, order : ProviderOrders, status : EventStatuses]

\* The rank of a payment status in recordProviderEvent.
Rank(status) ==
  [none |-> 0, authorized |-> 1, failed |-> 2, captured |-> 3, refunded |-> 4][status]

\* Mutant: the last event wins.
Raise_LastWins(current, incoming) == incoming

\* The status a payment row gets from an event: the higher of the two ranks.
Raise(current, incoming) ==
  IF Rank(incoming) > Rank(current) THEN incoming ELSE current

\* Checkout may be offered again (the application returns a checkout).
Payable(status) == status \in {"pending", "failed"}
=============================================================================
