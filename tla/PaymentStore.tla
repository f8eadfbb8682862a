---------------------------- MODULE PaymentStore ----------------------------
(***************************************************************************)
(* The PostgreSQL payment repository                                       *)
(* (packages/database/src/payment-repository.ts): the rows it owns and one *)
(* action per transaction.  Every transaction locks the order row it       *)
(* changes (and, where it also touches the intent, the intent row first),  *)
(* so a committed transaction is one atomic step; a transaction that       *)
(* throws is rolled back and is no step at all.                            *)
(*                                                                         *)
(* The callers are left unconstrained: any transaction may run at any time *)
(* with any input the validators accept.  What is proved of this module    *)
(* therefore holds whatever the payment module, the webhook route, the     *)
(* operator or the maintenance job do.  CheckoutService and RefundService  *)
(* say what they do.                                                       *)
(*                                                                         *)
(* A report intent has at most one order (orders_report_intent_unique) and *)
(* an order is never moved to another intent                               *)
(* (orders_price_snapshot_immutable), so the order, its report, its        *)
(* entitlement, its outbox row and its refund request are indexed by the   *)
(* intent they belong to.                                                  *)
(***************************************************************************)
EXTENDS PaymentDomain

VARIABLES
  intentStatus,   \* report_intents.status
  orderStatus,    \* orders.status
  providerOrder,  \* orders.provider_order_id
  paymentStatus,  \* payments.status, by provider payment id
  paymentOrder,   \* payments.order_id, by provider payment id
  events,         \* payment_events, by event id
  reports,        \* the orders with a report row
  entitlements,   \* entitlements: none, granted or revoked
  outbox,         \* the orders with a report.generation.requested.v1 row
  refundStatus,   \* refund_requests.status
  refundPayment,  \* refund_requests.provider_payment_id
  providerRefund  \* refund_requests.provider_refund_id

orderVars   == <<intentStatus, orderStatus, providerOrder>>
paymentVars == <<paymentStatus, paymentOrder, events>>
fulfilVars  == <<reports, entitlements, outbox>>
refundVars  == <<refundStatus, refundPayment, providerRefund>>
storeVars   == <<intentStatus, orderStatus, providerOrder,
                 paymentStatus, paymentOrder, events,
                 reports, entitlements, outbox,
                 refundStatus, refundPayment, providerRefund>>

StoreInit ==
  /\ intentStatus = [i \in Intents |-> "draft"]
  /\ orderStatus = [i \in Intents |-> "none"]
  /\ providerOrder = [i \in Intents |-> None]
  /\ paymentStatus = [p \in Payments |-> "none"]
  /\ paymentOrder = [p \in Payments |-> None]
  /\ events = [e \in EventIds |-> None]
  /\ reports = {}
  /\ entitlements = [i \in Intents |-> "none"]
  /\ outbox = {}
  /\ refundStatus = [i \in Intents |-> "none"]
  /\ refundPayment = [i \in Intents |-> None]
  /\ providerRefund = [i \in Intents |-> None]

-----------------------------------------------------------------------------
(* Predicates of the statements' WHERE clauses *)

HasOrder(i) == orderStatus[i] # "none"

\* The order has reached a paid state: capture and refund are final.
Settled(i) == orderStatus[i] \in {"paid", "refunded"}

\* status IN ('pending', 'ambiguous', 'failed'): what an UPDATE may still move.
Unresolved(i) == orderStatus[i] \in {"pending", "ambiguous", "failed"}

PaymentsOf(i) == {p \in Payments : paymentOrder[p] = i}

EventRow(m) == [payment |-> m.payment, order |-> m.order, status |-> m.status]

-----------------------------------------------------------------------------
(* prepareCheckout: the intent row is locked, then its order row.          *)
(* "live" is expires_at > now, with the now the caller sampled.            *)

CheckoutAvailable(i) == intentStatus[i] \in {"complete", "checkout_created", "converted"}

CreateOrder(i, live) ==
  /\ intentStatus[i] = "complete"
  /\ ~HasOrder(i)
  /\ live
  /\ intentStatus' = [intentStatus EXCEPT ![i] = "checkout_created"]
  /\ orderStatus' = [orderStatus EXCEPT ![i] = "pending"]
  /\ UNCHANGED <<providerOrder, paymentVars, fulfilVars, refundVars>>

ExpireOrder(i, live) ==
  /\ CheckoutAvailable(i)
  /\ Payable(orderStatus[i])
  /\ ~live
  /\ orderStatus' = [orderStatus EXCEPT ![i] = "expired"]
  /\ UNCHANGED <<intentStatus, providerOrder, paymentVars, fulfilVars, refundVars>>

\* The existing order is returned as it is.
KeepOrder(i, live) ==
  /\ CheckoutAvailable(i)
  /\ HasOrder(i)
  /\ live \/ ~Payable(orderStatus[i])
  /\ UNCHANGED storeVars

PrepareCheckout(i, live) == CreateOrder(i, live) \/ ExpireOrder(i, live) \/ KeepOrder(i, live)

-----------------------------------------------------------------------------
(* adoptProviderOrder, markOrderAmbiguous, confirmUnattemptedOrder,        *)
(* confirmFailedOrder                                                      *)

\* A different remote order is PAYMENT_PROVIDER_ORDER_CONFLICT, and one another
\* order holds violates orders_provider_order_unique: both roll back.
AdoptProviderOrder(i, po) ==
  /\ HasOrder(i)
  /\ providerOrder[i] \in {None, po}
  /\ \A j \in Intents \ {i} : providerOrder[j] # po
  /\ providerOrder' = [providerOrder EXCEPT ![i] = po]
  /\ UNCHANGED <<intentStatus, orderStatus, paymentVars, fulfilVars, refundVars>>

\* Mutant: the UPDATE without its status guard.
MarkOrderAmbiguous_Unguarded(i) ==
  /\ HasOrder(i)
  /\ orderStatus' = [orderStatus EXCEPT ![i] = "ambiguous"]
  /\ UNCHANGED <<intentStatus, providerOrder, paymentVars, fulfilVars, refundVars>>

MarkOrderAmbiguous(i) ==
  /\ HasOrder(i)
  /\ orderStatus' = [orderStatus EXCEPT ![i] = IF Unresolved(i) THEN "ambiguous" ELSE @]
  /\ UNCHANGED <<intentStatus, providerOrder, paymentVars, fulfilVars, refundVars>>

\* The row is updated only when no payment row contradicts it and the intent lives.
UnattemptedConfirmed(i, live) ==
  /\ Unresolved(i)
  /\ PaymentsOf(i) = {}
  /\ live

ConfirmUnattemptedOrder(i, po, live) ==
  /\ providerOrder[i] = po
  /\ orderStatus' = [orderStatus EXCEPT ![i] =
                       IF UnattemptedConfirmed(i, live) THEN "pending" ELSE @]
  /\ UNCHANGED <<intentStatus, providerOrder, paymentVars, fulfilVars, refundVars>>

\* Mutant: without the NOT EXISTS on live payment rows.
FailureConfirmed_AnyFailure(i) ==
  /\ Unresolved(i)
  /\ \E p \in PaymentsOf(i) : paymentStatus[p] = "failed"

FailureConfirmed(i) ==
  /\ Unresolved(i)
  /\ \E p \in PaymentsOf(i) : paymentStatus[p] = "failed"
  /\ \A p \in PaymentsOf(i) : paymentStatus[p] \notin {"authorized", "captured", "refunded"}

ConfirmFailedOrder(i, po) ==
  /\ providerOrder[i] = po
  /\ orderStatus' = [orderStatus EXCEPT ![i] = IF FailureConfirmed(i) THEN "failed" ELSE @]
  /\ UNCHANGED <<intentStatus, providerOrder, paymentVars, fulfilVars, refundVars>>

-----------------------------------------------------------------------------
(* recordProviderEvent: the one transaction that settles an order.         *)

\* Mutant: a reused event id is not compared with the row it has.
EventAccepted_IdReused(e, m, i) ==
  /\ providerOrder[i] = m.order
  /\ m.exact
  /\ paymentOrder[m.payment] \in {None, i}

\* The checks before any payment row is written; a failed one throws and rolls
\* the event row back with everything else.
EventAccepted(e, m, i) ==
  /\ providerOrder[i] = m.order                   \* PAYMENT_PROVIDER_ORDER_NOT_FOUND
  /\ events[e] \in {None, EventRow(m)}            \* PAYMENT_EVENT_CONFLICT
  /\ m.exact                                      \* PAYMENT_PROVIDER_MISMATCH
  /\ paymentOrder[m.payment] \in {None, i}        \* PAYMENT_ID_CONFLICT

\* The event row and the payment row.
RecordPayment(e, m, i) ==
  /\ events' = [events EXCEPT ![e] = EventRow(m)]
  /\ paymentOrder' = [paymentOrder EXCEPT ![m.payment] = i]
  /\ paymentStatus' = [paymentStatus EXCEPT ![m.payment] = Raise(@, m.status)]

\* Mutant: the report is never requested from the generator.
Fulfil_NoOutbox(i) ==
  /\ reports' = reports \cup {i}
  /\ entitlements' = [entitlements EXCEPT ![i] = IF @ = "none" THEN "granted" ELSE @]
  /\ orderStatus' = [orderStatus EXCEPT ![i] = "paid"]
  /\ intentStatus' = [intentStatus EXCEPT ![i] =
                        IF @ \in {"checkout_created", "complete"} THEN "converted" ELSE @]
  /\ UNCHANGED outbox

\* First exact capture: report, entitlement, outbox row, paid order, converted intent.
Fulfil(i) ==
  /\ reports' = reports \cup {i}
  /\ entitlements' = [entitlements EXCEPT ![i] = IF @ = "none" THEN "granted" ELSE @]
  /\ outbox' = outbox \cup {i}
  /\ orderStatus' = [orderStatus EXCEPT ![i] = "paid"]
  /\ intentStatus' = [intentStatus EXCEPT ![i] =
                        IF @ \in {"checkout_created", "complete"} THEN "converted" ELSE @]

\* A failed or authorized payment of an unsettled order: certainty is never raised
\* from 'ambiguous', and an authorized payment makes the order ambiguous.
Unsettle(i) ==
  /\ orderStatus' = [orderStatus EXCEPT ![i] =
       IF ~Unresolved(i) THEN @
       ELSE IF \/ @ = "ambiguous"
               \/ \E p \in Payments : paymentOrder'[p] = i /\ paymentStatus'[p] = "authorized"
            THEN "ambiguous" ELSE "failed"]
  /\ UNCHANGED <<intentStatus, fulfilVars>>

RecordProviderEvent(e, m, i) ==
  LET status == Raise(paymentStatus[m.payment], m.status)
  IN /\ EventAccepted(e, m, i)
     /\ RecordPayment(e, m, i)
     /\ \/ status = "captured" /\ ~Settled(i) /\ Fulfil(i)
        \/ status \in {"failed", "authorized"} /\ ~Settled(i) /\ Unsettle(i)
        \/ (Settled(i) \/ status = "refunded")
             /\ UNCHANGED <<intentStatus, orderStatus, fulfilVars>>
     /\ UNCHANGED <<providerOrder, refundVars>>

-----------------------------------------------------------------------------
(* requestRefund, approveRefund, recordRefundResult                        *)

\* One full-refund request per order, against the newest captured payment: the
\* created_at order of the payment rows is not modelled, any captured one may be it.
RequestRefund(i, p) ==
  /\ refundStatus[i] = "none"
  /\ orderStatus[i] = "paid"
  /\ paymentOrder[p] = i
  /\ paymentStatus[p] = "captured"
  /\ refundStatus' = [refundStatus EXCEPT ![i] = "requested"]
  /\ refundPayment' = [refundPayment EXCEPT ![i] = p]
  /\ UNCHANGED <<orderVars, paymentVars, fulfilVars, providerRefund>>

ApproveRefund(i) ==
  /\ refundStatus[i] = "requested"
  /\ refundStatus' = [refundStatus EXCEPT ![i] = "approved"]
  /\ UNCHANGED <<orderVars, paymentVars, fulfilVars, refundPayment, providerRefund>>

\* Mutant: a final request may still be updated.
RefundResultApplies_NotFinal(i, r, status) ==
  /\ providerRefund[i] \in {None, r}
  /\ \A j \in Intents \ {i} : providerRefund[j] # r
  /\ refundStatus[i] \notin {"none", "requested", status}

\* The early returns: nothing to change, or a status that is already final.
RefundResultApplies(i, r, status) ==
  /\ providerRefund[i] \in {None, r}                     \* PAYMENT_REFUND_CONFLICT
  /\ \A j \in Intents \ {i} : providerRefund[j] # r      \* refund_requests_provider_refund_unique
  /\ refundStatus[i] \in {"approved", "submitted"}
  /\ refundStatus[i] # status

\* Mutant: the entitlement survives the refund.
Revoke_KeepsAccess(i) ==
  /\ paymentStatus' = [p \in Payments |->
       IF p = refundPayment[i] /\ paymentOrder[p] = i THEN "refunded" ELSE paymentStatus[p]]
  /\ orderStatus' = [orderStatus EXCEPT ![i] = IF Settled(i) THEN "refunded" ELSE @]
  /\ UNCHANGED entitlements

\* The payment, the order and the entitlement that a completed refund changes.
Revoke(i) ==
  /\ paymentStatus' = [p \in Payments |->
       IF p = refundPayment[i] /\ paymentOrder[p] = i THEN "refunded" ELSE paymentStatus[p]]
  /\ orderStatus' = [orderStatus EXCEPT ![i] = IF Settled(i) THEN "refunded" ELSE @]
  /\ entitlements' = [entitlements EXCEPT ![i] = IF @ = "none" THEN @ ELSE "revoked"]

\* Mutant: a submitted refund revokes access already.
RecordRefundResult_RevokesEarly(i, r, status) ==
  /\ RefundResultApplies(i, r, status)
  /\ refundStatus' = [refundStatus EXCEPT ![i] = status]
  /\ providerRefund' = [providerRefund EXCEPT ![i] = r]
  /\ IF status # "failed" THEN Revoke(i)
     ELSE UNCHANGED <<paymentStatus, orderStatus, entitlements>>
  /\ UNCHANGED <<intentStatus, providerOrder, paymentOrder, events, reports, outbox,
                 refundPayment>>

RecordRefundResult(i, r, status) ==
  /\ RefundResultApplies(i, r, status)
  /\ refundStatus' = [refundStatus EXCEPT ![i] = status]
  /\ providerRefund' = [providerRefund EXCEPT ![i] = r]
  /\ IF status = "refunded" THEN Revoke(i)
     ELSE UNCHANGED <<paymentStatus, orderStatus, entitlements>>
  /\ UNCHANGED <<intentStatus, providerOrder, paymentOrder, events, reports, outbox,
                 refundPayment>>

-----------------------------------------------------------------------------
(* The intent transitions of the other repositories that race with these.  *)

\* report-intent-repository.ts complete(): the draft becomes a priced snapshot.
CompleteIntent(i) ==
  /\ intentStatus[i] = "draft"
  /\ intentStatus' = [intentStatus EXCEPT ![i] = "complete"]
  /\ UNCHANGED <<orderStatus, providerOrder, paymentVars, fulfilVars, refundVars>>

\* Mutant: the job expires whatever is due, ordered or not.
ExpireIntent_Ordered(i) ==
  /\ intentStatus[i] \in {"draft", "complete", "checkout_created"}
  /\ intentStatus' = [intentStatus EXCEPT ![i] = "expired"]
  /\ UNCHANGED <<orderStatus, providerOrder, paymentVars, fulfilVars, refundVars>>

\* report-intent-repository.ts expireDueDrafts(): due intents without an order.
ExpireIntent(i) ==
  /\ intentStatus[i] \in {"draft", "complete"}
  /\ ~HasOrder(i)
  /\ intentStatus' = [intentStatus EXCEPT ![i] = "expired"]
  /\ UNCHANGED <<orderStatus, providerOrder, paymentVars, fulfilVars, refundVars>>

-----------------------------------------------------------------------------
\* Everything but the refund transactions.
OrderStep ==
  \E i \in Intents :
    \/ CompleteIntent(i)
    \/ ExpireIntent(i)
    \/ MarkOrderAmbiguous(i)
    \/ \E live \in BOOLEAN : PrepareCheckout(i, live)
    \/ \E po \in ProviderOrders :
         \/ AdoptProviderOrder(i, po)
         \/ ConfirmFailedOrder(i, po)
         \/ \E live \in BOOLEAN : ConfirmUnattemptedOrder(i, po, live)
    \/ \E e \in EventIds, m \in ProviderEvents : RecordProviderEvent(e, m, i)

RefundStep ==
  \E i \in Intents :
    \/ \E p \in Payments : RequestRefund(i, p)
    \/ ApproveRefund(i)
    \/ \E r \in Refunds, status \in RefundResults : RecordRefundResult(i, r, status)

StoreNext == OrderStep \/ RefundStep

StoreSpec == StoreInit /\ [][StoreNext]_storeVars

-----------------------------------------------------------------------------
(* The abstract purchase these rows implement.                             *)

Charged == [i \in Intents |->
              {p \in PaymentsOf(i) : paymentStatus[p] \in {"captured", "refunded"}}]

Returned == [i \in Intents |-> IF refundStatus[i] = "refunded" THEN refundPayment[i] ELSE None]

Abstract == INSTANCE Purchase WITH
  charged <- Charged, access <- entitlements, requested <- outbox, returned <- Returned

\* Every transaction is one step of the abstract purchase or none: no caller, event
\* order or retry can charge without delivering, deliver twice, or take access away
\* without returning a charge.
ImplementsPurchase == Abstract!PurchaseSpec

-----------------------------------------------------------------------------
(* What must hold of the rows, whoever calls.                              *)

\* Type correctness of every row the repository reads back.
StoreTypeOK ==
  /\ intentStatus \in [Intents -> IntentStatuses]
  /\ orderStatus \in [Intents -> OrderStatuses]
  /\ providerOrder \in [Intents -> ProviderOrders \cup {None}]
  /\ paymentStatus \in [Payments -> PaymentStatuses]
  /\ paymentOrder \in [Payments -> Intents \cup {None}]
  /\ events \in [EventIds -> EventRows \cup {None}]
  /\ reports \subseteq Intents
  /\ entitlements \in [Intents -> {"none", "granted", "revoked"}]
  /\ outbox \subseteq Intents
  /\ refundStatus \in [Intents -> RefundStatuses]
  /\ refundPayment \in [Intents -> Payments \cup {None}]
  /\ providerRefund \in [Intents -> Refunds \cup {None}]

\* Money in, product out: an order holds a captured or refunded payment exactly
\* when it is settled, and then, and only then, its report, entitlement and outbox
\* row exist.  No sequence of events, duplicates or retries leaves a capture
\* unfulfilled or fulfils an order without one (payment-repository.ts recordProviderEvent).
CaptureIsFulfilled ==
  \A i \in Intents :
    /\ Settled(i) <=> \E p \in PaymentsOf(i) : paymentStatus[p] \in {"captured", "refunded"}
    /\ Settled(i) <=> i \in reports
    /\ Settled(i) <=> i \in outbox
    /\ Settled(i) <=> entitlements[i] # "none"

\* A payable order has no live payment evidence: a 'pending' order has no payment
\* row and a 'failed' one only failed rows, at least one.  This is what lets
\* createCheckout hand the same checkout out again.
PayableWithoutEvidence ==
  \A i \in Intents :
    /\ orderStatus[i] \in {"none", "pending"} => PaymentsOf(i) = {}
    /\ orderStatus[i] = "failed" =>
         /\ PaymentsOf(i) # {}
         /\ \A p \in PaymentsOf(i) : paymentStatus[p] = "failed"

\* No accepted event is lost: the payment row of every payment_events row stands at
\* or above the status the event reported, and belongs to the order the event named.
\* Hence swallowing a redelivery can never drop a capture.
AcceptedEventsApplied ==
  \A e \in EventIds :
    events[e] # None =>
      /\ Rank(paymentStatus[events[e].payment]) >= Rank(events[e].status)
      /\ \E i \in Intents : /\ paymentOrder[events[e].payment] = i
                            /\ providerOrder[i] = events[e].order

\* Access follows the refund: the entitlement is revoked, the order refunded and the
\* payment refunded exactly when the refund request completed, and never while it is
\* only requested, approved, submitted or failed.
RefundRevokesAccess ==
  \A i \in Intents :
    /\ refundStatus[i] = "refunded" <=> orderStatus[i] = "refunded"
    /\ refundStatus[i] = "refunded" <=> entitlements[i] = "revoked"
    /\ \A p \in PaymentsOf(i) :
         paymentStatus[p] = "refunded" <=> refundStatus[i] = "refunded" /\ refundPayment[i] = p

\* A refund request names a payment the provider captured for that very order, and
\* has a remote refund exactly when the provider was asked.
RefundNamesCapture ==
  \A i \in Intents :
    /\ refundStatus[i] = "none" <=> refundPayment[i] = None
    /\ refundStatus[i] # "none" =>
         /\ paymentOrder[refundPayment[i]] = i
         /\ paymentStatus[refundPayment[i]] \in {"captured", "refunded"}
    /\ providerRefund[i] # None <=> refundStatus[i] \in {"submitted", "refunded", "failed"}

\* An intent with an order is out of reach of the expiry job, and it is converted
\* exactly when the order is settled (expireDueDrafts races prepareCheckout).
OrderedIntentKept ==
  \A i \in Intents :
    /\ HasOrder(i) <=> intentStatus[i] \in {"checkout_created", "converted"}
    /\ intentStatus[i] = "converted" <=> Settled(i)

\* One remote order serves one local order, and payments attach only to an order
\* whose remote order is known.
RemoteOrdersDisjoint ==
  /\ \A i, j \in Intents : i # j /\ providerOrder[i] # None => providerOrder[i] # providerOrder[j]
  /\ \A i \in Intents : providerOrder[i] # None => HasOrder(i)
  /\ \A p \in Payments :
       IF paymentOrder[p] = None THEN paymentStatus[p] = "none"
       ELSE paymentStatus[p] # "none" /\ providerOrder[paymentOrder[p]] # None

\* Capture and refund finality are monotonic (docs/payments.md): a settled order
\* only moves from paid to refunded, an expired one only to paid (a late capture).
FinalityKept ==
  \A i \in Intents :
    /\ orderStatus[i] = "paid" => orderStatus'[i] \in {"paid", "refunded"}
    /\ orderStatus[i] = "refunded" => orderStatus'[i] = "refunded"
    /\ orderStatus[i] = "expired" => orderStatus'[i] \in {"expired", "paid"}
    /\ orderStatus[i] # "none" => orderStatus'[i] # "none"

FinalityMonotonic == [][FinalityKept]_storeVars

\* Payment rows only rise in rank, never change order, and event rows are never
\* rewritten, whatever the order of delivery.
EvidenceKept ==
  /\ \A p \in Payments :
       /\ Rank(paymentStatus'[p]) >= Rank(paymentStatus[p])
       /\ paymentOrder[p] # None => paymentOrder'[p] = paymentOrder[p]
  /\ \A e \in EventIds : events[e] # None => events'[e] = events[e]

EvidenceMonotonic == [][EvidenceKept]_storeVars
=============================================================================
