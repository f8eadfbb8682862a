------------------------- MODULE PaymentStoreProofs -------------------------
(***************************************************************************)
(* What PaymentStore guarantees for any number of intents, payments,       *)
(* events and refunds: the invariants TLC checks on two of each, as        *)
(* theorems; what a transaction may never do; and that PaymentStore        *)
(* implements Purchase.  The invariants support one another, so they are   *)
(* proved inductive together (StoreInv); OrderStep and RefundStep are      *)
(* taken transaction by transaction.                                       *)
(***************************************************************************)
EXTENDS PaymentStore, TLAPS

\* The inductive invariant.
StoreInv ==
  /\ StoreTypeOK
  /\ CaptureIsFulfilled
  /\ PayableWithoutEvidence
  /\ AcceptedEventsApplied
  /\ RefundRevokesAccess
  /\ RefundNamesCapture
  /\ OrderedIntentKept
  /\ RemoteOrdersDisjoint

-----------------------------------------------------------------------------
(* Payment statuses *)

\* What raising a payment's status to an event's gives: a status that is no lower than
\* either, that is no longer "none", and that is the event's or the old one.
LEMMA RaiseFacts ==
  ASSUME NEW s \in PaymentStatuses, NEW t \in EventStatuses
  PROVE  /\ Raise(s, t) \in PaymentStatuses \ {"none"}
         /\ Rank(Raise(s, t)) >= Rank(s)
         /\ Rank(Raise(s, t)) >= Rank(t)
         /\ Raise(s, t) = "refunded" <=> s = "refunded"
         /\ Raise(s, t) \in {"captured", "refunded"} <=>
              s \in {"captured", "refunded"} \/ t = "captured"
         /\ Raise(s, t) \in {s, t}
BY DEF PaymentStatuses, EventStatuses, Raise, Rank

LEMMA RankType ==
  ASSUME NEW s \in PaymentStatuses
  PROVE  Rank(s) \in 0..4
BY DEF PaymentStatuses, Rank

-----------------------------------------------------------------------------
(* The initial rows *)

LEMMA InitInv == StoreInit => StoreInv
<1> SUFFICES ASSUME StoreInit PROVE StoreInv
  OBVIOUS
<1>1. StoreTypeOK
  BY DEF StoreInit, StoreTypeOK, IntentStatuses, OrderStatuses, PaymentStatuses, RefundStatuses
<1>2. \A i \in Intents : PaymentsOf(i) = {}
  BY NoneIsNoRow DEF StoreInit, PaymentsOf
<1>3. CaptureIsFulfilled /\ PayableWithoutEvidence /\ AcceptedEventsApplied
  BY <1>2 DEF StoreInit, CaptureIsFulfilled, PayableWithoutEvidence, AcceptedEventsApplied, Settled
<1>4. RefundRevokesAccess /\ RefundNamesCapture
  BY <1>2 DEF StoreInit, RefundRevokesAccess, RefundNamesCapture
<1>5. OrderedIntentKept /\ RemoteOrdersDisjoint
  BY DEF StoreInit, OrderedIntentKept, RemoteOrdersDisjoint, HasOrder, Settled
<1> QED
  BY <1>1, <1>3, <1>4, <1>5 DEF StoreInv

-----------------------------------------------------------------------------
(* Transactions that move the status of an unsettled order and nothing else *)

\* The shape of ExpireOrder, MarkOrderAmbiguous, ConfirmUnattemptedOrder and
\* ConfirmFailedOrder: a payable target needs the payment rows that justify it.
LEMMA MoveInv ==
  ASSUME StoreInv,
         NEW i \in Intents,
         NEW target \in {"pending", "ambiguous", "failed", "expired"},
         Unresolved(i),
         target = "pending" => PaymentsOf(i) = {},
         target = "failed" => /\ PaymentsOf(i) # {}
                              /\ \A p \in PaymentsOf(i) : paymentStatus[p] = "failed",
         orderStatus' = [orderStatus EXCEPT ![i] = target],
         UNCHANGED <<intentStatus, providerOrder, paymentVars, fulfilVars, refundVars>>
  PROVE  StoreInv'
<1> USE DEF paymentVars, fulfilVars, refundVars
<1>1. StoreTypeOK'
  BY DEF StoreInv, StoreTypeOK, OrderStatuses
<1> DEFINE SameGroup(j) == /\ Settled(j)' <=> Settled(j)
                           /\ HasOrder(j)' <=> HasOrder(j)
                           /\ (orderStatus'[j] = "refunded") <=> (orderStatus[j] = "refunded")
                           /\ PaymentsOf(j)' = PaymentsOf(j)
<1>2. \A j \in Intents : SameGroup(j)
  BY DEF StoreInv, StoreTypeOK, Settled, HasOrder, PaymentsOf, Unresolved
<1>3. CaptureIsFulfilled'
  BY <1>2 DEF StoreInv, CaptureIsFulfilled
<1>4. PayableWithoutEvidence'
  BY <1>2 DEF StoreInv, StoreTypeOK, PayableWithoutEvidence
<1>5. AcceptedEventsApplied'
  BY DEF StoreInv, AcceptedEventsApplied
<1>6. RefundRevokesAccess' /\ RefundNamesCapture'
  BY <1>2 DEF StoreInv, RefundRevokesAccess, RefundNamesCapture
<1>7. OrderedIntentKept' /\ RemoteOrdersDisjoint'
  BY <1>2 DEF StoreInv, OrderedIntentKept, RemoteOrdersDisjoint
<1> QED
  BY <1>1, <1>3, <1>4, <1>5, <1>6, <1>7 DEF StoreInv

LEMMA StutterInv == StoreInv /\ UNCHANGED storeVars => StoreInv'
BY DEF storeVars, StoreInv, StoreTypeOK, CaptureIsFulfilled, PayableWithoutEvidence,
       AcceptedEventsApplied, RefundRevokesAccess, RefundNamesCapture, OrderedIntentKept,
       RemoteOrdersDisjoint, Settled, HasOrder, PaymentsOf

LEMMA MarkOrderAmbiguousInv ==
  ASSUME StoreInv, NEW i \in Intents, MarkOrderAmbiguous(i)
  PROVE  StoreInv'
<1>1. CASE Unresolved(i)
  BY <1>1, MoveInv DEF MarkOrderAmbiguous
<1>2. CASE ~Unresolved(i)
  <2>1. UNCHANGED storeVars
    BY <1>2 DEF MarkOrderAmbiguous, storeVars, paymentVars, fulfilVars, refundVars,
                StoreInv, StoreTypeOK
  <2> QED
    BY <2>1, StutterInv
<1> QED
  BY <1>1, <1>2

LEMMA ConfirmUnattemptedOrderInv ==
  ASSUME StoreInv, NEW i \in Intents, NEW po \in ProviderOrders, NEW live \in BOOLEAN,
         ConfirmUnattemptedOrder(i, po, live)
  PROVE  StoreInv'
<1>1. CASE UnattemptedConfirmed(i, live)
  BY <1>1, MoveInv DEF ConfirmUnattemptedOrder, UnattemptedConfirmed
<1>2. CASE ~UnattemptedConfirmed(i, live)
  <2>1. UNCHANGED storeVars
    BY <1>2 DEF ConfirmUnattemptedOrder, storeVars, paymentVars, fulfilVars, refundVars,
                StoreInv, StoreTypeOK
  <2> QED
    BY <2>1, StutterInv
<1> QED
  BY <1>1, <1>2

\* Where payment rows exist they hold one of four statuses, so an order whose rows are
\* neither authorized, captured nor refunded has only failed ones.
LEMMA OnlyFailed ==
  ASSUME StoreInv, NEW i \in Intents, FailureConfirmed(i)
  PROVE  PaymentsOf(i) # {} /\ \A p \in PaymentsOf(i) : paymentStatus[p] = "failed"
BY NoneIsNoRow DEF FailureConfirmed, StoreInv, StoreTypeOK, PaymentStatuses, RemoteOrdersDisjoint,
       PaymentsOf

LEMMA ConfirmFailedOrderInv ==
  ASSUME StoreInv, NEW i \in Intents, NEW po \in ProviderOrders, ConfirmFailedOrder(i, po)
  PROVE  StoreInv'
<1>1. CASE FailureConfirmed(i)
  BY <1>1, OnlyFailed, MoveInv DEF ConfirmFailedOrder, FailureConfirmed
<1>2. CASE ~FailureConfirmed(i)
  <2>1. UNCHANGED storeVars
    BY <1>2 DEF ConfirmFailedOrder, storeVars, paymentVars, fulfilVars, refundVars,
                StoreInv, StoreTypeOK
  <2> QED
    BY <2>1, StutterInv
<1> QED
  BY <1>1, <1>2

-----------------------------------------------------------------------------
(* Transactions that create the order or touch the intent *)

LEMMA CreateOrderInv ==
  ASSUME StoreInv, NEW i \in Intents, NEW live \in BOOLEAN, CreateOrder(i, live)
  PROVE  StoreInv'
<1> USE DEF CreateOrder, paymentVars, fulfilVars, refundVars, HasOrder, Settled, PaymentsOf
<1>1. StoreTypeOK'
  BY DEF StoreInv, StoreTypeOK, OrderStatuses, IntentStatuses
<1>2. CaptureIsFulfilled' /\ PayableWithoutEvidence' /\ AcceptedEventsApplied'
  BY DEF StoreInv, StoreTypeOK, CaptureIsFulfilled, PayableWithoutEvidence, AcceptedEventsApplied
<1>3. RefundRevokesAccess' /\ RefundNamesCapture'
  BY DEF StoreInv, StoreTypeOK, RefundRevokesAccess, RefundNamesCapture
<1>4. OrderedIntentKept' /\ RemoteOrdersDisjoint'
  BY DEF StoreInv, StoreTypeOK, OrderedIntentKept, RemoteOrdersDisjoint
<1> QED
  BY <1>1, <1>2, <1>3, <1>4 DEF StoreInv

LEMMA PrepareCheckoutInv ==
  ASSUME StoreInv, NEW i \in Intents, NEW live \in BOOLEAN, PrepareCheckout(i, live)
  PROVE  StoreInv'
<1>1. CASE CreateOrder(i, live)
  BY <1>1, CreateOrderInv
<1>2. CASE ExpireOrder(i, live)
  BY <1>2, MoveInv DEF ExpireOrder, Payable, Unresolved
<1>3. CASE KeepOrder(i, live)
  BY <1>3, StutterInv DEF KeepOrder
<1> QED
  BY <1>1, <1>2, <1>3 DEF PrepareCheckout

\* An intent without an order may change its status: nothing else knows of it.
LEMMA IntentInv ==
  ASSUME StoreInv, NEW i \in Intents, CompleteIntent(i) \/ ExpireIntent(i)
  PROVE  StoreInv'
<1> USE DEF paymentVars, fulfilVars, refundVars, HasOrder, Settled, PaymentsOf
<1>1. /\ ~HasOrder(i)
      /\ \E status \in {"complete", "expired"} :
           intentStatus' = [intentStatus EXCEPT ![i] = status]
      /\ UNCHANGED <<orderStatus, providerOrder, paymentVars, fulfilVars, refundVars>>
  BY DEF CompleteIntent, ExpireIntent, StoreInv, OrderedIntentKept
<1>2. StoreTypeOK'
  BY <1>1 DEF StoreInv, StoreTypeOK, IntentStatuses
<1>3. CaptureIsFulfilled' /\ PayableWithoutEvidence' /\ AcceptedEventsApplied'
  BY <1>1 DEF StoreInv, CaptureIsFulfilled, PayableWithoutEvidence, AcceptedEventsApplied
<1>4. RefundRevokesAccess' /\ RefundNamesCapture' /\ RemoteOrdersDisjoint'
  BY <1>1 DEF StoreInv, RefundRevokesAccess, RefundNamesCapture, RemoteOrdersDisjoint
<1>5. OrderedIntentKept'
  BY <1>1 DEF StoreInv, StoreTypeOK, OrderedIntentKept
<1> QED
  BY <1>2, <1>3, <1>4, <1>5 DEF StoreInv

LEMMA AdoptProviderOrderInv ==
  ASSUME StoreInv, NEW i \in Intents, NEW po \in ProviderOrders, AdoptProviderOrder(i, po)
  PROVE  StoreInv'
<1> USE DEF AdoptProviderOrder, paymentVars, fulfilVars, refundVars, HasOrder, Settled, PaymentsOf
<1>1. StoreTypeOK'
  BY DEF StoreInv, StoreTypeOK
<1>2. CaptureIsFulfilled' /\ PayableWithoutEvidence'
  BY DEF StoreInv, CaptureIsFulfilled, PayableWithoutEvidence
<1>3. AcceptedEventsApplied'
  BY NoneIsNoRow DEF StoreInv, StoreTypeOK, AcceptedEventsApplied, EventRows
<1>4. RefundRevokesAccess' /\ RefundNamesCapture' /\ OrderedIntentKept'
  BY DEF StoreInv, RefundRevokesAccess, RefundNamesCapture, OrderedIntentKept
<1>5. RemoteOrdersDisjoint'
  BY NoneIsNoRow DEF StoreInv, StoreTypeOK, RemoteOrdersDisjoint
<1> QED
  BY <1>1, <1>2, <1>3, <1>4, <1>5 DEF StoreInv

-----------------------------------------------------------------------------
(* recordProviderEvent *)

\* What every accepted event does to the payment rows, whatever becomes of the order.
LEMMA EventFacts ==
  ASSUME StoreInv, NEW e \in EventIds, NEW m \in ProviderEvents, NEW i \in Intents,
         EventAccepted(e, m, i), RecordPayment(e, m, i),
         UNCHANGED <<providerOrder, refundVars>>
  PROVE  LET status == Raise(paymentStatus[m.payment], m.status)
         IN /\ HasOrder(i)
            /\ m.payment \in Payments
            /\ status \in PaymentStatuses \ {"none"}
            /\ status = "refunded" <=> paymentStatus[m.payment] = "refunded"
            /\ paymentStatus' = [paymentStatus EXCEPT ![m.payment] = status]
            /\ PaymentsOf(i)' = PaymentsOf(i) \cup {m.payment}
            /\ \A j \in Intents \ {i} : PaymentsOf(j)' = PaymentsOf(j) /\ m.payment \notin PaymentsOf(j)
            /\ m.payment \notin PaymentsOf(i) => paymentStatus[m.payment] = "none"
            /\ AcceptedEventsApplied'
            /\ (\A j \in Intents : HasOrder(j) => HasOrder(j)') => RemoteOrdersDisjoint'
            /\ RefundNamesCapture'
<1> DEFINE p == m.payment
           status == Raise(paymentStatus[p], m.status)
<1>1. /\ p \in Payments /\ m.order \in ProviderOrders /\ m.status \in EventStatuses
      /\ EventRow(m) = [payment |-> p, order |-> m.order, status |-> m.status]
  BY DEF ProviderEvents, EventRow
<1>2. /\ paymentStatus[p] \in PaymentStatuses
      /\ paymentStatus' = [paymentStatus EXCEPT ![p] = status]
      /\ paymentOrder' = [paymentOrder EXCEPT ![p] = i]
      /\ events' = [events EXCEPT ![e] = EventRow(m)]
      /\ paymentOrder[p] \in {None, i}
  BY <1>1 DEF StoreInv, StoreTypeOK, RecordPayment, EventAccepted
<1>3. /\ status \in PaymentStatuses \ {"none"}
      /\ Rank(status) >= Rank(paymentStatus[p]) /\ Rank(status) >= Rank(m.status)
      /\ status = "refunded" <=> paymentStatus[p] = "refunded"
      /\ paymentStatus[p] \in {"captured", "refunded"} => status \in {"captured", "refunded"}
  BY <1>1, <1>2, RaiseFacts
<1>4. HasOrder(i) /\ providerOrder[i] = m.order /\ m.order # None
  BY <1>1, NoneIsNoRow DEF StoreInv, RemoteOrdersDisjoint, EventAccepted
<1>5. PaymentsOf(i)' = PaymentsOf(i) \cup {p}
  BY <1>1, <1>2 DEF PaymentsOf, StoreInv, StoreTypeOK
<1>6. \A j \in Intents \ {i} : PaymentsOf(j)' = PaymentsOf(j) /\ p \notin PaymentsOf(j)
  BY <1>1, <1>2, NoneIsNoRow DEF PaymentsOf, StoreInv, StoreTypeOK
<1>7. p \notin PaymentsOf(i) => paymentStatus[p] = "none"
  BY <1>1, <1>2 DEF PaymentsOf, StoreInv, RemoteOrdersDisjoint
<1>8. AcceptedEventsApplied'
  <2> SUFFICES ASSUME NEW f \in EventIds, events'[f] # None
               PROVE  /\ Rank(paymentStatus'[events'[f].payment]) >= Rank(events'[f].status)
                      /\ \E j \in Intents : /\ paymentOrder'[events'[f].payment] = j
                                            /\ providerOrder'[j] = events'[f].order
    BY DEF AcceptedEventsApplied
  <2>1. CASE f = e
    BY <1>1, <1>2, <1>3, <1>4, <2>1 DEF StoreInv, StoreTypeOK
  <2>2. CASE f # e
    <3>1. events'[f] = events[f] /\ events[f] \in EventRows
      BY <1>2, <2>2 DEF StoreInv, StoreTypeOK
    <3> DEFINE q == events[f].payment
    <3>2. q \in Payments /\ events[f].status \in PaymentStatuses
      BY <3>1 DEF EventRows, EventStatuses, PaymentStatuses
    <3>3. /\ Rank(paymentStatus[q]) >= Rank(events[f].status)
          /\ paymentOrder[q] \in Intents /\ providerOrder[paymentOrder[q]] = events[f].order
      BY <3>1 DEF StoreInv, AcceptedEventsApplied
    <3>4. paymentStatus[q] \in PaymentStatuses
      BY <3>2 DEF StoreInv, StoreTypeOK
    <3>5. Rank(paymentStatus'[q]) >= Rank(events[f].status)
      BY <1>1, <1>2, <1>3, <3>2, <3>3, <3>4, RankType DEF StoreInv, StoreTypeOK
    <3>6. paymentOrder'[q] = paymentOrder[q]
      BY <1>2, <3>2, <3>3, NoneIsNoRow DEF StoreInv, StoreTypeOK
    <3> QED
      BY <3>1, <3>3, <3>5, <3>6
  <2> QED
    BY <2>1, <2>2
<1>9. ASSUME \A j \in Intents : HasOrder(j) => HasOrder(j)'
      PROVE  RemoteOrdersDisjoint'
  BY <1>1, <1>2, <1>3, <1>4, <1>9, NoneIsNoRow
  DEF StoreInv, StoreTypeOK, RemoteOrdersDisjoint
<1>10. RefundNamesCapture'
  BY <1>1, <1>2, <1>3, NoneIsNoRow
  DEF StoreInv, StoreTypeOK, RefundNamesCapture, refundVars
<1> QED
  BY <1>1, <1>2, <1>3, <1>4, <1>5, <1>6, <1>7, <1>8, <1>9, <1>10

\* A capture of an unsettled order.
LEMMA FulfilInv ==
  ASSUME StoreInv, NEW e \in EventIds, NEW m \in ProviderEvents, NEW i \in Intents,
         EventAccepted(e, m, i), RecordPayment(e, m, i),
         UNCHANGED <<providerOrder, refundVars>>,
         Raise(paymentStatus[m.payment], m.status) = "captured",
         ~Settled(i), Fulfil(i)
  PROVE  StoreInv'
<1> DEFINE p == m.payment
<1> USE DEF Fulfil
<1>1. /\ HasOrder(i) /\ p \in Payments
      /\ paymentStatus' = [paymentStatus EXCEPT ![p] = "captured"]
      /\ paymentStatus[p] # "refunded"
      /\ PaymentsOf(i)' = PaymentsOf(i) \cup {p}
      /\ \A j \in Intents \ {i} : PaymentsOf(j)' = PaymentsOf(j) /\ p \notin PaymentsOf(j)
      /\ AcceptedEventsApplied' /\ RefundNamesCapture'
      /\ (\A j \in Intents : HasOrder(j) => HasOrder(j)') => RemoteOrdersDisjoint'
  BY EventFacts
<1>2. /\ \A j \in Intents \ {i} : orderStatus'[j] = orderStatus[j]
      /\ orderStatus'[i] = "paid" /\ Settled(i)'
      /\ \A j \in Intents \ {i} : Settled(j)' <=> Settled(j)
      /\ \A j \in Intents : HasOrder(j)' <=> HasOrder(j)
  BY <1>1 DEF StoreInv, StoreTypeOK, HasOrder, Settled
<1>3. /\ \A q \in Payments \ {p} : paymentStatus'[q] = paymentStatus[q]
      /\ paymentStatus'[p] = "captured"
  BY <1>1 DEF StoreInv, StoreTypeOK
<1>4. intentStatus[i] = "checkout_created" /\ entitlements[i] = "none"
  BY <1>1 DEF StoreInv, OrderedIntentKept, CaptureIsFulfilled
<1>5. StoreTypeOK'
  <2>1. events' \in [EventIds -> EventRows \cup {None}]
    BY DEF StoreInv, StoreTypeOK, RecordPayment, EventRow, EventRows, ProviderEvents
  <2> QED
    BY <1>1, <1>4, <2>1
    DEF StoreInv, StoreTypeOK, RecordPayment, refundVars, OrderStatuses, IntentStatuses,
        PaymentStatuses
<1>6. CaptureIsFulfilled'
  BY <1>1, <1>2, <1>3, <1>4 DEF StoreInv, StoreTypeOK, CaptureIsFulfilled, PaymentsOf
<1>7. PayableWithoutEvidence'
  BY <1>1, <1>2, <1>3 DEF StoreInv, PayableWithoutEvidence, PaymentsOf
<1>8. RefundRevokesAccess'
  BY <1>1, <1>2, <1>3, <1>4
  DEF StoreInv, StoreTypeOK, RefundRevokesAccess, PaymentsOf, refundVars, Settled
<1>9. OrderedIntentKept'
  BY <1>1, <1>2, <1>4 DEF StoreInv, StoreTypeOK, OrderedIntentKept
<1> QED
  BY <1>1, <1>2, <1>5, <1>6, <1>7, <1>8, <1>9 DEF StoreInv

\* A failed or authorized payment of an unsettled order.
LEMMA UnsettleInv ==
  ASSUME StoreInv, NEW e \in EventIds, NEW m \in ProviderEvents, NEW i \in Intents,
         EventAccepted(e, m, i), RecordPayment(e, m, i),
         UNCHANGED <<providerOrder, refundVars>>,
         Raise(paymentStatus[m.payment], m.status) \in {"failed", "authorized"},
         ~Settled(i), Unsettle(i)
  PROVE  StoreInv'
<1> DEFINE p == m.payment
           status == Raise(paymentStatus[p], m.status)
<1>1. /\ HasOrder(i) /\ p \in Payments
      /\ paymentStatus' = [paymentStatus EXCEPT ![p] = status]
      /\ paymentStatus[p] # "refunded"
      /\ PaymentsOf(i)' = PaymentsOf(i) \cup {p}
      /\ \A j \in Intents \ {i} : PaymentsOf(j)' = PaymentsOf(j) /\ p \notin PaymentsOf(j)
      /\ AcceptedEventsApplied' /\ RefundNamesCapture'
      /\ (\A j \in Intents : HasOrder(j) => HasOrder(j)') => RemoteOrdersDisjoint'
  BY EventFacts
<1>2. /\ \A q \in Payments \ {p} : paymentStatus'[q] = paymentStatus[q]
      /\ paymentStatus'[p] = status
  BY <1>1 DEF StoreInv, StoreTypeOK
<1>3. /\ orderStatus' = [orderStatus EXCEPT ![i] = orderStatus'[i]]
      /\ orderStatus'[i] \in {"ambiguous", "failed", "expired"}
      /\ orderStatus'[i] = "failed" => /\ orderStatus[i] \in {"pending", "failed"}
                                       /\ \A q \in PaymentsOf(i)' : paymentStatus'[q] # "authorized"
  BY <1>1
  DEF Unsettle, Unresolved, Settled, HasOrder, StoreInv, StoreTypeOK, OrderStatuses, PaymentsOf
<1>4. /\ \A j \in Intents \ {i} : orderStatus'[j] = orderStatus[j]
      /\ \A j \in Intents : /\ Settled(j)' <=> Settled(j)
                            /\ HasOrder(j)' <=> HasOrder(j)
  BY <1>1, <1>3 DEF StoreInv, StoreTypeOK, HasOrder, Settled
<1>5. StoreTypeOK'
  <2>1. events' \in [EventIds -> EventRows \cup {None}]
    BY DEF StoreInv, StoreTypeOK, RecordPayment, EventRow, EventRows, ProviderEvents
  <2> QED
    BY <1>1, <1>3, <2>1
    DEF StoreInv, StoreTypeOK, RecordPayment, refundVars, fulfilVars, OrderStatuses,
        PaymentStatuses, Unsettle
<1>6. CaptureIsFulfilled'
  BY <1>1, <1>2, <1>4
  DEF StoreInv, StoreTypeOK, CaptureIsFulfilled, PaymentsOf, Unsettle, fulfilVars
<1>7. PayableWithoutEvidence'
  <2>1. ASSUME orderStatus'[i] = "failed" PROVE \A q \in PaymentsOf(i)' : paymentStatus'[q] = "failed"
    BY <1>1, <1>2, <1>3, <2>1 DEF StoreInv, PayableWithoutEvidence
  <2> QED
    BY <1>1, <1>2, <1>3, <1>4, <2>1 DEF StoreInv, PayableWithoutEvidence, PaymentsOf
<1>8. RefundRevokesAccess'
  BY <1>1, <1>2, <1>3, <1>4
  DEF StoreInv, StoreTypeOK, RefundRevokesAccess, PaymentsOf, refundVars, fulfilVars, Settled, Unsettle
<1>9. OrderedIntentKept'
  BY <1>4 DEF StoreInv, OrderedIntentKept, Unsettle
<1> QED
  BY <1>1, <1>4, <1>5, <1>6, <1>7, <1>8, <1>9 DEF StoreInv

\* Any event of an order that is settled already: only its payment row may rise.
LEMMA SettledEventInv ==
  ASSUME StoreInv, NEW e \in EventIds, NEW m \in ProviderEvents, NEW i \in Intents,
         EventAccepted(e, m, i), RecordPayment(e, m, i),
         UNCHANGED <<providerOrder, refundVars>>,
         Settled(i) \/ Raise(paymentStatus[m.payment], m.status) = "refunded",
         UNCHANGED <<intentStatus, orderStatus, fulfilVars>>
  PROVE  StoreInv'
<1> DEFINE p == m.payment
           status == Raise(paymentStatus[p], m.status)
<1>1. /\ HasOrder(i) /\ p \in Payments
      /\ status \in PaymentStatuses \ {"none"}
      /\ status = "refunded" <=> paymentStatus[p] = "refunded"
      /\ paymentStatus' = [paymentStatus EXCEPT ![p] = status]
      /\ PaymentsOf(i)' = PaymentsOf(i) \cup {p}
      /\ \A j \in Intents \ {i} : PaymentsOf(j)' = PaymentsOf(j) /\ p \notin PaymentsOf(j)
      /\ p \notin PaymentsOf(i) => paymentStatus[p] = "none"
      /\ AcceptedEventsApplied' /\ RefundNamesCapture'
      /\ (\A j \in Intents : HasOrder(j) => HasOrder(j)') => RemoteOrdersDisjoint'
  BY EventFacts
<1>2. /\ \A q \in Payments \ {p} : paymentStatus'[q] = paymentStatus[q]
      /\ paymentStatus'[p] = status
  BY <1>1 DEF StoreInv, StoreTypeOK
<1>3. /\ \A j \in Intents : /\ Settled(j)' <=> Settled(j)
                            /\ HasOrder(j)' <=> HasOrder(j)
      /\ Settled(i)
  <2>1. CASE status = "refunded"
    <3>1. p \in PaymentsOf(i) /\ paymentStatus[p] = "refunded"
      BY <1>1, <2>1
    <3> QED
      BY <3>1 DEF Settled, HasOrder, StoreInv, CaptureIsFulfilled
  <2>2. CASE status # "refunded"
    BY <2>2 DEF Settled, HasOrder
  <2> QED
    BY <2>1, <2>2
<1>4. StoreTypeOK'
  <2>1. events' \in [EventIds -> EventRows \cup {None}]
    BY DEF StoreInv, StoreTypeOK, RecordPayment, EventRow, EventRows, ProviderEvents
  <2> QED
    BY <1>1, <2>1 DEF StoreInv, StoreTypeOK, RecordPayment, refundVars, fulfilVars
<1>5. paymentStatus[p] \in {"captured", "refunded"} => status \in {"captured", "refunded"}
  BY <1>1, RaiseFacts DEF StoreInv, StoreTypeOK, ProviderEvents
<1>6. CaptureIsFulfilled'
  BY <1>1, <1>2, <1>3, <1>5 DEF StoreInv, CaptureIsFulfilled, PaymentsOf, fulfilVars
<1>7. PayableWithoutEvidence'
  BY <1>1, <1>2, <1>3 DEF StoreInv, PayableWithoutEvidence, PaymentsOf, Settled
<1>8. RefundRevokesAccess'
  BY <1>1, <1>2, <1>3, NoneIsNoRow
  DEF StoreInv, StoreTypeOK, RefundRevokesAccess, RefundNamesCapture, PaymentsOf, refundVars, fulfilVars
<1>9. OrderedIntentKept'
  BY <1>3 DEF StoreInv, OrderedIntentKept
<1> QED
  BY <1>1, <1>3, <1>4, <1>6, <1>7, <1>8, <1>9 DEF StoreInv

LEMMA RecordProviderEventInv ==
  ASSUME StoreInv, NEW e \in EventIds, NEW m \in ProviderEvents, NEW i \in Intents,
         RecordProviderEvent(e, m, i)
  PROVE  StoreInv'
BY FulfilInv, UnsettleInv, SettledEventInv DEF RecordProviderEvent

-----------------------------------------------------------------------------
(* The refund transactions *)

\* RequestRefund and ApproveRefund: the request advances, nothing else moves.
LEMMA RequestInv ==
  ASSUME StoreInv, NEW i \in Intents,
         (\E p \in Payments : RequestRefund(i, p)) \/ ApproveRefund(i)
  PROVE  StoreInv'
<1> USE DEF orderVars, paymentVars, fulfilVars, HasOrder, Settled, PaymentsOf
<1>1. PICK p \in Payments :
        /\ refundStatus[i] \in {"none", "requested"}
        /\ paymentOrder[p] = i
        /\ paymentStatus[p] \in {"captured", "refunded"}
        /\ refundStatus' = [refundStatus EXCEPT ![i] = IF @ = "none" THEN "requested" ELSE "approved"]
        /\ refundPayment' = [refundPayment EXCEPT ![i] = p]
        /\ UNCHANGED <<orderVars, paymentVars, fulfilVars, providerRefund>>
  <2>1. ASSUME NEW p \in Payments, RequestRefund(i, p)
        PROVE  /\ refundStatus[i] = "none" /\ paymentOrder[p] = i /\ paymentStatus[p] = "captured"
               /\ refundStatus' = [refundStatus EXCEPT ![i] = IF @ = "none" THEN "requested" ELSE "approved"]
               /\ refundPayment' = [refundPayment EXCEPT ![i] = p]
               /\ UNCHANGED <<orderVars, paymentVars, fulfilVars, providerRefund>>
    BY <2>1 DEF RequestRefund, StoreInv, StoreTypeOK
  <2>2. ASSUME ApproveRefund(i)
        PROVE  /\ refundPayment[i] \in Payments
               /\ refundStatus[i] = "requested"
               /\ paymentOrder[refundPayment[i]] = i
               /\ paymentStatus[refundPayment[i]] \in {"captured", "refunded"}
               /\ refundStatus' = [refundStatus EXCEPT ![i] = IF @ = "none" THEN "requested" ELSE "approved"]
               /\ refundPayment' = [refundPayment EXCEPT ![i] = refundPayment[i]]
               /\ UNCHANGED <<orderVars, paymentVars, fulfilVars, providerRefund>>
    BY <2>2 DEF ApproveRefund, StoreInv, StoreTypeOK, RefundNamesCapture
  <2> QED
    BY <2>1, <2>2
<1>2. StoreTypeOK'
  BY <1>1 DEF StoreInv, StoreTypeOK, RefundStatuses
<1>3. CaptureIsFulfilled' /\ PayableWithoutEvidence' /\ AcceptedEventsApplied'
  BY <1>1 DEF StoreInv, CaptureIsFulfilled, PayableWithoutEvidence, AcceptedEventsApplied
<1>4. OrderedIntentKept' /\ RemoteOrdersDisjoint'
  BY <1>1 DEF StoreInv, OrderedIntentKept, RemoteOrdersDisjoint
<1>5. RefundRevokesAccess'
  BY <1>1 DEF StoreInv, StoreTypeOK, RefundRevokesAccess
<1>6. RefundNamesCapture'
  BY <1>1, NoneIsNoRow DEF StoreInv, StoreTypeOK, RefundNamesCapture
<1> QED
  BY <1>2, <1>3, <1>4, <1>5, <1>6 DEF StoreInv

\* A result that does not complete the refund.
LEMMA PendingResultInv ==
  ASSUME StoreInv, NEW i \in Intents, NEW r \in Refunds, NEW status \in {"submitted", "failed"},
         RecordRefundResult(i, r, status)
  PROVE  StoreInv'
<1> USE DEF HasOrder, Settled, PaymentsOf
<1>1. /\ refundStatus[i] \in {"approved", "submitted"}
      /\ refundStatus' = [refundStatus EXCEPT ![i] = status]
      /\ providerRefund' = [providerRefund EXCEPT ![i] = r]
      /\ UNCHANGED <<orderVars, paymentVars, fulfilVars, refundPayment>>
  BY DEF RecordRefundResult, RefundResultApplies, orderVars, paymentVars, fulfilVars
<1> USE DEF orderVars, paymentVars, fulfilVars
<1>2. StoreTypeOK'
  BY <1>1 DEF StoreInv, StoreTypeOK, RefundStatuses
<1>3. CaptureIsFulfilled' /\ PayableWithoutEvidence' /\ AcceptedEventsApplied'
  BY <1>1 DEF StoreInv, CaptureIsFulfilled, PayableWithoutEvidence, AcceptedEventsApplied
<1>4. OrderedIntentKept' /\ RemoteOrdersDisjoint'
  BY <1>1 DEF StoreInv, OrderedIntentKept, RemoteOrdersDisjoint
<1>5. RefundRevokesAccess'
  BY <1>1 DEF StoreInv, StoreTypeOK, RefundRevokesAccess
<1>6. RefundNamesCapture'
  BY <1>1, NoneIsNoRow DEF StoreInv, StoreTypeOK, RefundNamesCapture
<1> QED
  BY <1>2, <1>3, <1>4, <1>5, <1>6 DEF StoreInv

\* The refund the provider processed: its payment was captured for this order, so the
\* order was paid, and request, payment, order and entitlement turn together.
LEMMA RevokeInv ==
  ASSUME StoreInv, NEW i \in Intents, NEW r \in Refunds, RecordRefundResult(i, r, "refunded")
  PROVE  StoreInv'
<1> DEFINE p == refundPayment[i]
<1>1. /\ refundStatus[i] \in {"approved", "submitted"}
      /\ refundStatus' = [refundStatus EXCEPT ![i] = "refunded"]
      /\ providerRefund' = [providerRefund EXCEPT ![i] = r]
      /\ Revoke(i)
      /\ UNCHANGED <<intentStatus, providerOrder, paymentOrder, events, reports, outbox, refundPayment>>
  BY DEF RecordRefundResult, RefundResultApplies
<1>2. /\ p \in Payments /\ paymentOrder[p] = i /\ p \in PaymentsOf(i)
      /\ paymentStatus[p] = "captured"
      /\ Settled(i) /\ orderStatus[i] = "paid" /\ entitlements[i] = "granted"
  <2>1. p \in Payments /\ paymentOrder[p] = i /\ paymentStatus[p] \in {"captured", "refunded"}
    BY <1>1 DEF StoreInv, StoreTypeOK, RefundNamesCapture
  <2>2. p \in PaymentsOf(i)
    BY <2>1 DEF PaymentsOf
  <2>3. Settled(i) /\ entitlements[i] # "none"
    BY <2>1, <2>2 DEF StoreInv, CaptureIsFulfilled
  <2>4. orderStatus[i] # "refunded" /\ entitlements[i] # "revoked" /\ paymentStatus[p] # "refunded"
    BY <1>1, <2>2 DEF StoreInv, RefundRevokesAccess
  <2> QED
    BY <2>1, <2>2, <2>3, <2>4 DEF StoreInv, StoreTypeOK, Settled
<1>3. /\ paymentStatus' = [paymentStatus EXCEPT ![p] = "refunded"]
      /\ orderStatus' = [orderStatus EXCEPT ![i] = "refunded"]
      /\ entitlements' = [entitlements EXCEPT ![i] = "revoked"]
  BY <1>1, <1>2 DEF Revoke, StoreInv, StoreTypeOK
<1>4. /\ \A j \in Intents : /\ PaymentsOf(j)' = PaymentsOf(j)
                            /\ Settled(j)' <=> Settled(j)
                            /\ HasOrder(j)' <=> HasOrder(j)
      /\ \A j \in Intents \ {i} : p \notin PaymentsOf(j)
  BY <1>1, <1>2, <1>3 DEF PaymentsOf, Settled, HasOrder, StoreInv, StoreTypeOK
<1>5. StoreTypeOK'
  BY <1>1, <1>3 DEF StoreInv, StoreTypeOK, RefundStatuses, OrderStatuses, PaymentStatuses
<1>6. CaptureIsFulfilled'
  BY <1>1, <1>2, <1>3, <1>4 DEF StoreInv, StoreTypeOK, CaptureIsFulfilled, PaymentsOf
<1>7. PayableWithoutEvidence'
  BY <1>1, <1>2, <1>3, <1>4 DEF StoreInv, StoreTypeOK, PayableWithoutEvidence, PaymentsOf
<1>8. AcceptedEventsApplied'
  <2> SUFFICES ASSUME NEW f \in EventIds, events[f] # None
               PROVE  /\ Rank(paymentStatus'[events[f].payment]) >= Rank(events[f].status)
                      /\ \E j \in Intents : /\ paymentOrder[events[f].payment] = j
                                            /\ providerOrder[j] = events[f].order
    BY <1>1 DEF AcceptedEventsApplied
  <2>1. events[f].payment \in Payments /\ events[f].status \in {"authorized", "failed", "captured"}
    BY DEF StoreInv, StoreTypeOK, EventRows, EventStatuses
  <2> QED
    BY <1>3, <2>1 DEF StoreInv, StoreTypeOK, AcceptedEventsApplied, Rank
<1>9. RefundRevokesAccess'
  BY <1>1, <1>2, <1>3, <1>4 DEF StoreInv, StoreTypeOK, RefundRevokesAccess, PaymentsOf
<1>10. RefundNamesCapture'
  BY <1>1, <1>2, <1>3, NoneIsNoRow DEF StoreInv, StoreTypeOK, RefundNamesCapture
<1>11. OrderedIntentKept'
  BY <1>1, <1>4 DEF StoreInv, OrderedIntentKept
<1>12. RemoteOrdersDisjoint'
  BY <1>1, <1>2, <1>3, <1>4 DEF StoreInv, StoreTypeOK, RemoteOrdersDisjoint
<1> QED
  BY <1>5, <1>6, <1>7, <1>8, <1>9, <1>10, <1>11, <1>12 DEF StoreInv

-----------------------------------------------------------------------------
(* The invariants *)

LEMMA NextInv == StoreInv /\ [StoreNext]_storeVars => StoreInv'
<1> SUFFICES ASSUME StoreInv, [StoreNext]_storeVars PROVE StoreInv'
  OBVIOUS
<1>1. CASE OrderStep
  BY <1>1, IntentInv, MarkOrderAmbiguousInv, PrepareCheckoutInv, AdoptProviderOrderInv,
     ConfirmFailedOrderInv, ConfirmUnattemptedOrderInv, RecordProviderEventInv
  DEF OrderStep
<1>2. CASE RefundStep
  <2>1. ASSUME NEW i \in Intents, NEW r \in Refunds, NEW status \in RefundResults,
               RecordRefundResult(i, r, status)
        PROVE  StoreInv'
    BY <2>1, PendingResultInv, RevokeInv DEF RefundResults
  <2> QED
    BY <1>2, <2>1, RequestInv DEF RefundStep
<1>3. CASE UNCHANGED storeVars
  BY <1>3, StutterInv
<1> QED
  BY <1>1, <1>2, <1>3 DEF StoreNext

\* Every row of every reachable database state is what the repository expects to read,
\* and the rows of payments, orders, refunds and intents agree (StoreInv), for any number
\* of intents, payments, events and callers.
THEOREM StoreInvariant == StoreSpec => []StoreInv
<1>1. StoreInit => StoreInv
  BY InitInv
<1>2. StoreInv /\ [StoreNext]_storeVars => StoreInv'
  BY NextInv
<1> QED
  BY <1>1, <1>2, PTL DEF StoreSpec

\* Type correctness of the rows.
THEOREM StoreTypeCorrect == StoreSpec => []StoreTypeOK
BY StoreInvariant, PTL DEF StoreInv

\* A captured payment and the report, entitlement and outbox row it buys exist together
\* (recordProviderEvent).
THEOREM CapturesAreFulfilled == StoreSpec => []CaptureIsFulfilled
BY StoreInvariant, PTL DEF StoreInv

\* An order that may be paid again has no live payment row (createCheckout, reconcile).
THEOREM PayableOrdersHaveNoEvidence == StoreSpec => []PayableWithoutEvidence
BY StoreInvariant, PTL DEF StoreInv

\* An accepted event is never lost (recordProviderEvent).
THEOREM NoAcceptedEventIsLost == StoreSpec => []AcceptedEventsApplied
BY StoreInvariant, PTL DEF StoreInv

\* Access ends exactly with a completed refund (recordRefundResult).
THEOREM AccessFollowsRefund == StoreSpec => []RefundRevokesAccess
BY StoreInvariant, PTL DEF StoreInv

\* The expiry job never takes an ordered intent (expireDueDrafts).
THEOREM OrderedIntentsAreKept == StoreSpec => []OrderedIntentKept
BY StoreInvariant, PTL DEF StoreInv

-----------------------------------------------------------------------------
(* Steps never undo *)

LEMMA FinalityStep == StoreInv /\ StoreNext => FinalityKept
<1> SUFFICES ASSUME StoreInv, StoreNext PROVE FinalityKept
  OBVIOUS
<1> USE DEF FinalityKept, Unresolved, Settled
<1>1. orderStatus \in [Intents -> OrderStatuses]
  BY DEF StoreInv, StoreTypeOK
<1>2. CASE RefundStep
  BY <1>1, <1>2
  DEF RefundStep, RequestRefund, ApproveRefund, RecordRefundResult, Revoke, orderVars
<1>3. CASE OrderStep
  <2>1. ASSUME NEW i \in Intents,
               CompleteIntent(i) \/ ExpireIntent(i) \/ MarkOrderAmbiguous(i)
        PROVE  FinalityKept
    BY <1>1, <2>1 DEF CompleteIntent, ExpireIntent, MarkOrderAmbiguous
  <2>2. ASSUME NEW i \in Intents, NEW live \in BOOLEAN, PrepareCheckout(i, live)
        PROVE  FinalityKept
    BY <1>1, <2>2
    DEF PrepareCheckout, CreateOrder, ExpireOrder, KeepOrder, Payable, HasOrder, storeVars
  <2>3. ASSUME NEW i \in Intents, NEW po \in ProviderOrders,
               AdoptProviderOrder(i, po) \/ ConfirmFailedOrder(i, po)
        PROVE  FinalityKept
    BY <1>1, <2>3 DEF AdoptProviderOrder, ConfirmFailedOrder, FailureConfirmed
  <2>4. ASSUME NEW i \in Intents, NEW po \in ProviderOrders, NEW live \in BOOLEAN,
               ConfirmUnattemptedOrder(i, po, live)
        PROVE  FinalityKept
    BY <1>1, <2>4 DEF ConfirmUnattemptedOrder, UnattemptedConfirmed
  <2>5. ASSUME NEW i \in Intents, NEW e \in EventIds, NEW m \in ProviderEvents,
               RecordProviderEvent(e, m, i)
        PROVE  FinalityKept
    BY <1>1, <2>5 DEF RecordProviderEvent, Fulfil, Unsettle
  <2> QED
    BY <1>3, <2>1, <2>2, <2>3, <2>4, <2>5 DEF OrderStep
<1> QED
  BY <1>2, <1>3 DEF StoreNext

\* Capture and refund are final, whatever events, retries and operators do afterwards.
THEOREM FinalityIsMonotonic == StoreSpec => FinalityMonotonic
<1>1. StoreInv /\ [StoreNext]_storeVars => [FinalityKept]_storeVars
  BY FinalityStep
<1> QED
  BY <1>1, StoreInvariant, PTL DEF StoreSpec, FinalityMonotonic

LEMMA EvidenceStep == StoreInv /\ StoreNext => EvidenceKept
<1> SUFFICES ASSUME StoreInv, StoreNext PROVE EvidenceKept
  OBVIOUS
<1>1. /\ paymentStatus \in [Payments -> PaymentStatuses]
      /\ paymentOrder \in [Payments -> Intents \cup {None}]
      /\ events \in [EventIds -> EventRows \cup {None}]
  BY DEF StoreInv, StoreTypeOK
<1>2. \A p \in Payments : Rank(paymentStatus[p]) \in 0..4
  BY <1>1, RankType
<1>3. ASSUME UNCHANGED paymentVars PROVE EvidenceKept
  BY <1>2, <1>3 DEF EvidenceKept, paymentVars
<1>4. CASE RefundStep
  <2>1. ASSUME NEW i \in Intents, NEW r \in Refunds, NEW status \in RefundResults,
               RecordRefundResult(i, r, status)
        PROVE  EvidenceKept
    BY <1>1, <1>2, <2>1 DEF RecordRefundResult, Revoke, EvidenceKept, Rank
  <2> QED
    BY <1>3, <1>4, <2>1 DEF RefundStep, RequestRefund, ApproveRefund
<1>5. CASE OrderStep
  <2>1. ASSUME NEW i \in Intents, NEW e \in EventIds, NEW m \in ProviderEvents,
               RecordProviderEvent(e, m, i)
        PROVE  EvidenceKept
    <3>1. m.payment \in Payments /\ m.status \in EventStatuses
      BY DEF ProviderEvents
    <3>2. /\ paymentStatus' = [paymentStatus EXCEPT ![m.payment] = Raise(@, m.status)]
          /\ paymentOrder' = [paymentOrder EXCEPT ![m.payment] = i]
          /\ events' = [events EXCEPT ![e] = EventRow(m)]
          /\ paymentOrder[m.payment] \in {None, i} /\ events[e] \in {None, EventRow(m)}
      BY <2>1 DEF RecordProviderEvent, RecordPayment, EventAccepted
    <3>3. Rank(Raise(paymentStatus[m.payment], m.status)) >= Rank(paymentStatus[m.payment])
      BY <1>1, <3>1, RaiseFacts
    <3> QED
      BY <1>1, <1>2, <3>1, <3>2, <3>3 DEF EvidenceKept
  <2>2. ASSUME NEW i \in Intents, NEW live \in BOOLEAN, PrepareCheckout(i, live)
        PROVE  UNCHANGED paymentVars
    BY <2>2 DEF PrepareCheckout, CreateOrder, ExpireOrder, KeepOrder, storeVars, paymentVars
  <2> QED
    BY <1>3, <1>5, <2>1, <2>2
    DEF OrderStep, CompleteIntent, ExpireIntent, MarkOrderAmbiguous, AdoptProviderOrder,
        ConfirmFailedOrder, ConfirmUnattemptedOrder
<1> QED
  BY <1>4, <1>5 DEF StoreNext

\* Payment and event rows are append-only evidence, however events are duplicated,
\* delayed or reordered.
THEOREM EvidenceIsMonotonic == StoreSpec => EvidenceMonotonic
<1>1. StoreInv /\ [StoreNext]_storeVars => [EvidenceKept]_storeVars
  BY EvidenceStep
<1> QED
  BY <1>1, StoreInvariant, PTL DEF StoreSpec, EvidenceMonotonic

-----------------------------------------------------------------------------
(* PaymentStore implements Purchase *)

Held(p) == paymentStatus[p] \in {"captured", "refunded"}

LEMMA InitRefines == StoreInit => Abstract!PurchaseInit
BY NoneIsNoRow DEF StoreInit, Abstract!PurchaseInit, Charged, Returned, PaymentsOf

\* A transaction that touches neither payments nor deliveries and does not complete a
\* refund is invisible to the purchase.
LEMMA Invisible ==
  ASSUME UNCHANGED <<paymentStatus, paymentOrder, entitlements, outbox, refundPayment>>,
         \A j \in Intents : refundStatus'[j] = "refunded" <=> refundStatus[j] = "refunded"
  PROVE  UNCHANGED <<Charged, entitlements, outbox, Returned>>
BY DEF Charged, Returned, PaymentsOf

\* The first capture and every later one is a Charge; every other event is invisible.
LEMMA EventRefines ==
  ASSUME StoreInv, NEW e \in EventIds, NEW m \in ProviderEvents, NEW i \in Intents,
         RecordProviderEvent(e, m, i)
  PROVE  [Abstract!PurchaseNext]_(Abstract!purchaseVars)
<1> DEFINE p == m.payment
           status == Raise(paymentStatus[p], m.status)
<1>1. /\ EventAccepted(e, m, i) /\ RecordPayment(e, m, i)
      /\ UNCHANGED <<providerOrder, refundVars>>
  BY DEF RecordProviderEvent
<1>2. /\ p \in Payments /\ m.status \in EventStatuses
      /\ paymentStatus' = [paymentStatus EXCEPT ![p] = status]
      /\ PaymentsOf(i)' = PaymentsOf(i) \cup {p}
      /\ \A j \in Intents \ {i} : PaymentsOf(j)' = PaymentsOf(j) /\ p \notin PaymentsOf(j)
      /\ p \notin PaymentsOf(i) => paymentStatus[p] = "none"
  BY <1>1, EventFacts DEF ProviderEvents
<1>3. /\ \A q \in Payments \ {p} : paymentStatus'[q] = paymentStatus[q]
      /\ paymentStatus'[p] = status
      /\ Held(p) => status \in {"captured", "refunded"}
      /\ status = "refunded" => paymentStatus[p] = "refunded"
  BY <1>2, RaiseFacts DEF StoreInv, StoreTypeOK, Held
<1>4. Returned' = Returned
  BY <1>1 DEF Returned, refundVars
<1>5. CASE status = "captured" /\ ~Held(p)
  <2>1. Charged' = [Charged EXCEPT ![i] = @ \cup {p}]
    <3>1. Charged'[i] = Charged[i] \cup {p}
      BY <1>2, <1>3, <1>5 DEF Charged, PaymentsOf
    <3>2. \A j \in Intents \ {i} : Charged'[j] = Charged[j]
      BY <1>2, <1>3 DEF Charged, PaymentsOf
    <3> QED
      BY <3>1, <3>2 DEF Charged
  <2>2. Abstract!Uncharged(p)
    BY <1>5 DEF Abstract!Uncharged, Charged, Held
  <2>3. CASE ~Settled(i)
    <3>1. Fulfil(i)
      BY <1>5, <2>3 DEF RecordProviderEvent
    <3>2. /\ entitlements' = [entitlements EXCEPT ![i] = IF @ = "none" THEN "granted" ELSE @]
          /\ outbox' = outbox \cup {i}
      BY <3>1 DEF Fulfil
    <3> QED
      BY <1>2, <1>4, <2>1, <2>2, <3>2 DEF Abstract!PurchaseNext, Abstract!Charge
  <2>4. CASE Settled(i)
    <3>1. UNCHANGED fulfilVars /\ entitlements[i] # "none" /\ i \in outbox
      BY <2>4 DEF RecordProviderEvent, StoreInv, CaptureIsFulfilled
    <3>2. /\ entitlements' = [entitlements EXCEPT ![i] = IF @ = "none" THEN "granted" ELSE @]
          /\ outbox' = outbox \cup {i}
      BY <3>1 DEF fulfilVars, StoreInv, StoreTypeOK
    <3> QED
      BY <1>2, <1>4, <2>1, <2>2, <3>2 DEF Abstract!PurchaseNext, Abstract!Charge
  <2> QED
    BY <2>3, <2>4
<1>6. CASE ~(status = "captured" /\ ~Held(p))
  <2>1. status \in {"captured", "refunded"} <=> Held(p)
    BY <1>3, <1>6 DEF Held
  <2>2. Charged' = Charged
    BY <1>2, <1>3, <2>1 DEF Charged, Held, PaymentsOf
  <2>3. UNCHANGED fulfilVars
    <3>1. CASE status = "captured" /\ ~Settled(i)
      <4>1. p \in PaymentsOf(i) /\ Held(p)
        BY <1>2, <1>6, <3>1 DEF Held
      <4> QED
        BY <3>1, <4>1 DEF StoreInv, CaptureIsFulfilled, Held
    <3>2. CASE ~(status = "captured" /\ ~Settled(i))
      BY <3>2 DEF RecordProviderEvent, Unsettle
    <3> QED
      BY <3>1, <3>2
  <2> QED
    BY <1>4, <2>2, <2>3 DEF Abstract!purchaseVars, fulfilVars
<1> QED
  BY <1>5, <1>6

\* A completed refund is a Refund of the payment the request names.
LEMMA RefundRefines ==
  ASSUME StoreInv, NEW i \in Intents, NEW r \in Refunds, RecordRefundResult(i, r, "refunded")
  PROVE  Abstract!PurchaseNext
<1> DEFINE p == refundPayment[i]
<1>1. /\ refundStatus[i] \in {"approved", "submitted"}
      /\ refundStatus' = [refundStatus EXCEPT ![i] = "refunded"]
      /\ Revoke(i)
      /\ UNCHANGED <<paymentOrder, outbox, refundPayment>>
  BY DEF RecordRefundResult, RefundResultApplies
<1>2. /\ p \in Payments /\ p \in PaymentsOf(i) /\ Held(p)
      /\ entitlements[i] = "granted"
  <2>1. p \in Payments /\ paymentOrder[p] = i /\ Held(p)
    BY <1>1 DEF StoreInv, StoreTypeOK, RefundNamesCapture, Held
  <2>2. p \in PaymentsOf(i)
    BY <2>1 DEF PaymentsOf
  <2>3. entitlements[i] # "none" /\ entitlements[i] # "revoked"
    BY <1>1, <2>1, <2>2 DEF StoreInv, CaptureIsFulfilled, RefundRevokesAccess, Held
  <2> QED
    BY <2>1, <2>2, <2>3 DEF StoreInv, StoreTypeOK
<1>3. Charged' = Charged
  BY <1>1, <1>2 DEF Revoke, Charged, PaymentsOf, Held, StoreInv, StoreTypeOK
<1>4. Returned' = [Returned EXCEPT ![i] = p]
  BY <1>1 DEF Returned, StoreInv, StoreTypeOK
<1>5. entitlements' = [entitlements EXCEPT ![i] = "revoked"]
  BY <1>1, <1>2 DEF Revoke
<1> QED
  BY <1>1, <1>2, <1>3, <1>4, <1>5 DEF Abstract!PurchaseNext, Abstract!Refund, Charged, Held

LEMMA NextRefines ==
  StoreInv /\ [StoreNext]_storeVars => [Abstract!PurchaseNext]_(Abstract!purchaseVars)
<1> SUFFICES ASSUME StoreInv, [StoreNext]_storeVars
             PROVE  [Abstract!PurchaseNext]_(Abstract!purchaseVars)
  OBVIOUS
<1>1. ASSUME UNCHANGED <<Charged, entitlements, outbox, Returned>>
      PROVE  [Abstract!PurchaseNext]_(Abstract!purchaseVars)
  BY <1>1 DEF Abstract!purchaseVars
<1>2. CASE UNCHANGED storeVars
  BY <1>1, <1>2, Invisible DEF storeVars
<1>3. CASE OrderStep
  <2>1. ASSUME NEW i \in Intents, NEW live \in BOOLEAN, PrepareCheckout(i, live)
        PROVE  [Abstract!PurchaseNext]_(Abstract!purchaseVars)
    BY <1>1, <2>1, Invisible
    DEF PrepareCheckout, CreateOrder, ExpireOrder, KeepOrder, storeVars, paymentVars,
        fulfilVars, refundVars
  <2> QED
    BY <1>1, <1>3, <2>1, Invisible, EventRefines
    DEF OrderStep, CompleteIntent, ExpireIntent, MarkOrderAmbiguous, AdoptProviderOrder,
        ConfirmFailedOrder, ConfirmUnattemptedOrder, paymentVars, fulfilVars, refundVars
<1>4. CASE RefundStep
  <2>1. ASSUME NEW i \in Intents, NEW p \in Payments, RequestRefund(i, p)
        PROVE  [Abstract!PurchaseNext]_(Abstract!purchaseVars)
    <3>1. Charged' = Charged /\ entitlements' = entitlements /\ outbox' = outbox
      BY <2>1 DEF RequestRefund, paymentVars, fulfilVars, Charged, PaymentsOf
    <3>2. Returned' = Returned
      BY <2>1 DEF RequestRefund, Returned, StoreInv, StoreTypeOK
    <3> QED
      BY <1>1, <3>1, <3>2
  <2>2. ASSUME NEW i \in Intents, ApproveRefund(i)
        PROVE  [Abstract!PurchaseNext]_(Abstract!purchaseVars)
    BY <1>1, <2>2, Invisible
    DEF ApproveRefund, paymentVars, fulfilVars, StoreInv, StoreTypeOK
  <2>3. ASSUME NEW i \in Intents, NEW r \in Refunds, NEW status \in {"submitted", "failed"},
               RecordRefundResult(i, r, status)
        PROVE  [Abstract!PurchaseNext]_(Abstract!purchaseVars)
    BY <1>1, <2>3, Invisible
    DEF RecordRefundResult, RefundResultApplies, StoreInv, StoreTypeOK
  <2> QED
    BY <1>4, <2>1, <2>2, <2>3, RefundRefines DEF RefundStep, RefundResults
<1> QED
  BY <1>2, <1>3, <1>4 DEF StoreNext

\* The payment repository implements the abstract purchase: charging, delivering and
\* refunding stay atomic and consistent whatever transactions run, in any order.
THEOREM StoreImplementsPurchase == StoreSpec => ImplementsPurchase
<1>1. StoreInit => Abstract!PurchaseInit
  BY InitRefines
<1>2. StoreInv /\ [StoreNext]_storeVars => [Abstract!PurchaseNext]_(Abstract!purchaseVars)
  BY NextRefines
<1> QED
  BY <1>1, <1>2, StoreInvariant, PTL DEF StoreSpec, ImplementsPurchase, Abstract!PurchaseSpec
=============================================================================
