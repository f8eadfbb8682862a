--------------------------- MODULE CheckoutProofs ---------------------------
(***************************************************************************)
(* What the payment module guarantees for any number of intents, requests, *)
(* remote orders and payments.  Each of its steps is a transaction of      *)
(* PaymentStore or none (CheckoutUsesTheStore), so what is proved of the   *)
(* rows holds of them; what a request carries from one await to the next   *)
(* (CallOK, CreatorsOK) ties the rows to the provider's orders and         *)
(* payments.                                                               *)
(***************************************************************************)
EXTENDS CheckoutService, PaymentStoreProofs

-----------------------------------------------------------------------------
(* The inductive invariant.                                                *)

\* This service asks for no refund; RefundService does.
NoRefunds == \A i \in Intents : refundStatus[i] = "none"

\* The provider: a payment belongs to an order since its first attempt, announces what it
\* becomes, and a captured one stays captured.
ProviderOK ==
  /\ remoteOrder \in [ProviderOrders -> Intents \cup {None}]
  /\ remotePayment \in [Payments -> RemoteStatuses]
  /\ remoteFor \in [Payments -> ProviderOrders \cup {None}]
  /\ announced \in [Payments -> SUBSET EventStatuses]
  /\ \A p \in Payments :
       /\ remoteFor[p] = None => remotePayment[p] = "none"
       /\ remotePayment[p] = "none" => remoteFor[p] = None /\ announced[p] = {}
       /\ remotePayment[p] \in EventStatuses => remotePayment[p] \in announced[p]
       /\ "captured" \in announced[p] => remotePayment[p] = "captured"

\* An adopted remote order carries the receipt of its order, and a payment row holds a
\* status announced for a payment of that remote order.
RowsTied ==
  /\ \A i \in Intents : providerOrder[i] # None => remoteOrder[providerOrder[i]] = i
  /\ \A p \in Payments :
       paymentOrder[p] # None =>
         /\ remoteFor[p] = providerOrder[paymentOrder[p]]
         /\ paymentStatus[p] \in announced[p]

\* A remote order is created for an order only.
ReceiptsAreOrders ==
  \A po \in ProviderOrders : remoteOrder[po] # None => HasOrder(remoteOrder[po])

RowsInv ==
  /\ StoreInv
  /\ NoRefunds
  /\ ProviderOK
  /\ RowsTied
  /\ ReceiptsAreOrders
  /\ OneRemoteOrder
  /\ offered \subseteq ProviderOrders
  /\ OfferedIsAdopted

\* The steps at which a request holds the remote order its order has adopted.
AfterAdoption == {"fetch", "unattempted", "settle", "settleFailed", "confirmFailed", "reread", "offer"}

\* What request c may rely on after each await.
CallOK(c) ==
  /\ call[c].step # "idle" => call[c].intent \in Intents
  /\ call[c].order # None =>
       call[c].intent \in Intents /\ remoteOrder[call[c].order] = call[c].intent
  /\ call[c].step \in {"adopt", "recover"} => call[c].order # None
  /\ call[c].step \in AfterAdoption \/ call[c].op = "reopen" =>
       call[c].order # None /\ call[c].order = providerOrder[call[c].intent]
  /\ call[c].step = "find" => call[c].op \in {"reopen", "reconcile"}
  /\ call[c].step \in {"lookup", "recover"} => call[c].op = "reconcile"
  /\ \/ call[c].step = "fetch" /\ call[c].op = "proof"
     \/ call[c].step \in {"settle", "settleFailed"}
     => \A p \in call[c].todo : remoteFor[p] = call[c].order
  /\ call[c].step = "fetch" /\ call[c].op = "proof" =>
       \A p, q \in call[c].todo : p = q
  /\ call[c].step \in {"settle", "settleFailed"} =>
       \A p \in call[c].todo : call[c].status \in announced[p]

\* A request about to create a remote order is the only one, and there is none yet.
CreatorsOK ==
  \A c \in Calls :
    At(c, "create") =>
      /\ HasOrder(call[c].intent)
      /\ RemoteOrdersOf(call[c].intent) = {}
      /\ \A d \in Calls \ {c} : At(d, "create") => call[d].intent # call[c].intent

CallsInv ==
  /\ call \in [Calls -> CallStates]
  /\ \A c \in Calls : CallOK(c)
  /\ CreatorsOK

CheckoutInv ==
  /\ RowsInv
  /\ CallsInv

-----------------------------------------------------------------------------
(* What no step undoes.                                                    *)

\* Orders exist for good, and what they adopted, the provider's orders, the orders of its
\* payments and its announcements stay.
Onward ==
  /\ \A i \in Intents : HasOrder(i) => HasOrder(i)'
  /\ \A i \in Intents : providerOrder[i] # None => providerOrder'[i] = providerOrder[i]
  /\ \A po \in ProviderOrders : remoteOrder[po] # None => remoteOrder'[po] = remoteOrder[po]
  /\ \A p \in Payments : remoteFor[p] # None => remoteFor'[p] = remoteFor[p]
  /\ \A p \in Payments : announced[p] \subseteq announced'[p]

\* A settled order has a captured payment of its remote order, by the rows' own invariant.
LEMMA RowsFollow == RowsInv => RowsFollowProvider
<1> SUFFICES ASSUME RowsInv PROVE RowsFollowProvider
  OBVIOUS
<1>1. ASSUME NEW i \in Intents, Settled(i)
      PROVE  \E p \in RemotePaymentsOf(providerOrder[i]) : remotePayment[p] = "captured"
  <2>1. PICK p \in PaymentsOf(i) : paymentStatus[p] \in {"captured", "refunded"}
    BY <1>1 DEF RowsInv, StoreInv, CaptureIsFulfilled
  <2>2. paymentStatus[p] = "captured"
    BY <2>1 DEF RowsInv, StoreInv, RefundRevokesAccess, NoRefunds
  <2>3. p \in Payments /\ paymentOrder[p] = i /\ paymentOrder[p] # None
    BY <2>1, NoneIsNoRow DEF PaymentsOf
  <2>4. remoteFor[p] = providerOrder[i] /\ "captured" \in announced[p]
    BY <2>2, <2>3 DEF RowsInv, RowsTied
  <2> QED
    BY <2>3, <2>4 DEF RowsInv, ProviderOK, RemotePaymentsOf
<1> QED
  BY <1>1 DEF RowsInv, RowsTied, RowsFollowProvider

-----------------------------------------------------------------------------
(* The requests.                                                           *)

\* The other requests that are about to create still may.
OthersMayCreate(c) ==
  \A d \in Calls \ {c} :
    At(d, "create") => \A po \in ProviderOrders : remoteOrder'[po] # call[d].intent

\* A request that waits can rely on the same as before.
LEMMA WaitingCall ==
  ASSUME RowsInv, call \in [Calls -> CallStates], NEW c \in Calls, CallOK(c), Onward,
         call'[c] = call[c]
  PROVE  CallOK(c)'
<1>1. /\ call[c] \in CallStates
      /\ call[c].order # None => call[c].order \in ProviderOrders
      /\ call[c].todo \subseteq Payments
  BY DEF CallStates
<1>2. call[c].order # None =>
        call[c].intent \in Intents /\ remoteOrder'[call[c].order] = call[c].intent
  BY <1>1, NoneIsNoRow DEF CallOK, Onward
<1>3. call[c].step \in AfterAdoption \/ call[c].op = "reopen" =>
        call[c].order # None /\ call[c].order = providerOrder'[call[c].intent]
  BY <1>2 DEF CallOK, Onward
<1>4. \/ call[c].step = "fetch" /\ call[c].op = "proof"
      \/ call[c].step \in {"settle", "settleFailed"}
      => \A p \in call[c].todo : remoteFor'[p] = call[c].order
  BY <1>1 DEF CallOK, Onward, AfterAdoption
<1>5. call[c].step \in {"settle", "settleFailed"} =>
        \A p \in call[c].todo : call[c].status \in announced'[p]
  BY <1>1 DEF CallOK, Onward
<1> QED
  BY <1>2, <1>3, <1>4, <1>5 DEF CallOK

\* One request moves, to a step other than creation, and can rely on what it needs there.
LEMMA CallMoves ==
  ASSUME CheckoutInv, Onward, NEW c \in Calls, OthersMayCreate(c), NEW k \in CallStates,
         call' = [call EXCEPT ![c] = k], k.step # "create", CallOK(c)'
  PROVE  CallsInv'
<1>1. call' \in [Calls -> CallStates] /\ call'[c] = k
  BY DEF CheckoutInv, CallsInv
<1>2. \A d \in Calls \ {c} : call'[d] = call[d]
  BY DEF CheckoutInv, CallsInv
<1>3. \A d \in Calls : CallOK(d)'
  BY <1>2, WaitingCall DEF CheckoutInv, CallsInv
<1>4. CreatorsOK'
  <2> SUFFICES ASSUME NEW d \in Calls, At(d, "create")'
               PROVE  /\ HasOrder(call[d].intent)' /\ RemoteOrdersOf(call[d].intent)' = {}
                      /\ call'[d] = call[d]
                      /\ \A e \in Calls \ {d} : At(e, "create")' => call'[e].intent # call'[d].intent
    BY DEF CreatorsOK, HasOrder, RemoteOrdersOf
  <2>1. d # c /\ call'[d] = call[d] /\ At(d, "create")
    BY <1>1, <1>2 DEF At
  <2>2. HasOrder(call[d].intent) /\ call[d].intent \in Intents
    BY <2>1 DEF CheckoutInv, CallsInv, CreatorsOK, CallOK, At
  <2>3. \A e \in Calls \ {d} : At(e, "create")' => At(e, "create") /\ call'[e] = call[e]
    BY <1>1, <1>2 DEF At
  <2>4. \A e \in Calls \ {d} : At(e, "create") => call[e].intent # call[d].intent
    BY <2>1 DEF CheckoutInv, CallsInv, CreatorsOK
  <2> QED
    BY <2>1, <2>2, <2>3, <2>4 DEF OthersMayCreate, Onward, HasOrder, RemoteOrdersOf
<1> QED
  BY <1>1, <1>3, <1>4 DEF CallsInv

\* The request that was not made yet.
LEMMA IdleTyped ==
  /\ Idle \in CallStates
  /\ Idle.step = "idle" /\ Idle.op = "none" /\ Idle.order = None /\ Idle.todo = {}
BY DEF Idle, CallStates, Steps, Ops

\* A request that ends relies on nothing.
LEMMA Finishes ==
  ASSUME CheckoutInv, Onward, NEW c \in Calls, OthersMayCreate(c), Finish(c)
  PROVE  CallsInv'
<1>1. /\ Idle \in CallStates
      /\ Idle.step = "idle" /\ Idle.op = "none" /\ Idle.order = None
  BY IdleTyped
<1>2. call' = [call EXCEPT ![c] = Idle] /\ call'[c] = Idle
  BY DEF Finish, CheckoutInv, CallsInv
<1>3. CallOK(c)'
  BY <1>1, <1>2 DEF CallOK, AfterAdoption
<1> QED
  BY <1>1, <1>2, <1>3, CallMoves

\* What request c knows of its intent and its order stays true.
LEMMA KnownKept ==
  ASSUME CheckoutInv, Onward, NEW c \in Calls
  PROVE  /\ call[c] \in CallStates
         /\ call[c].step # "idle" => call[c].intent \in Intents
         /\ call[c].order # None =>
              /\ call[c].order \in ProviderOrders /\ call[c].intent \in Intents
              /\ remoteOrder'[call[c].order] = call[c].intent
         /\ call[c].step \in AfterAdoption \/ call[c].op = "reopen" =>
              /\ call[c].order # None /\ call[c].order = providerOrder[call[c].intent]
              /\ call[c].order = providerOrder'[call[c].intent]
<1>1. CallOK(c) /\ call[c] \in CallStates
  BY DEF CheckoutInv, CallsInv
<1>2. call[c].order # None => call[c].order \in ProviderOrders
  BY <1>1 DEF CallStates
<1> QED
  BY <1>1, <1>2, NoneIsNoRow DEF CallOK, Onward

\* A request goes on to a step at which it holds no payment to settle.
LEMMA Goes ==
  ASSUME CheckoutInv, Onward, NEW c \in Calls, OthersMayCreate(c), ~At(c, "idle"),
         NEW step \in {"offer", "reread", "fetch", "unattempted"}, Goto(c, step),
         step = "fetch" => call[c].op # "proof",
         call[c].order # None, call[c].order = providerOrder'[call[c].intent]
  PROVE  CallsInv'
<1> DEFINE k == [call[c] EXCEPT !.step = step]
<1>1. call' = [call EXCEPT ![c] = k] /\ call[c] \in CallStates
  BY DEF Goto, CheckoutInv, CallsInv
<1>2. /\ k \in CallStates /\ k.step = step /\ k.op = call[c].op
      /\ k.intent = call[c].intent /\ k.order = call[c].order
  BY <1>1 DEF CallStates, Steps
<1> HIDE DEF k
<1>3. call'[c] = k
  BY <1>1 DEF CheckoutInv, CallsInv
<1>4. CallOK(c)'
  BY <1>2, <1>3, KnownKept DEF CallOK, At
<1> QED
  BY <1>1, <1>2, <1>4, CallMoves

\* A request answers with its order: a checkout, or the order alone.
LEMMA Answers ==
  ASSUME CheckoutInv, Onward, NEW c \in Calls, OthersMayCreate(c), ~At(c, "idle"),
         Goto(c, "offer") \/ Finish(c),
         call[c].order # None, call[c].order = providerOrder'[call[c].intent]
  PROVE  CallsInv'
BY Goes, Finishes

\* A request that fails marks its order, or ends.
LEMMA Fails ==
  ASSUME CheckoutInv, Onward, NEW c \in Calls, OthersMayCreate(c), ~At(c, "idle"),
         NEW count \in 0..2, Fail(c, count)
  PROVE  CallsInv'
<1> DEFINE due == IF call[c].op = "reopen" THEN count + 1 ELSE count
<1>1. CASE due = 0
  BY <1>1, Finishes DEF Fail
<1>2. CASE due # 0
  <2>1. due \in 0..3 /\ call[c] \in CallStates
    BY DEF CheckoutInv, CallsInv
  <2> DEFINE k == [call[c] EXCEPT !.step = "mark", !.marks = due]
  <2>2. call' = [call EXCEPT ![c] = k]
    BY <1>2 DEF Fail
  <2>3. /\ k \in CallStates /\ k.step = "mark" /\ k.op = call[c].op
        /\ k.intent = call[c].intent /\ k.order = call[c].order
    BY <2>1 DEF CallStates, Steps
  <2> HIDE DEF k
  <2>4. call'[c] = k
    BY <2>2 DEF CheckoutInv, CallsInv
  <2>5. CallOK(c)'
    BY <2>3, <2>4, KnownKept DEF CallOK, At, AfterAdoption
  <2> QED
    BY <2>2, <2>3, <2>5, CallMoves
<1> QED
  BY <1>1, <1>2

-----------------------------------------------------------------------------
(* The rows and the provider.                                              *)

\* A transaction that adopts nothing and settles nothing.
RowsQuiet ==
  /\ \A i \in Intents : HasOrder(i) => HasOrder(i)'
  /\ UNCHANGED <<providerOrder, paymentStatus, paymentOrder, refundStatus>>

LEMMA QuietKeeps ==
  ASSUME RowsInv, StoreInv', RowsQuiet, UNCHANGED <<providerVars, offered>>
  PROVE  RowsInv' /\ Onward
<1> USE DEF RowsQuiet, providerVars
<1>1. NoRefunds' /\ ProviderOK' /\ RowsTied'
  BY DEF RowsInv, NoRefunds, ProviderOK, RowsTied
<1>2. ReceiptsAreOrders'
  <2>1. ASSUME NEW po \in ProviderOrders, remoteOrder'[po] # None
        PROVE  HasOrder(remoteOrder[po])' /\ remoteOrder' = remoteOrder
    <3>1. remoteOrder[po] \in Intents /\ HasOrder(remoteOrder[po])
      BY <2>1 DEF RowsInv, ReceiptsAreOrders, ProviderOK
    <3> QED
      BY <3>1 DEF HasOrder
  <2> QED
    BY <2>1 DEF ReceiptsAreOrders, HasOrder
<1>3. OneRemoteOrder' /\ OfferedIsAdopted'
  BY DEF RowsInv, OneRemoteOrder, OfferedIsAdopted, RemoteOrdersOf
<1>4. Onward
  BY DEF Onward
<1> QED
  BY <1>1, <1>2, <1>3, <1>4 DEF RowsInv

\* While no remote order is created, whoever was about to create may still.
LEMMA OthersStill ==
  ASSUME CheckoutInv, NEW c \in Calls, UNCHANGED remoteOrder
  PROVE  OthersMayCreate(c)
BY DEF CheckoutInv, CallsInv, CreatorsOK, OthersMayCreate, RemoteOrdersOf

\* Nothing but a request moves.
LEMMA CallStep ==
  ASSUME CheckoutInv, NEW c \in Calls, UNCHANGED <<storeVars, providerVars>>,
         UNCHANGED offered
  PROVE  RowsInv' /\ Onward /\ OthersMayCreate(c) /\ providerOrder' = providerOrder
<1>1. StoreInv' /\ RowsQuiet
  BY StutterInv DEF CheckoutInv, RowsInv, RowsQuiet, storeVars, HasOrder
<1> QED
  BY <1>1, QuietKeeps, OthersStill DEF CheckoutInv, RowsQuiet, providerVars

\* No request moves.
LEMMA CallsStay ==
  ASSUME CheckoutInv, Onward, UNCHANGED remoteOrder, UNCHANGED call
  PROVE  CallsInv'
<1>1. \A c \in Calls : CallOK(c)'
  BY WaitingCall DEF CheckoutInv, CallsInv
<1>2. ASSUME NEW c \in Calls, At(c, "create")'
      PROVE  /\ HasOrder(call[c].intent)' /\ RemoteOrdersOf(call[c].intent)' = {}
             /\ call' = call
             /\ \A d \in Calls \ {c} : At(d, "create")' => call[d].intent # call[c].intent
  <2>1. At(c, "create") /\ \A d \in Calls : At(d, "create")' => At(d, "create")
    BY <1>2 DEF At
  <2>2. HasOrder(call[c].intent) /\ call[c].intent \in Intents
    BY <2>1 DEF CheckoutInv, CallsInv, CreatorsOK, CallOK, At
  <2> QED
    BY <2>1, <2>2 DEF CheckoutInv, CallsInv, CreatorsOK, Onward, HasOrder, RemoteOrdersOf
<1>3. CreatorsOK'
  BY <1>2 DEF CreatorsOK, HasOrder, RemoteOrdersOf
<1> QED
  BY <1>1, <1>3 DEF CheckoutInv, CallsInv

\* The transactions that only move the order's or the intent's status.
LEMMA StatusTransactions ==
  ASSUME StoreInv, NEW i \in Intents,
         \/ MarkOrderAmbiguous(i)
         \/ \E live \in BOOLEAN : PrepareCheckout(i, live)
         \/ \E po \in ProviderOrders : ConfirmFailedOrder(i, po)
         \/ \E po \in ProviderOrders, live \in BOOLEAN : ConfirmUnattemptedOrder(i, po, live)
         \/ CompleteIntent(i)
         \/ ExpireIntent(i)
  PROVE  StoreInv' /\ RowsQuiet
<1>1. StoreInv'
  BY MarkOrderAmbiguousInv, PrepareCheckoutInv, ConfirmFailedOrderInv, ConfirmUnattemptedOrderInv,
     IntentInv
<1>2. UNCHANGED <<providerOrder, paymentStatus, paymentOrder, refundStatus>>
  BY DEF MarkOrderAmbiguous, PrepareCheckout, CreateOrder, ExpireOrder, KeepOrder, ConfirmFailedOrder,
         ConfirmUnattemptedOrder, CompleteIntent, ExpireIntent, paymentVars, refundVars, storeVars
<1>3. ASSUME NEW j \in Intents, HasOrder(j)
      PROVE  HasOrder(j)'
  <2>1. \/ orderStatus' = orderStatus
        \/ orderStatus' = [orderStatus EXCEPT ![i] = orderStatus'[i]] /\ orderStatus'[i] # "none"
    BY <1>3 DEF MarkOrderAmbiguous, PrepareCheckout, CreateOrder, ExpireOrder, KeepOrder,
         ConfirmFailedOrder, ConfirmUnattemptedOrder, CompleteIntent, ExpireIntent, storeVars,
         HasOrder, StoreInv, StoreTypeOK, Unresolved, Payable, UnattemptedConfirmed, FailureConfirmed
  <2> QED
    BY <1>3, <2>1 DEF HasOrder, StoreInv, StoreTypeOK
<1> QED
  BY <1>1, <1>2, <1>3 DEF RowsQuiet

\* A remote order with the order's receipt is adopted.
LEMMA AdoptionKeeps ==
  ASSUME RowsInv, NEW i \in Intents, NEW po \in ProviderOrders, AdoptProviderOrder(i, po),
         remoteOrder[po] = i, UNCHANGED <<providerVars, offered>>
  PROVE  RowsInv' /\ Onward /\ providerOrder'[i] = po
<1> USE DEF AdoptProviderOrder, providerVars, paymentVars, refundVars, fulfilVars
<1>1. StoreInv'
  BY AdoptProviderOrderInv DEF RowsInv
<1>2. /\ providerOrder'[i] = po
      /\ \A j \in Intents \ {i} : providerOrder'[j] = providerOrder[j]
      /\ providerOrder[i] # None => providerOrder[i] = po
  BY DEF RowsInv, StoreInv, StoreTypeOK
<1>3. NoRefunds' /\ ProviderOK'
  BY DEF RowsInv, NoRefunds, ProviderOK
<1>4. RowsTied'
  <2>1. ASSUME NEW p \in Payments, paymentOrder[p] # None
        PROVE  remoteFor[p] = providerOrder'[paymentOrder[p]]
    <3>1. paymentOrder[p] \in Intents /\ providerOrder[paymentOrder[p]] # None
      BY <2>1 DEF RowsInv, StoreInv, StoreTypeOK, RemoteOrdersDisjoint
    <3> QED
      BY <1>2, <2>1, <3>1 DEF RowsInv, RowsTied
  <2> QED
    BY <1>2, <2>1 DEF RowsInv, RowsTied
<1>5. ReceiptsAreOrders'
  BY DEF RowsInv, ReceiptsAreOrders, HasOrder
<1>6. OneRemoteOrder'
  BY DEF RowsInv, OneRemoteOrder, RemoteOrdersOf
<1>7. OfferedIsAdopted'
  <2>1. ASSUME NEW offer \in offered
        PROVE  \E j \in Intents : providerOrder'[j] = offer
    <3>1. offer # None /\ \E j \in Intents : providerOrder[j] = offer
      BY <2>1, NoneIsNoRow DEF RowsInv, OfferedIsAdopted
    <3> QED
      BY <1>2, <3>1
  <2> QED
    BY <2>1 DEF OfferedIsAdopted
<1>8. Onward
  BY <1>2 DEF Onward, HasOrder
<1> QED
  BY <1>1, <1>2, <1>3, <1>4, <1>5, <1>6, <1>7, <1>8 DEF RowsInv

\* An event the provider announced is recorded, for a payment of the remote order it names.
LEMMA EventKeeps ==
  ASSUME RowsInv, NEW e \in EventIds, NEW m \in ProviderEvents, NEW i \in Intents,
         RecordProviderEvent(e, m, i), remoteFor[m.payment] = m.order,
         m.status \in announced[m.payment], UNCHANGED <<providerVars, offered>>
  PROVE  RowsInv' /\ Onward /\ providerOrder' = providerOrder
<1> DEFINE p == m.payment
           status == Raise(paymentStatus[p], m.status)
<1> USE DEF providerVars, refundVars
<1>1. StoreInv'
  BY RecordProviderEventInv DEF RowsInv
<1>2. /\ EventAccepted(e, m, i)
      /\ paymentOrder' = [paymentOrder EXCEPT ![p] = i]
      /\ paymentStatus' = [paymentStatus EXCEPT ![p] = status]
      /\ UNCHANGED <<providerOrder, refundStatus>>
  BY DEF RecordProviderEvent, RecordPayment
<1>3. /\ p \in Payments /\ m.status \in EventStatuses /\ paymentStatus[p] \in PaymentStatuses
      /\ m.order \in ProviderOrders /\ providerOrder[i] = m.order
  BY <1>2 DEF ProviderEvents, RowsInv, StoreInv, StoreTypeOK, EventAccepted
<1>4. status \in announced[p]
  <2>1. CASE paymentOrder[p] = None
    <3>1. paymentStatus[p] = "none"
      BY <1>3, <2>1 DEF RowsInv, StoreInv, RemoteOrdersDisjoint
    <3> QED
      BY <1>3, <3>1 DEF Raise, Rank, EventStatuses
  <2>2. CASE paymentOrder[p] # None
    BY <1>3, <2>2, RaiseFacts DEF RowsInv, RowsTied
  <2> QED
    BY <2>1, <2>2
<1>5. NoRefunds' /\ ProviderOK'
  BY <1>2 DEF RowsInv, NoRefunds, ProviderOK
<1> HIDE DEF status
<1>6. RowsTied'
  <2>1. ASSUME NEW q \in Payments, paymentOrder'[q] # None
        PROVE  remoteFor[q] = providerOrder[paymentOrder'[q]] /\ paymentStatus'[q] \in announced[q]
    <3>1. CASE q = p
      BY <1>2, <1>3, <1>4, <3>1 DEF RowsInv, StoreInv, StoreTypeOK
    <3>2. CASE q # p
      BY <1>2, <2>1, <3>2 DEF RowsInv, RowsTied, StoreInv, StoreTypeOK
    <3> QED
      BY <3>1, <3>2
  <2> QED
    BY <1>2, <2>1 DEF RowsInv, RowsTied
<1>7. ASSUME NEW j \in Intents, HasOrder(j)
      PROVE  HasOrder(j)'
  BY <1>7 DEF RecordProviderEvent, Fulfil, Unsettle, HasOrder, RowsInv, StoreInv, StoreTypeOK
<1>8. ReceiptsAreOrders'
  <2>1. ASSUME NEW po \in ProviderOrders, remoteOrder[po] # None
        PROVE  HasOrder(remoteOrder[po])' /\ remoteOrder' = remoteOrder
    <3>1. remoteOrder[po] \in Intents /\ HasOrder(remoteOrder[po])
      BY <2>1 DEF RowsInv, ReceiptsAreOrders, ProviderOK
    <3> QED
      BY <1>7, <3>1 DEF HasOrder
  <2> QED
    BY <2>1 DEF ReceiptsAreOrders, HasOrder
<1>9. OneRemoteOrder' /\ OfferedIsAdopted'
  BY <1>2 DEF RowsInv, OneRemoteOrder, OfferedIsAdopted, RemoteOrdersOf
<1>10. Onward
  BY <1>2, <1>7 DEF Onward
<1> QED
  BY <1>1, <1>2, <1>5, <1>6, <1>8, <1>9, <1>10 DEF RowsInv

\* A remote order is created for an order that has none.
LEMMA CreationKeeps ==
  ASSUME RowsInv, NEW i \in Intents, NEW po \in ProviderOrders, CreateRemoteOrder(po, i),
         HasOrder(i), RemoteOrdersOf(i) = {}, UNCHANGED <<storeVars, offered>>
  PROVE  RowsInv' /\ Onward /\ remoteOrder'[po] = i
         /\ \A other \in ProviderOrders \ {po} : remoteOrder'[other] = remoteOrder[other]
<1>1. /\ remoteOrder[po] = None /\ remoteOrder'[po] = i
      /\ \A other \in ProviderOrders \ {po} : remoteOrder'[other] = remoteOrder[other]
      /\ remoteOrder' \in [ProviderOrders -> Intents \cup {None}]
      /\ UNCHANGED <<remotePayment, remoteFor, announced>>
  BY DEF CreateRemoteOrder, RowsInv, ProviderOK
<1>2. UNCHANGED <<orderStatus, providerOrder, paymentStatus, paymentOrder, refundStatus>>
  BY DEF storeVars
<1>3. StoreInv' /\ NoRefunds' /\ ProviderOK' /\ OfferedIsAdopted'
  BY <1>1, <1>2, StutterInv DEF RowsInv, NoRefunds, ProviderOK, OfferedIsAdopted
<1>4. RowsTied'
  <2>1. ASSUME NEW j \in Intents, providerOrder[j] # None
        PROVE  remoteOrder'[providerOrder[j]] = j
    <3>1. providerOrder[j] \in ProviderOrders /\ remoteOrder[providerOrder[j]] = j
      BY <2>1 DEF RowsInv, RowsTied, StoreInv, StoreTypeOK
    <3> QED
      BY <1>1, <3>1, NoneIsNoRow
  <2> QED
    BY <1>1, <1>2, <2>1 DEF RowsInv, RowsTied
<1>5. ReceiptsAreOrders'
  BY <1>1, <1>2 DEF RowsInv, ReceiptsAreOrders, HasOrder
<1>6. OneRemoteOrder'
  BY <1>1 DEF RowsInv, OneRemoteOrder, RemoteOrdersOf
<1>7. Onward
  BY <1>1, <1>2 DEF Onward, HasOrder
<1> QED
  BY <1>1, <1>3, <1>4, <1>5, <1>6, <1>7 DEF RowsInv

\* A payment is attempted, or moves on, at the provider.
LEMMA PaymentMoves ==
  ASSUME RowsInv, NEW p \in Payments, UNCHANGED <<storeVars, offered>>,
         \/ \E po \in ProviderOrders : Attempt(p, po)
         \/ \E status \in EventStatuses : Progress(p, status)
  PROVE  RowsInv' /\ Onward /\ remoteOrder' = remoteOrder
<1>1. UNCHANGED <<orderStatus, providerOrder, paymentStatus, paymentOrder, refundStatus>>
  BY DEF storeVars
<1>2. remoteOrder' = remoteOrder
  BY DEF Attempt, Progress
<1>3. ProviderOK' /\ Onward
  <2>1. ASSUME NEW po \in ProviderOrders, Attempt(p, po)
        PROVE  ProviderOK' /\ Onward
    BY <1>1, <2>1, NoneIsNoRow
       DEF Attempt, RowsInv, ProviderOK, Onward, HasOrder, RemoteStatuses, EventStatuses
  <2>2. ASSUME NEW status \in EventStatuses, Progress(p, status)
        PROVE  ProviderOK' /\ Onward
    <3>1. /\ remotePayment' = [remotePayment EXCEPT ![p] = status]
          /\ announced' = [announced EXCEPT ![p] = announced[p] \cup {status}]
          /\ UNCHANGED <<remoteOrder, remoteFor>>
          /\ remotePayment[p] \notin {"none", "captured"}
      BY <2>2 DEF Progress, MayBecome
    <3>2. /\ remotePayment'[p] = status /\ announced'[p] = announced[p] \cup {status}
          /\ \A q \in Payments \ {p} : /\ remotePayment'[q] = remotePayment[q]
                                       /\ announced'[q] = announced[q]
          /\ remotePayment' \in [Payments -> RemoteStatuses]
          /\ announced' \in [Payments -> SUBSET EventStatuses]
      BY <3>1 DEF RowsInv, ProviderOK, RemoteStatuses, EventStatuses
    <3>3. ProviderOK'
      BY <3>1, <3>2 DEF RowsInv, ProviderOK, EventStatuses
    <3> QED
      BY <1>1, <3>1, <3>2, <3>3 DEF Onward, HasOrder
  <2> QED
    BY <2>1, <2>2
<1>4. RowsTied'
  <2>1. ASSUME NEW q \in Payments, paymentOrder[q] # None
        PROVE  remoteFor'[q] = remoteFor[q]
    <3>1. remoteFor[q] = providerOrder[paymentOrder[q]] /\ providerOrder[paymentOrder[q]] # None
      BY <2>1 DEF RowsInv, RowsTied, StoreInv, RemoteOrdersDisjoint
    <3> QED
      BY <1>3, <3>1 DEF Onward
  <2> QED
    BY <1>1, <1>2, <1>3, <2>1 DEF RowsInv, RowsTied, Onward
<1>5. /\ StoreInv' /\ NoRefunds' /\ ReceiptsAreOrders' /\ OneRemoteOrder' /\ OfferedIsAdopted'
  BY <1>1, <1>2, StutterInv DEF RowsInv, NoRefunds, ReceiptsAreOrders, OneRemoteOrder,
     OfferedIsAdopted, RemoteOrdersOf, HasOrder
<1> QED
  BY <1>2, <1>3, <1>4, <1>5 DEF RowsInv

-----------------------------------------------------------------------------
(* The steps of a request.                                                 *)

\* The parts of the invariant a step needs, by name.
LEMMA CallTyped ==
  ASSUME CheckoutInv, NEW c \in Calls
  PROVE  /\ RowsInv /\ CallOK(c) /\ call[c] \in CallStates
         /\ call[c].live \in BOOLEAN
         /\ call[c].order # None => call[c].order \in ProviderOrders
         /\ call[c].todo \subseteq Payments
BY DEF CheckoutInv, CallsInv, CallStates

LEMMA ArriveCheckoutInv ==
  ASSUME CheckoutInv, NEW c \in Calls, NEW i \in Intents, ArriveCheckout(c, i)
  PROVE  CheckoutInv'
<1>1. RowsInv' /\ Onward /\ OthersMayCreate(c)
  BY CallStep DEF ArriveCheckout
<1>0. PICK live \in BOOLEAN :
        call' = [call EXCEPT ![c] = [Idle EXCEPT !.step = "prepare", !.op = "checkout",
                                                 !.intent = i, !.live = live]]
  BY Zenon DEF ArriveCheckout
<1> DEFINE k == [Idle EXCEPT !.step = "prepare", !.op = "checkout", !.intent = i, !.live = live]
<1>2. call' = [call EXCEPT ![c] = k]
  BY <1>0
<1>3. k \in CallStates /\ k.step = "prepare" /\ k.op = "checkout" /\ k.intent = i /\ k.order = None
  BY IdleTyped DEF CallStates, Steps, Ops
<1> HIDE DEF k
<1>4. call'[c] = k
  BY <1>2 DEF CheckoutInv, CallsInv
<1>5. CallOK(c)'
  BY <1>3, <1>4 DEF CallOK, AfterAdoption
<1> QED
  BY <1>1, <1>2, <1>3, <1>5, CallMoves DEF CheckoutInv

LEMMA ArriveReconcileInv ==
  ASSUME CheckoutInv, NEW c \in Calls, NEW i \in Intents, ArriveReconcile(c, i)
  PROVE  CheckoutInv'
<1>1. RowsInv' /\ Onward /\ OthersMayCreate(c)
  BY CallStep DEF ArriveReconcile
<1>0. PICK live \in BOOLEAN :
        call' = [call EXCEPT ![c] = [Idle EXCEPT !.step = "find", !.op = "reconcile",
                                                 !.intent = i, !.live = live]]
  BY Zenon DEF ArriveReconcile
<1> DEFINE k == [Idle EXCEPT !.step = "find", !.op = "reconcile", !.intent = i, !.live = live]
<1>2. call' = [call EXCEPT ![c] = k]
  BY <1>0
<1>3. k \in CallStates /\ k.step = "find" /\ k.op = "reconcile" /\ k.intent = i /\ k.order = None
  BY IdleTyped DEF CallStates, Steps, Ops
<1> HIDE DEF k
<1>4. call'[c] = k
  BY <1>2 DEF CheckoutInv, CallsInv
<1>5. CallOK(c)'
  BY <1>3, <1>4 DEF CallOK, AfterAdoption
<1> QED
  BY <1>1, <1>2, <1>3, <1>5, CallMoves DEF CheckoutInv

LEMMA ArriveProofInv ==
  ASSUME CheckoutInv, NEW c \in Calls, NEW i \in Intents, NEW p \in Payments, ArriveProof(c, i, p)
  PROVE  CheckoutInv'
<1>1. RowsInv' /\ Onward /\ OthersMayCreate(c) /\ UNCHANGED <<providerOrder, remoteOrder, remoteFor>>
  BY CallStep DEF ArriveProof, providerVars
<1>2. providerOrder[i] # None /\ remoteFor[p] = providerOrder[i]
  BY DEF ArriveProof
<1>3. providerOrder[i] \in ProviderOrders /\ remoteOrder[providerOrder[i]] = i
  BY <1>2 DEF CheckoutInv, RowsInv, RowsTied, StoreInv, StoreTypeOK
<1> DEFINE k == [Idle EXCEPT !.step = "fetch", !.op = "proof", !.intent = i,
                             !.order = providerOrder[i], !.todo = {p}]
<1>4. call' = [call EXCEPT ![c] = k]
  BY DEF ArriveProof
<1>5. /\ k \in CallStates /\ k.step = "fetch" /\ k.op = "proof" /\ k.intent = i
      /\ k.order = providerOrder[i] /\ k.todo = {p}
  BY <1>3, IdleTyped DEF CallStates, Steps, Ops
<1> HIDE DEF k
<1>6. call'[c] = k
  BY <1>4 DEF CheckoutInv, CallsInv
<1>7. CallOK(c)'
  BY <1>1, <1>2, <1>3, <1>5, <1>6 DEF CallOK
<1> QED
  BY <1>1, <1>4, <1>5, <1>7, CallMoves DEF CheckoutInv

\* The transaction that creates the order makes its request the only one to create remotely.
LEMMA PrepareCreatesInv ==
  ASSUME CheckoutInv, NEW c \in Calls, At(c, "prepare"), NEW i \in Intents, i = call[c].intent,
         CreateOrder(i, call[c].live),
         call' = [call EXCEPT ![c].step = "create", ![c].op = "create"],
         UNCHANGED <<providerVars, lapsed, offered>>
  PROVE  CheckoutInv'
<1>1. StoreInv' /\ RowsQuiet
  BY CallTyped, StatusTransactions DEF CheckoutInv, RowsInv, PrepareCheckout
<1>2. RowsInv' /\ Onward /\ UNCHANGED remoteOrder
  BY <1>1, QuietKeeps DEF CheckoutInv, providerVars
<1>3. HasOrder(i)' /\ ~HasOrder(i)
  BY DEF CreateOrder, HasOrder, CheckoutInv, RowsInv, StoreInv, StoreTypeOK
<1>4. \A po \in ProviderOrders : remoteOrder[po] # i
  BY <1>3, NoneIsNoRow DEF CheckoutInv, RowsInv, ReceiptsAreOrders
<1> DEFINE k == [call[c] EXCEPT !.step = "create", !.op = "create"]
<1>5. call' = [call EXCEPT ![c] = k] /\ call[c] \in CallStates
  BY CallTyped
<1>6. k \in CallStates /\ k.step = "create" /\ k.op = "create" /\ k.intent = i /\ k.order = call[c].order
  BY <1>5 DEF CallStates, Steps, Ops
<1> HIDE DEF k
<1>7. /\ call'[c] = k /\ call' \in [Calls -> CallStates]
      /\ \A d \in Calls \ {c} : call'[d] = call[d]
  BY <1>5, <1>6 DEF CheckoutInv, CallsInv
<1>8. CallOK(c)'
  BY <1>2, <1>6, <1>7, KnownKept DEF CallOK, AfterAdoption
<1>9. \A d \in Calls : CallOK(d)'
  BY <1>2, <1>7, <1>8, WaitingCall DEF CheckoutInv, CallsInv
<1>10. ASSUME NEW d \in Calls \ {c}, At(d, "create")'
       PROVE  /\ At(d, "create") /\ call[d].intent \in Intents /\ call[d].intent # i
              /\ HasOrder(call[d].intent) /\ RemoteOrdersOf(call[d].intent) = {}
  <2>1. At(d, "create")
    BY <1>7, <1>10 DEF At
  <2> QED
    BY <1>3, <2>1 DEF CheckoutInv, CallsInv, CreatorsOK, CallOK, At
<1>11. ASSUME NEW d \in Calls, At(d, "create")'
       PROVE  /\ call'[d].intent \in Intents /\ orderStatus'[call'[d].intent] # "none"
              /\ \A po \in ProviderOrders : remoteOrder'[po] # call'[d].intent
              /\ \A e \in Calls \ {d} : At(e, "create")' => call'[e].intent # call'[d].intent
  <2>1. CASE d = c
    BY <1>2, <1>3, <1>4, <1>6, <1>7, <1>10, <2>1 DEF HasOrder
  <2>2. CASE d # c
    <3>1. At(d, "create") /\ call'[d] = call[d] /\ call[d].intent \in Intents /\ call[d].intent # i
      BY <1>7, <1>10, <1>11, <2>2
    <3>2. /\ orderStatus'[call[d].intent] # "none"
          /\ \A po \in ProviderOrders : remoteOrder'[po] # call[d].intent
      BY <1>2, <1>10, <1>11, <2>2 DEF Onward, RemoteOrdersOf, HasOrder
    <3>3. ASSUME NEW e \in Calls \ {d}, At(e, "create")'
          PROVE  call'[e].intent # call[d].intent
      <4>1. CASE e = c
        BY <1>6, <1>7, <3>1, <4>1
      <4>2. CASE e # c
        BY <1>7, <1>10, <3>1, <3>3, <4>2 DEF CheckoutInv, CallsInv, CreatorsOK
      <4> QED
        BY <4>1, <4>2
    <3> QED
      BY <3>1, <3>2, <3>3
  <2> QED
    BY <2>1, <2>2
<1>12. CreatorsOK'
  BY <1>11 DEF CreatorsOK, RemoteOrdersOf, HasOrder, At
<1> QED
  BY <1>2, <1>7, <1>9, <1>12 DEF CheckoutInv, CallsInv

LEMMA PrepareInv ==
  ASSUME CheckoutInv, NEW c \in Calls, Prepare(c)
  PROVE  CheckoutInv'
<1> DEFINE i == call[c].intent
<1>1. At(c, "prepare") /\ i \in Intents /\ UNCHANGED <<providerVars, lapsed, offered>>
  BY CallTyped DEF Prepare, CallOK, At
<1>2. CASE /\ CreateOrder(i, call[c].live)
           /\ call' = [call EXCEPT ![c].step = "create", ![c].op = "create"]
  BY <1>1, <1>2, PrepareCreatesInv
<1>3. CASE ExpireOrder(i, call[c].live) \/ KeepOrder(i, call[c].live)
  <2>1. StoreInv' /\ RowsQuiet
    BY <1>1, <1>3, CallTyped, StatusTransactions DEF CheckoutInv, RowsInv, PrepareCheckout
  <2>2. RowsInv' /\ Onward /\ OthersMayCreate(c) /\ UNCHANGED <<remoteOrder, providerOrder>>
    BY <1>1, <2>1, QuietKeeps, OthersStill DEF CheckoutInv, providerVars, RowsQuiet
  <2>3. call[c] \in CallStates
    BY CallTyped
  <2>4. CASE /\ providerOrder[i] = None
             /\ call' = [call EXCEPT ![c].step = "mark", ![c].op = "create", ![c].marks = 1]
    <3> DEFINE k == [call[c] EXCEPT !.step = "mark", !.op = "create", !.marks = 1]
    <3>1. call' = [call EXCEPT ![c] = k]
      BY <2>4
    <3>2. /\ k \in CallStates /\ k.step = "mark" /\ k.op = "create"
          /\ k.intent = i /\ k.order = call[c].order
      <4>1. 1 \in 0..3
        OBVIOUS
      <4> QED
        BY <2>3, <4>1 DEF CallStates, Steps, Ops
    <3> HIDE DEF k
    <3>3. call'[c] = k
      BY <3>1 DEF CheckoutInv, CallsInv
    <3>4. CallOK(c)'
      BY <1>1, <2>2, <3>2, <3>3, KnownKept DEF CallOK, AfterAdoption
    <3> QED
      BY <2>2, <3>1, <3>2, <3>4, CallMoves DEF CheckoutInv
  <2>5. CASE /\ providerOrder[i] # None
             /\ call' = [call EXCEPT ![c].step = "find", ![c].op = "reopen",
                                     ![c].order = providerOrder[i]]
    <3> DEFINE k == [call[c] EXCEPT !.step = "find", !.op = "reopen", !.order = providerOrder[i]]
    <3>1. call' = [call EXCEPT ![c] = k]
      BY <2>5
    <3>2. providerOrder[i] \in ProviderOrders /\ remoteOrder[providerOrder[i]] = i
      BY <1>1, <2>5 DEF CheckoutInv, RowsInv, RowsTied, StoreInv, StoreTypeOK
    <3>3. /\ k \in CallStates /\ k.step = "find" /\ k.op = "reopen" /\ k.intent = i
          /\ k.order = providerOrder[i]
      BY <2>3, <3>2 DEF CallStates, Steps, Ops
    <3> HIDE DEF k
    <3>4. call'[c] = k
      BY <3>1 DEF CheckoutInv, CallsInv
    <3>5. CallOK(c)'
      BY <1>1, <2>2, <2>5, <3>2, <3>3, <3>4 DEF CallOK, AfterAdoption
    <3> QED
      BY <2>2, <3>1, <3>3, <3>5, CallMoves DEF CheckoutInv
  <2>6. CASE Finish(c)
    BY <2>2, <2>6, Finishes DEF CheckoutInv
  <2> QED
    BY <1>2, <1>3, <2>4, <2>5, <2>6 DEF Prepare
<1> QED
  BY <1>1, <1>2, <1>3 DEF Prepare

LEMMA CreateRemotelyInv ==
  ASSUME CheckoutInv, NEW c \in Calls, CreateRemotely(c)
  PROVE  CheckoutInv'
<1>1. At(c, "create") /\ UNCHANGED <<storeVars, offered>>
  BY DEF CreateRemotely
<1>2. PICK i \in Intents : i = call[c].intent /\ HasOrder(i) /\ RemoteOrdersOf(i) = {}
  BY <1>1, CallTyped DEF CheckoutInv, CallsInv, CreatorsOK, CallOK, At
<1>3. PICK po \in ProviderOrders :
        /\ CreateRemoteOrder(po, i)
        /\ \/ call' = [call EXCEPT ![c].step = "adopt", ![c].order = po]
           \/ Fail(c, 1)
  BY <1>2 DEF CreateRemotely
<1>4. /\ RowsInv' /\ Onward /\ remoteOrder'[po] = i
      /\ \A other \in ProviderOrders \ {po} : remoteOrder'[other] = remoteOrder[other]
  BY <1>1, <1>2, <1>3, CreationKeeps DEF CheckoutInv
<1>5. OthersMayCreate(c)
  BY <1>1, <1>2, <1>4 DEF CheckoutInv, CallsInv, CreatorsOK, OthersMayCreate, RemoteOrdersOf
<1>6. CASE call' = [call EXCEPT ![c].step = "adopt", ![c].order = po]
  <2> DEFINE k == [call[c] EXCEPT !.step = "adopt", !.order = po]
  <2>1. call' = [call EXCEPT ![c] = k] /\ call[c] \in CallStates
    BY <1>6, CallTyped
  <2>2. k \in CallStates /\ k.step = "adopt" /\ k.op = call[c].op /\ k.intent = i /\ k.order = po
    BY <1>2, <2>1 DEF CallStates, Steps
  <2> HIDE DEF k
  <2>3. call'[c] = k /\ po # None
    BY <2>1, NoneIsNoRow DEF CheckoutInv, CallsInv
  <2>4. call[c].op # "reopen"
    BY <1>1, <1>2, KnownKept, <1>4, CallTyped
       DEF CallOK, At, RemoteOrdersOf
  <2>5. CallOK(c)'
    BY <1>4, <2>2, <2>3, <2>4 DEF CallOK, AfterAdoption
  <2> QED
    BY <1>4, <1>5, <2>1, <2>2, <2>5, CallMoves DEF CheckoutInv
<1>7. CASE Fail(c, 1)
  BY <1>1, <1>4, <1>5, <1>7, Fails DEF CheckoutInv, At
<1> QED
  BY <1>3, <1>6, <1>7

\* What a request that holds an order knows of the rows.
LEMMA Holding ==
  ASSUME CheckoutInv, NEW c \in Calls, call[c].order # None
  PROVE  /\ call[c].intent \in Intents /\ call[c].order \in ProviderOrders
         /\ remoteOrder[call[c].order] = call[c].intent
BY CallTyped DEF CallOK

LEMMA AdoptInv ==
  ASSUME CheckoutInv, NEW c \in Calls, Adopt(c)
  PROVE  CheckoutInv'
<1>1. /\ At(c, "adopt") /\ AdoptProviderOrder(call[c].intent, call[c].order)
      /\ UNCHANGED <<providerVars, offered>>
      /\ Goto(c, "offer") \/ Finish(c)
  BY DEF Adopt, Answer
<1>2. /\ call[c].order # None
      /\ call[c].intent \in Intents /\ call[c].order \in ProviderOrders
      /\ remoteOrder[call[c].order] = call[c].intent
  BY <1>1, CallTyped, Holding DEF CallOK, At
<1>3. RowsInv' /\ Onward /\ providerOrder'[call[c].intent] = call[c].order
  BY <1>1, <1>2, AdoptionKeeps, CallTyped
<1>4. OthersMayCreate(c)
  BY <1>1, OthersStill DEF providerVars
<1> QED
  BY <1>1, <1>2, <1>3, <1>4, Answers DEF CheckoutInv, At

LEMMA OfferInv ==
  ASSUME CheckoutInv, NEW c \in Calls, Offer(c)
  PROVE  CheckoutInv'
<1>1. At(c, "offer") /\ offered' = offered \cup {call[c].order} /\ Finish(c)
      /\ UNCHANGED <<storeVars, providerVars>>
  BY DEF Offer
<1>2. /\ call[c].intent \in Intents /\ call[c].order \in ProviderOrders
      /\ call[c].order = providerOrder[call[c].intent]
  BY <1>1, CallTyped, Holding DEF CallOK, At, AfterAdoption
<1>3. OfferedIsAdopted' /\ offered' \subseteq ProviderOrders
  BY <1>1, <1>2 DEF CheckoutInv, RowsInv, OfferedIsAdopted, storeVars
<1>4. /\ StoreInv' /\ NoRefunds' /\ ProviderOK' /\ RowsTied' /\ ReceiptsAreOrders' /\ OneRemoteOrder'
      /\ Onward
  BY <1>1, StutterInv DEF CheckoutInv, RowsInv, NoRefunds, ProviderOK, RowsTied, ReceiptsAreOrders,
     OneRemoteOrder, RemoteOrdersOf, HasOrder, Onward, storeVars, providerVars
<1>5. OthersMayCreate(c)
  BY <1>1, OthersStill DEF providerVars
<1> QED
  BY <1>1, <1>3, <1>4, <1>5, Finishes DEF CheckoutInv, RowsInv

LEMMA FindInv ==
  ASSUME CheckoutInv, NEW c \in Calls, Find(c)
  PROVE  CheckoutInv'
<1>1. /\ RowsInv' /\ Onward /\ OthersMayCreate(c)
      /\ UNCHANGED <<providerOrder, remoteOrder, remoteFor>> /\ At(c, "find")
  BY CallStep DEF Find, providerVars
<1> DEFINE i == call[c].intent
           step == IF providerOrder[i] = None THEN "lookup" ELSE "fetch"
           k == [call[c] EXCEPT !.order = providerOrder[i], !.step = step]
<1>2. call' = [call EXCEPT ![c] = k] /\ call[c] \in CallStates
  BY CallTyped DEF Find
<1>3. /\ i \in Intents /\ call[c].op \in {"reopen", "reconcile"}
      /\ call[c].op = "reopen" => providerOrder[i] # None
  BY <1>1, CallTyped DEF CallOK, At
<1>4. /\ providerOrder[i] \in ProviderOrders \cup {None}
      /\ providerOrder[i] # None => remoteOrder[providerOrder[i]] = i
  BY <1>3 DEF CheckoutInv, RowsInv, RowsTied, StoreInv, StoreTypeOK
<1>5. /\ k \in CallStates /\ k.step = step /\ k.op = call[c].op /\ k.intent = i
      /\ k.order = providerOrder[i]
  BY <1>2, <1>4 DEF CallStates, Steps
<1> HIDE DEF k
<1>6. call'[c] = k
  BY <1>2 DEF CheckoutInv, CallsInv
<1>7. CallOK(c)'
  BY <1>1, <1>3, <1>4, <1>5, <1>6 DEF CallOK, AfterAdoption
<1> QED
  BY <1>1, <1>2, <1>5, <1>7, CallMoves DEF CheckoutInv

LEMMA LookupInv ==
  ASSUME CheckoutInv, NEW c \in Calls, Lookup(c)
  PROVE  CheckoutInv'
<1>1. RowsInv' /\ Onward /\ OthersMayCreate(c) /\ remoteOrder' = remoteOrder /\ At(c, "lookup")
  BY CallStep DEF Lookup, providerVars
<1>2. ASSUME NEW po \in RemoteOrdersOf(call[c].intent),
             call' = [call EXCEPT ![c].step = "recover", ![c].order = po]
      PROVE  CallsInv'
  <2> DEFINE k == [call[c] EXCEPT !.step = "recover", !.order = po]
  <2>1. call' = [call EXCEPT ![c] = k] /\ call[c] \in CallStates
    BY <1>2, CallTyped
  <2>2. /\ k \in CallStates /\ k.step = "recover" /\ k.op = call[c].op
        /\ k.intent = call[c].intent /\ k.order = po
    BY <2>1 DEF CallStates, Steps, RemoteOrdersOf
  <2> HIDE DEF k
  <2>3. call'[c] = k
    BY <2>1 DEF CheckoutInv, CallsInv
  <2>4. /\ call[c].intent \in Intents /\ call[c].op = "reconcile"
        /\ remoteOrder[po] = call[c].intent /\ po # None
    BY <1>1, CallTyped, NoneIsNoRow DEF CallOK, At, RemoteOrdersOf
  <2>5. CallOK(c)'
    BY <1>1, <2>2, <2>3, <2>4 DEF CallOK, AfterAdoption
  <2> QED
    BY <1>1, <2>1, <2>2, <2>5, CallMoves
<1>3. CASE Fail(c, 1)
  <2>1. ~At(c, "idle")
    BY <1>1 DEF At
  <2> QED
    BY <1>1, <1>3, <2>1, Fails DEF CheckoutInv
<1> QED
  BY <1>1, <1>2, <1>3 DEF Lookup, CheckoutInv

LEMMA RecoverInv ==
  ASSUME CheckoutInv, NEW c \in Calls, Recover(c)
  PROVE  CheckoutInv'
<1>1. /\ At(c, "recover") /\ AdoptProviderOrder(call[c].intent, call[c].order)
      /\ UNCHANGED <<providerVars, offered>> /\ Goto(c, "fetch")
  BY DEF Recover
<1>2. /\ call[c].order # None /\ call[c].op = "reconcile"
      /\ call[c].intent \in Intents /\ call[c].order \in ProviderOrders
      /\ remoteOrder[call[c].order] = call[c].intent
  BY <1>1, CallTyped, Holding DEF CallOK, At
<1>3. RowsInv' /\ Onward /\ providerOrder'[call[c].intent] = call[c].order
  BY <1>1, <1>2, AdoptionKeeps, CallTyped
<1>4. OthersMayCreate(c)
  BY <1>1, OthersStill DEF providerVars
<1> QED
  BY <1>1, <1>2, <1>3, <1>4, Goes DEF CheckoutInv, At

\* The payments the provider reports for the order in hand.
LEMMA FetchOrderInv ==
  ASSUME CheckoutInv, NEW c \in Calls, FetchOrder(c)
  PROVE  CheckoutInv'
<1>1. /\ RowsInv' /\ Onward /\ OthersMayCreate(c)
      /\ UNCHANGED <<providerOrder, remoteOrder, remoteFor, announced>>
      /\ At(c, "fetch") /\ call[c].op # "proof" /\ ~At(c, "idle")
  BY CallStep DEF FetchOrder, providerVars, At
<1>2. /\ call[c] \in CallStates /\ call[c].intent \in Intents /\ call[c].order # None
      /\ remoteOrder[call[c].order] = call[c].intent
      /\ call[c].order = providerOrder[call[c].intent]
  BY <1>1, KnownKept, Holding DEF At, AfterAdoption
<1>3. ASSUME NEW step \in {"settle", "settleFailed"}, NEW todo \in SUBSET Payments,
             NEW status \in EventStatuses,
             \A p \in todo : remoteFor[p] = call[c].order /\ remotePayment[p] = status,
             call' = [call EXCEPT ![c].step = step, ![c].todo = todo, ![c].status = status]
      PROVE  CallsInv'
  <2> DEFINE k == [call[c] EXCEPT !.step = step, !.todo = todo, !.status = status]
  <2>1. call' = [call EXCEPT ![c] = k]
    BY <1>3
  <2>2. /\ k \in CallStates /\ k.step = step /\ k.op = call[c].op /\ k.intent = call[c].intent
        /\ k.order = call[c].order /\ k.todo = todo /\ k.status = status
    BY <1>2 DEF CallStates, Steps
  <2> HIDE DEF k
  <2>3. call'[c] = k
    BY <2>1 DEF CheckoutInv, CallsInv
  <2>4. \A p \in todo : status \in announced[p]
    BY <1>3 DEF CheckoutInv, RowsInv, ProviderOK
  <2>5. CallOK(c)'
    BY <1>1, <1>2, <1>3, <2>2, <2>3, <2>4 DEF CallOK
  <2> QED
    BY <1>1, <2>1, <2>2, <2>5, CallMoves
<1> DEFINE payments == RemotePaymentsOf(call[c].order)
           captured == {p \in payments : remotePayment[p] = "captured"}
           failed   == {p \in payments : remotePayment[p] = "failed"}
<1>4. payments \subseteq Payments /\ \A p \in payments : remoteFor[p] = call[c].order
  BY DEF RemotePaymentsOf
<1>5. CASE Goto(c, "unattempted")
  BY <1>1, <1>2, <1>5, Goes DEF CheckoutInv
<1>6. ASSUME NEW p \in captured,
             call' = [call EXCEPT ![c].step = "settle", ![c].todo = {p}, ![c].status = "captured"]
      PROVE  CallsInv'
  <2>1. {p} \in SUBSET Payments /\ \A q \in {p} : remoteFor[q] = call[c].order
                                                  /\ remotePayment[q] = "captured"
    BY <1>4, <1>6
  <2> QED
    BY <1>3, <1>6, <2>1 DEF EventStatuses
<1>7. CASE /\ failed = payments
           /\ call' = [call EXCEPT ![c].step = "settleFailed", ![c].todo = payments,
                                   ![c].status = "failed"]
  <2>1. \A q \in payments : remotePayment[q] = "failed"
    BY <1>7
  <2> QED
    BY <1>1, <1>3, <1>4, <1>7, <2>1 DEF EventStatuses, CheckoutInv
<1>8. CASE Fail(c, 2)
  BY <1>1, <1>8, Fails DEF CheckoutInv
<1> QED
  BY <1>1, <1>5, <1>6, <1>7, <1>8 DEF FetchOrder, CheckoutInv

LEMMA ConfirmUnattemptedInv ==
  ASSUME CheckoutInv, NEW c \in Calls, ConfirmUnattempted(c)
  PROVE  CheckoutInv'
<1>1. /\ At(c, "unattempted") /\ ~At(c, "idle") /\ UNCHANGED <<providerVars, lapsed, offered>>
      /\ ConfirmUnattemptedOrder(call[c].intent, call[c].order, call[c].live)
  BY DEF ConfirmUnattempted, At
<1>2. /\ call[c].order # None /\ call[c].order = providerOrder[call[c].intent]
      /\ call[c].intent \in Intents /\ call[c].order \in ProviderOrders /\ call[c].live \in BOOLEAN
  BY <1>1, KnownKept, CallTyped, Holding DEF CallOK, At, AfterAdoption
<1>3. StoreInv' /\ RowsQuiet
  BY <1>1, <1>2, StatusTransactions DEF CheckoutInv, RowsInv
<1>4. RowsInv' /\ Onward /\ OthersMayCreate(c) /\ UNCHANGED providerOrder
  BY <1>1, <1>3, QuietKeeps, OthersStill DEF CheckoutInv, providerVars, RowsQuiet
<1>5. Fail(c, 1) \/ Goto(c, "offer") \/ Finish(c)
  BY DEF ConfirmUnattempted, Answer
<1>6. CASE Fail(c, 1)
  BY <1>1, <1>4, <1>6, Fails DEF CheckoutInv
<1>7. CASE Goto(c, "offer") \/ Finish(c)
  BY <1>1, <1>2, <1>4, <1>7, Answers DEF CheckoutInv
<1> QED
  BY <1>5, <1>6, <1>7

\* What a request settles, the provider announced.
LEMMA Settles ==
  ASSUME CheckoutInv, NEW c \in Calls, At(c, "settle") \/ At(c, "settleFailed"),
         NEW p \in call[c].todo, Settle(c, p), UNCHANGED <<providerVars, offered>>
  PROVE  /\ RowsInv' /\ Onward /\ OthersMayCreate(c) /\ providerOrder' = providerOrder
         /\ Event(c, p) \in ProviderEvents /\ EventId(p, call[c].status) \in EventIds
<1>1. CallOK(c) /\ RowsInv /\ p \in Payments
  BY CallTyped
<1>2. /\ call[c].order # None /\ call[c].intent \in Intents /\ call[c].order \in ProviderOrders
      /\ remoteFor[p] = call[c].order /\ call[c].status \in announced[p]
  BY <1>1, Holding DEF CallOK, At, AfterAdoption
<1>3. call[c].status \in EventStatuses
  BY <1>1, <1>2 DEF RowsInv, ProviderOK
<1> DEFINE m == Event(c, p)
<1>4. /\ m \in ProviderEvents /\ m.payment = p /\ m.order = call[c].order
      /\ m.status = call[c].status
  BY <1>1, <1>2, <1>3 DEF Event, ProviderEvents
<1>5. EventId(p, call[c].status) \in EventIds
  BY <1>1, <1>3, EventIdsNamed
<1>6. RecordProviderEvent(EventId(p, call[c].status), m, call[c].intent)
  BY DEF Settle
<1> HIDE DEF m
<1>7. RowsInv' /\ Onward /\ providerOrder' = providerOrder
  BY <1>1, <1>2, <1>4, <1>5, <1>6, EventKeeps
<1>8. OthersMayCreate(c)
  BY OthersStill DEF providerVars
<1> QED
  BY <1>4, <1>5, <1>7, <1>8 DEF m

LEMMA SettlePaymentInv ==
  ASSUME CheckoutInv, NEW c \in Calls, SettlePayment(c)
  PROVE  CheckoutInv'
<1>1. /\ At(c, "settle") /\ ~At(c, "idle") /\ UNCHANGED <<providerVars, lapsed, offered>>
      /\ \E p \in call[c].todo : Settle(c, p)
  BY DEF SettlePayment, At
<1>2. RowsInv' /\ Onward /\ OthersMayCreate(c) /\ providerOrder' = providerOrder
  BY <1>1, Settles
<1>3. call[c].order # None /\ call[c].order = providerOrder[call[c].intent]
  BY <1>1, KnownKept, <1>2 DEF At, AfterAdoption
<1>4. Goto(c, "offer") \/ Finish(c)
  BY DEF SettlePayment, Answer
<1> QED
  BY <1>1, <1>2, <1>3, <1>4, Answers DEF CheckoutInv

LEMMA SettleFailedInv ==
  ASSUME CheckoutInv, NEW c \in Calls, SettleFailed(c)
  PROVE  CheckoutInv'
<1>1. At(c, "settleFailed") /\ UNCHANGED <<providerVars, lapsed, offered>>
  BY DEF SettleFailed
<1>2. PICK p \in call[c].todo :
        /\ Settle(c, p)
        /\ call' = [call EXCEPT ![c].todo = @ \ {p},
                                ![c].step = IF call[c].todo = {p} THEN "confirmFailed" ELSE @]
  BY DEF SettleFailed
<1>3. RowsInv' /\ Onward /\ OthersMayCreate(c) /\ providerOrder' = providerOrder
  BY <1>1, <1>2, Settles
<1> DEFINE step == IF call[c].todo = {p} THEN "confirmFailed" ELSE call[c].step
           k == [call[c] EXCEPT !.todo = call[c].todo \ {p}, !.step = step]
<1>4. call' = [call EXCEPT ![c] = k] /\ call[c] \in CallStates
  BY <1>2, CallTyped
<1>5. call[c].step = "settleFailed" /\ step \in {"settleFailed", "confirmFailed"}
  BY <1>1 DEF At
<1>6. /\ k \in CallStates /\ k.step = step /\ k.op = call[c].op /\ k.intent = call[c].intent
      /\ k.order = call[c].order /\ k.todo = call[c].todo \ {p} /\ k.status = call[c].status
  <2>1. call[c].todo \ {p} \in SUBSET Payments
    BY CallTyped
  <2> QED
    BY <1>4, <1>5, <2>1 DEF CallStates, Steps
<1> HIDE DEF k, step
<1>7. call'[c] = k
  BY <1>4 DEF CheckoutInv, CallsInv
<1>8. CallOK(c) /\ UNCHANGED <<remoteOrder, remoteFor, announced>>
  BY <1>1, CallTyped DEF providerVars
<1>9. CallOK(c)'
  BY <1>3, <1>5, <1>6, <1>7, <1>8 DEF CallOK, AfterAdoption
<1> QED
  BY <1>3, <1>4, <1>5, <1>6, <1>9, CallMoves DEF CheckoutInv

LEMMA ConfirmFailedInv ==
  ASSUME CheckoutInv, NEW c \in Calls, ConfirmFailed(c)
  PROVE  CheckoutInv'
<1>1. /\ At(c, "confirmFailed") /\ ~At(c, "idle") /\ UNCHANGED <<providerVars, lapsed, offered>>
      /\ ConfirmFailedOrder(call[c].intent, call[c].order)
  BY DEF ConfirmFailed, At
<1>2. /\ call[c].order # None /\ call[c].order = providerOrder[call[c].intent]
      /\ call[c].intent \in Intents /\ call[c].order \in ProviderOrders
  BY <1>1, KnownKept, CallTyped, Holding DEF CallOK, At, AfterAdoption
<1>3. StoreInv' /\ RowsQuiet
  BY <1>1, <1>2, StatusTransactions DEF CheckoutInv, RowsInv
<1>4. RowsInv' /\ Onward /\ OthersMayCreate(c) /\ UNCHANGED providerOrder
  BY <1>1, <1>3, QuietKeeps, OthersStill DEF CheckoutInv, providerVars, RowsQuiet
<1>5. Goto(c, "offer") \/ Finish(c)
  BY DEF ConfirmFailed, Answer
<1> QED
  BY <1>1, <1>2, <1>4, <1>5, Answers DEF CheckoutInv

\* The provider's status of the payment a customer proved.
LEMMA FetchProofInv ==
  ASSUME CheckoutInv, NEW c \in Calls, FetchProof(c)
  PROVE  CheckoutInv'
<1>1. /\ RowsInv' /\ Onward /\ OthersMayCreate(c)
      /\ UNCHANGED <<providerOrder, remoteOrder, remoteFor, announced>>
      /\ At(c, "fetch") /\ call[c].op = "proof" /\ ~At(c, "idle")
  BY CallStep DEF FetchProof, providerVars, At
<1>2. CallOK(c) /\ call[c] \in CallStates /\ \A q \in call[c].todo : q \in Payments
  BY CallTyped
<1>3. PICK p \in call[c].todo :
        IF remotePayment[p] \in EventStatuses
        THEN call' = [call EXCEPT ![c].step = "settle", ![c].status = remotePayment[p]]
        ELSE Fail(c, 2)
  BY DEF FetchProof
<1>4. CASE remotePayment[p] \in EventStatuses
  <2> DEFINE k == [call[c] EXCEPT !.step = "settle", !.status = remotePayment[p]]
  <2>1. call' = [call EXCEPT ![c] = k]
    BY <1>3, <1>4
  <2>2. /\ k \in CallStates /\ k.step = "settle" /\ k.op = call[c].op /\ k.intent = call[c].intent
        /\ k.order = call[c].order /\ k.todo = call[c].todo /\ k.status = remotePayment[p]
    BY <1>2, <1>4 DEF CallStates, Steps
  <2> HIDE DEF k
  <2>3. call'[c] = k
    BY <2>1 DEF CheckoutInv, CallsInv
  <2>4. remotePayment[p] \in announced[p]
    BY <1>2, <1>4 DEF CheckoutInv, RowsInv, ProviderOK
  <2>5. \A q \in call[c].todo : q = p
    BY <1>1, <1>2 DEF CallOK, At
  <2>6. CallOK(c)'
    BY <1>1, <1>2, <2>2, <2>3, <2>4, <2>5 DEF CallOK, At, AfterAdoption
  <2> QED
    BY <1>1, <2>1, <2>2, <2>6, CallMoves DEF CheckoutInv
<1>5. CASE remotePayment[p] \notin EventStatuses
  BY <1>1, <1>3, <1>5, Fails DEF CheckoutInv
<1> QED
  BY <1>4, <1>5

LEMMA MarkInv ==
  ASSUME CheckoutInv, NEW c \in Calls, Mark(c)
  PROVE  CheckoutInv'
<1>1. /\ At(c, "mark") /\ ~At(c, "idle") /\ UNCHANGED <<providerVars, lapsed, offered>>
      /\ MarkOrderAmbiguous(call[c].intent) \/ UNCHANGED storeVars
  BY DEF Mark, At
<1>2. call[c].intent \in Intents /\ call[c] \in CallStates
  BY <1>1, CallTyped DEF CallOK, At
<1>3. StoreInv' /\ RowsQuiet
  <2>1. CASE MarkOrderAmbiguous(call[c].intent)
    BY <1>2, <2>1, StatusTransactions DEF CheckoutInv, RowsInv
  <2>2. CASE UNCHANGED storeVars
    BY <2>2, StutterInv DEF CheckoutInv, RowsInv, RowsQuiet, storeVars, HasOrder
  <2> QED
    BY <1>1, <2>1, <2>2
<1>4. RowsInv' /\ Onward /\ OthersMayCreate(c) /\ UNCHANGED <<providerOrder, remoteOrder>>
  BY <1>1, <1>3, QuietKeeps, OthersStill DEF CheckoutInv, providerVars, RowsQuiet
<1>5. CASE call[c].marks > 1 /\ call' = [call EXCEPT ![c].marks = @ - 1]
  <2> DEFINE k == [call[c] EXCEPT !.marks = call[c].marks - 1]
  <2>1. call' = [call EXCEPT ![c] = k]
    BY <1>5
  <2>2. call[c].marks - 1 \in 0..3
    BY <1>2, <1>5 DEF CallStates
  <2>3. /\ k \in CallStates /\ k.step = "mark" /\ k.op = call[c].op /\ k.intent = call[c].intent
        /\ k.order = call[c].order
    BY <1>1, <1>2, <2>2 DEF CallStates, At
  <2> HIDE DEF k
  <2>4. call'[c] = k
    BY <2>1 DEF CheckoutInv, CallsInv
  <2>5. CallOK(c)'
    BY <1>2, <1>4, <2>3, <2>4, KnownKept DEF CallOK, AfterAdoption
  <2> QED
    BY <1>4, <2>1, <2>3, <2>5, CallMoves DEF CheckoutInv
<1>6. CASE IF call[c].op = "reopen" THEN Goto(c, "reread") ELSE Finish(c)
  <2>1. CASE call[c].op = "reopen"
    <3>1. call[c].order # None /\ call[c].order = providerOrder'[call[c].intent]
      BY <1>4, <2>1, KnownKept
    <3> QED
      BY <1>1, <1>4, <1>6, <2>1, <3>1, Goes DEF CheckoutInv
  <2>2. CASE call[c].op # "reopen"
    BY <1>4, <1>6, <2>2, Finishes DEF CheckoutInv
  <2> QED
    BY <2>1, <2>2
<1> QED
  BY <1>5, <1>6 DEF Mark

LEMMA RereadInv ==
  ASSUME CheckoutInv, NEW c \in Calls, Reread(c)
  PROVE  CheckoutInv'
<1>1. /\ RowsInv' /\ Onward /\ OthersMayCreate(c) /\ providerOrder' = providerOrder
      /\ At(c, "reread") /\ ~At(c, "idle")
  BY CallStep DEF Reread, At
<1>2. call[c].order # None /\ call[c].order = providerOrder'[call[c].intent]
  BY <1>1, KnownKept DEF At, AfterAdoption
<1>3. Goto(c, "offer") \/ Finish(c)
  BY DEF Reread, Answer
<1> QED
  BY <1>1, <1>2, <1>3, Answers DEF CheckoutInv

\* An await throws, or the process dies.
LEMMA EndsInv ==
  ASSUME CheckoutInv, NEW c \in Calls, Throw(c) \/ Crash(c)
  PROVE  CheckoutInv'
<1>1. RowsInv' /\ Onward /\ OthersMayCreate(c) /\ ~At(c, "idle")
  BY CallStep DEF Throw, Crash
<1>2. Fail(c, 1) \/ Fail(c, 0) \/ Finish(c)
  BY DEF Throw, Crash
<1>3. CASE Fail(c, 1) \/ Fail(c, 0)
  BY <1>1, <1>3, Fails DEF CheckoutInv
<1>4. CASE Finish(c)
  BY <1>1, <1>4, Finishes DEF CheckoutInv
<1> QED
  BY <1>2, <1>3, <1>4

-----------------------------------------------------------------------------
(* Everything else.                                                        *)

\* A webhook is delivered.
LEMMA WebhookInv ==
  ASSUME CheckoutInv, NEW i \in Intents, NEW p \in Payments, NEW status \in EventStatuses,
         Webhook(i, p, status)
  PROVE  /\ CheckoutInv'
         /\ [payment |-> p, order |-> remoteFor[p], status |-> status, exact |-> TRUE]
              \in ProviderEvents
<1> DEFINE m == [payment |-> p, order |-> remoteFor[p], status |-> status, exact |-> TRUE]
<1>1. /\ status \in announced[p] /\ RecordProviderEvent(EventId(p, status), m, i)
      /\ UNCHANGED <<providerVars, lapsed, offered, call>>
  BY DEF Webhook
<1>2. remoteFor[p] \in ProviderOrders
  BY <1>1 DEF CheckoutInv, RowsInv, ProviderOK
<1>3. /\ m \in ProviderEvents /\ m.payment = p /\ m.order = remoteFor[p] /\ m.status = status
      /\ EventId(p, status) \in EventIds
  BY <1>2, EventIdsNamed DEF ProviderEvents
<1> HIDE DEF m
<1>4. RowsInv' /\ Onward
  BY <1>1, <1>3, EventKeeps DEF CheckoutInv
<1>5. CheckoutInv'
  BY <1>1, <1>4, CallsStay DEF CheckoutInv, providerVars
<1> QED
  BY <1>3, <1>5 DEF m

\* A customer pays, and the provider decides.
LEMMA PaymentInv ==
  ASSUME CheckoutInv, NEW p \in Payments,
         \/ \E po \in ProviderOrders : CustomerAttempts(p, po)
         \/ \E status \in EventStatuses : ProviderProgress(p, status)
  PROVE  CheckoutInv'
<1>1. /\ UNCHANGED <<storeVars, offered, call>>
      /\ \/ \E po \in ProviderOrders : Attempt(p, po)
         \/ \E status \in EventStatuses : Progress(p, status)
  BY DEF CustomerAttempts, ProviderProgress
<1>2. RowsInv' /\ Onward /\ UNCHANGED remoteOrder
  BY <1>1, PaymentMoves DEF CheckoutInv
<1> QED
  BY <1>1, <1>2, CallsStay DEF CheckoutInv

\* An intent is completed or expires.
LEMMA LifeInv ==
  ASSUME CheckoutInv, NEW i \in Intents, Lapse(i) \/ IntentLife(i)
  PROVE  CheckoutInv'
<1>1. UNCHANGED <<providerVars, offered, call>>
  BY DEF Lapse, IntentLife
<1>2. StoreInv' /\ RowsQuiet
  <2>1. CASE Lapse(i)
    BY <2>1, StutterInv DEF Lapse, CheckoutInv, RowsInv, RowsQuiet, storeVars, HasOrder
  <2>2. CASE IntentLife(i)
    BY <2>2, StatusTransactions DEF IntentLife, CheckoutInv, RowsInv
  <2> QED
    BY <2>1, <2>2
<1>3. RowsInv' /\ Onward /\ UNCHANGED remoteOrder
  BY <1>1, <1>2, QuietKeeps DEF CheckoutInv, providerVars
<1> QED
  BY <1>1, <1>3, CallsStay DEF CheckoutInv

-----------------------------------------------------------------------------
(* The theorems.                                                           *)

LEMMA CheckoutInitInv == ServiceInit => CheckoutInv
<1> SUFFICES ASSUME ServiceInit PROVE CheckoutInv
  OBVIOUS
<1> USE DEF ServiceInit, ProviderInit
<1>1. StoreInv
  BY InitInv
<1>2. NoRefunds /\ ReceiptsAreOrders /\ OneRemoteOrder
  BY NoneIsNoRow DEF StoreInit, NoRefunds, ReceiptsAreOrders, OneRemoteOrder, RemoteOrdersOf
<1>3. ProviderOK
  BY DEF ProviderOK, RemoteStatuses, EventStatuses
<1>4. RowsTied /\ OfferedIsAdopted /\ offered \subseteq ProviderOrders
  BY DEF StoreInit, RowsTied, OfferedIsAdopted
<1>5. CallsInv
  BY IdleTyped DEF CallsInv, CallOK, CreatorsOK, At, AfterAdoption
<1> QED
  BY <1>1, <1>2, <1>3, <1>4, <1>5 DEF CheckoutInv, RowsInv

LEMMA ServeInv ==
  ASSUME CheckoutInv, NEW c \in Calls, Serve(c)
  PROVE  CheckoutInv'
BY PrepareInv, CreateRemotelyInv, AdoptInv, OfferInv, FindInv, LookupInv, RecoverInv,
   FetchOrderInv, ConfirmUnattemptedInv, SettlePaymentInv, SettleFailedInv, ConfirmFailedInv,
   FetchProofInv, MarkInv, RereadInv, EndsInv DEF Serve

LEMMA CheckoutStutter ==
  ASSUME CheckoutInv, UNCHANGED serviceVars
  PROVE  CheckoutInv'
<1>1. StoreInv' /\ RowsQuiet
  BY StutterInv DEF serviceVars, CheckoutInv, RowsInv, RowsQuiet, storeVars, HasOrder
<1>2. RowsInv' /\ Onward /\ UNCHANGED <<remoteOrder, call>>
  BY <1>1, QuietKeeps DEF CheckoutInv, serviceVars, providerVars
<1> QED
  BY <1>2, CallsStay DEF CheckoutInv

LEMMA CheckoutNextInv == CheckoutInv /\ [ServiceNext]_serviceVars => CheckoutInv'
<1> SUFFICES ASSUME CheckoutInv, [ServiceNext]_serviceVars PROVE CheckoutInv'
  OBVIOUS
<1>1. CASE UNCHANGED serviceVars
  BY <1>1, CheckoutStutter
<1>2. CASE ServiceNext
  BY <1>2, ServeInv, ArriveCheckoutInv, ArriveReconcileInv, ArriveProofInv, WebhookInv, PaymentInv,
     LifeInv DEF ServiceNext
<1> QED
  BY <1>1, <1>2

\* The rows, the provider's orders and payments and the requests in flight agree at all
\* times (payment.ts over payment-repository.ts).
THEOREM CheckoutInvariant == ServiceSpec => []CheckoutInv
BY CheckoutInitInv, CheckoutNextInv, PTL DEF ServiceSpec

\* A step of a request is a transaction of the repository, or changes no row.
LEMMA ServeIsOfStore ==
  ASSUME CheckoutInv, NEW c \in Calls, Serve(c)
  PROVE  OrderStep \/ UNCHANGED storeVars
<1> DEFINE i == call[c].intent
           po == call[c].order
<1>1. /\ ~At(c, "idle") => i \in Intents
      /\ po # None => po \in ProviderOrders
      /\ call[c].live \in BOOLEAN
  BY CallTyped DEF CallOK, At
<1>2. call[c].step \in AfterAdoption \cup {"adopt", "recover"} => po # None
  BY CallTyped DEF CallOK
<1>3. CASE Prepare(c)
  <2>1. i \in Intents /\ PrepareCheckout(i, call[c].live)
    BY <1>1, <1>3 DEF Prepare, PrepareCheckout, At
  <2> QED
    BY <1>1, <2>1 DEF OrderStep
<1>4. CASE Adopt(c) \/ Recover(c)
  <2>1. i \in Intents /\ po \in ProviderOrders /\ AdoptProviderOrder(i, po)
    BY <1>1, <1>2, <1>4 DEF Adopt, Recover, At
  <2> QED
    BY <2>1 DEF OrderStep
<1>5. CASE ConfirmUnattempted(c) \/ ConfirmFailed(c)
  <2>1. /\ i \in Intents /\ po \in ProviderOrders
        /\ ConfirmUnattemptedOrder(i, po, call[c].live) \/ ConfirmFailedOrder(i, po)
    BY <1>1, <1>2, <1>5 DEF ConfirmUnattempted, ConfirmFailed, At, AfterAdoption
  <2> QED
    BY <1>1, <2>1 DEF OrderStep
<1>6. CASE SettlePayment(c) \/ SettleFailed(c)
  <2>1. PICK p \in call[c].todo : Settle(c, p)
    BY <1>6 DEF SettlePayment, SettleFailed
  <2>2. i \in Intents /\ Event(c, p) \in ProviderEvents /\ EventId(p, call[c].status) \in EventIds
    BY <1>1, <1>6, <2>1, Settles DEF SettlePayment, SettleFailed, At
  <2> QED
    BY <2>1, <2>2 DEF OrderStep, Settle
<1>7. CASE Mark(c)
  <2>1. i \in Intents
    BY <1>1, <1>7 DEF Mark, At
  <2> QED
    BY <1>7, <2>1 DEF Mark, OrderStep
<1>8. CASE \/ CreateRemotely(c) \/ Offer(c) \/ Find(c) \/ Lookup(c) \/ FetchOrder(c)
           \/ FetchProof(c) \/ Reread(c) \/ Throw(c) \/ Crash(c)
  BY <1>8 DEF CreateRemotely, Offer, Find, Lookup, FetchOrder, FetchProof, Reread, Throw, Crash
<1> QED
  BY <1>3, <1>4, <1>5, <1>6, <1>7, <1>8 DEF Serve

LEMMA StepOfStore == CheckoutInv /\ [ServiceNext]_serviceVars => [StoreNext]_storeVars
<1> SUFFICES ASSUME CheckoutInv, [ServiceNext]_serviceVars PROVE OrderStep \/ UNCHANGED storeVars
  BY DEF StoreNext
<1>1. CASE UNCHANGED serviceVars
  BY <1>1 DEF serviceVars
<1>2. ASSUME NEW c \in Calls, NEW i \in Intents,
             \/ ArriveCheckout(c, i) \/ ArriveReconcile(c, i)
             \/ \E p \in Payments : ArriveProof(c, i, p)
      PROVE  UNCHANGED storeVars
  BY <1>2 DEF ArriveCheckout, ArriveReconcile, ArriveProof
<1>3. ASSUME NEW i \in Intents, NEW p \in Payments, NEW status \in EventStatuses,
             Webhook(i, p, status)
      PROVE  OrderStep
  <2>1. EventId(p, status) \in EventIds
    BY EventIdsNamed
  <2> QED
    BY <1>3, <2>1, WebhookInv DEF Webhook, OrderStep
<1>4. ASSUME NEW p \in Payments,
             \/ \E po \in ProviderOrders : CustomerAttempts(p, po)
             \/ \E status \in EventStatuses : ProviderProgress(p, status)
      PROVE  UNCHANGED storeVars
  BY <1>4 DEF CustomerAttempts, ProviderProgress
<1>5. ASSUME NEW i \in Intents, Lapse(i) \/ IntentLife(i)
      PROVE  OrderStep \/ UNCHANGED storeVars
  BY <1>5 DEF Lapse, IntentLife, OrderStep
<1> QED
  BY <1>1, <1>2, <1>3, <1>4, <1>5, ServeIsOfStore DEF ServiceNext

\* The payment module is a client of the repository: whatever requests, webhooks, the
\* provider and crashes do, the rows change by its transactions, so that all that is proved
\* of PaymentStore holds of them (payment.ts over payment-repository.ts).
THEOREM CheckoutUsesTheStore == ServiceSpec => StoreSpec
<1>1. ServiceInit => StoreInit
  BY DEF ServiceInit
<1>2. CheckoutInv /\ [ServiceNext]_serviceVars => [StoreNext]_storeVars
  BY StepOfStore
<1> QED
  BY <1>1, <1>2, CheckoutInvariant, PTL DEF ServiceSpec, StoreSpec

\* No purchase gets a second remote order, whatever requests race, responses are lost and
\* processes die (createCheckout).
THEOREM OneRemoteOrderEver == ServiceSpec => []OneRemoteOrder
BY CheckoutInvariant, PTL DEF CheckoutInv, RowsInv

\* The rows claim no more than the provider announced (reconcile, proveCheckout,
\* processWebhook).
THEOREM RowsNeverRunAhead == ServiceSpec => []RowsFollowProvider
<1>1. CheckoutInv => RowsFollowProvider
  BY RowsFollow DEF CheckoutInv
<1> QED
  BY <1>1, CheckoutInvariant, PTL

\* A customer is only handed a checkout whose captures can be booked (createCheckout).
THEOREM OffersAreAdopted == ServiceSpec => []OfferedIsAdopted
BY CheckoutInvariant, PTL DEF CheckoutInv, RowsInv

\* And so every run of the service is one of the abstract purchase: whatever a customer is
\* charged is delivered, once (payment.ts over payment-repository.ts).
THEOREM CheckoutImplementsPurchase == ServiceSpec => ImplementsPurchase
BY CheckoutUsesTheStore, StoreImplementsPurchase, PTL
=============================================================================
