-------------------------- MODULE CheckoutService ---------------------------
(***************************************************************************)
(* The payment module (packages/application/src/payment.ts) against the    *)
(* repository and the provider: createCheckout, reconcile, proveCheckout   *)
(* and processWebhook, one action per await.  Between two steps of a call  *)
(* any other call, webhook or provider transition may run, and the process *)
(* may die.                                                                *)
(*                                                                         *)
(* The calls are those of payment-http.ts: a customer's checkout and proof *)
(* and an operator's reconcile.  The clock of a call is read when it       *)
(* arrives, so "live" (the intent has not expired) can be stale later on.  *)
(***************************************************************************)
EXTENDS PaymentStore, PaymentProvider

CONSTANT Calls   \* the requests that can be in flight at once

\* The id of an event is a digest of the payment and its status (or the provider's
\* delivery id).  The prefix that keeps the three sources apart is left out: a
\* redelivered row is accepted like a fresh one, so sharing rows changes no outcome.
EventId(p, status) == <<p, status>>

ASSUME EventIdsNamed == \A p \in Payments, status \in EventStatuses : EventId(p, status) \in EventIds

VARIABLES
  lapsed,   \* the intents whose expires_at has passed
  offered,  \* the remote orders whose checkout reached a customer
  call      \* the state of each request in flight

serviceVars == <<storeVars, providerVars, lapsed, offered, call>>

Steps == {"idle", "prepare", "create", "adopt", "find", "lookup", "recover", "fetch",
          "unattempted", "settle", "settleFailed", "confirmFailed", "mark", "reread", "offer"}

\* A checkout request becomes a "create" (it may only create, or gives up) or a
\* "reopen" (it reconciles an order that has a remote order already).
Ops == {"none", "checkout", "create", "reopen", "reconcile", "proof"}

\* live: now < expires_at at arrival.  order: the remote order in hand.  todo: the
\* payments still to settle, with the status the provider gave for them.  marks: the
\* markOrderAmbiguous UPDATEs an error still has to pass.
CallStates ==
  [step : Steps, op : Ops, intent : Intents \cup {None}, live : BOOLEAN,
   order : ProviderOrders \cup {None}, todo : SUBSET Payments,
   status : EventStatuses \cup {"none"}, marks : 0..3]

Idle == [step |-> "idle", op |-> "none", intent |-> None, live |-> FALSE, order |-> None,
         todo |-> {}, status |-> "none", marks |-> 0]

ServiceInit ==
  /\ StoreInit
  /\ ProviderInit
  /\ lapsed = {}
  /\ offered = {}
  /\ call = [c \in Calls |-> Idle]

-----------------------------------------------------------------------------
(* Where a call goes next *)

At(c, step) == call[c].step = step

Goto(c, step) == call' = [call EXCEPT ![c].step = step]

Finish(c) == call' = [call EXCEPT ![c] = Idle]

\* createCheckout's answer: a checkout when the order it read is payable.  The other
\* operations answer with the order alone.
Answer(c, status) ==
  IF Payable(status) /\ call[c].op \in {"create", "reopen"} THEN Goto(c, "offer") ELSE Finish(c)

\* An error after which `count` UPDATEs to 'ambiguous' are due: those of reconcile's or
\* proveCheckout's catch block, and of createCheckout's own when it reconciles.
Fail(c, count) ==
  LET due == IF call[c].op = "reopen" THEN count + 1 ELSE count
  IN IF due = 0 THEN Finish(c)
     ELSE call' = [call EXCEPT ![c].step = "mark", ![c].marks = due]

Event(c, p) == [payment |-> p, order |-> call[c].order, status |-> call[c].status, exact |-> TRUE]

Settle(c, p) == RecordProviderEvent(EventId(p, call[c].status), Event(c, p), call[c].intent)

-----------------------------------------------------------------------------
(* Arrivals: the clock is read here (payment-http.ts).                     *)

ArriveCheckout(c, i) ==
  /\ At(c, "idle")
  /\ call' = [call EXCEPT ![c] = [Idle EXCEPT !.step = "prepare", !.op = "checkout",
                                              !.intent = i, !.live = i \notin lapsed]]
  /\ UNCHANGED <<storeVars, providerVars, lapsed, offered>>

ArriveReconcile(c, i) ==
  /\ At(c, "idle")
  /\ HasOrder(i)
  /\ call' = [call EXCEPT ![c] = [Idle EXCEPT !.step = "find", !.op = "reconcile",
                                              !.intent = i, !.live = i \notin lapsed]]
  /\ UNCHANGED <<storeVars, providerVars, lapsed, offered>>

\* The browser holds a signature for a payment only once the provider accepted it;
\* proveCheckout checks it against the stored remote order, which never changes.
ArriveProof(c, i, p) ==
  /\ At(c, "idle")
  /\ providerOrder[i] # None
  /\ remoteFor[p] = providerOrder[i]
  /\ announced[p] \cap {"authorized", "captured"} # {}
  /\ call' = [call EXCEPT ![c] = [Idle EXCEPT !.step = "fetch", !.op = "proof", !.intent = i,
                                              !.order = providerOrder[i], !.todo = {p}]]
  /\ UNCHANGED <<storeVars, providerVars, lapsed, offered>>

-----------------------------------------------------------------------------
(* createCheckout *)

\* Mutant: a retry of an order without remote order creates one.
Prepare_RetryCreates(c) ==
  LET i == call[c].intent
      live == call[c].live
  IN /\ At(c, "prepare")
     /\ PrepareCheckout(i, live)
     /\ IF providerOrder[i] = None
          THEN call' = [call EXCEPT ![c].step = "create", ![c].op = "create"]
        ELSE IF Unresolved(i) /\ orderStatus'[i] # "expired"
          THEN call' = [call EXCEPT ![c].step = "find", ![c].op = "reopen",
                                    ![c].order = providerOrder[i]]
        ELSE Finish(c)
     /\ UNCHANGED <<providerVars, lapsed, offered>>

\* prepareCheckout and the branches on what it returns.  Only the transaction that
\* created the order goes on to create remotely.
Prepare(c) ==
  LET i == call[c].intent
      live == call[c].live
  IN /\ At(c, "prepare")
     /\ \/ /\ CreateOrder(i, live)
           /\ call' = [call EXCEPT ![c].step = "create", ![c].op = "create"]
        \/ /\ ExpireOrder(i, live) \/ KeepOrder(i, live)
           /\ IF providerOrder[i] = None
                THEN call' = [call EXCEPT ![c].step = "mark", ![c].op = "create", ![c].marks = 1]
              ELSE IF Unresolved(i) /\ orderStatus'[i] # "expired"
                THEN call' = [call EXCEPT ![c].step = "find", ![c].op = "reopen",
                                             ![c].order = providerOrder[i]]
              ELSE Finish(c)
     /\ UNCHANGED <<providerVars, lapsed, offered>>

\* Mutant: the remote order is offered before it is adopted.
CreateRemotely_OffersAtOnce(c) ==
  /\ At(c, "create")
  /\ \E po \in ProviderOrders :
       /\ CreateRemoteOrder(po, call[c].intent)
       /\ call' = [call EXCEPT ![c].step = "offer", ![c].order = po]
  /\ UNCHANGED <<storeVars, lapsed, offered>>

\* gateway.createOrder: created, or created with the response lost, or refused.
CreateRemotely(c) ==
  /\ At(c, "create")
  /\ \E po \in ProviderOrders :
       /\ CreateRemoteOrder(po, call[c].intent)
       /\ \/ call' = [call EXCEPT ![c].step = "adopt", ![c].order = po]
          \/ Fail(c, 1)
  /\ UNCHANGED <<storeVars, lapsed, offered>>

Adopt(c) ==
  /\ At(c, "adopt")
  /\ AdoptProviderOrder(call[c].intent, call[c].order)
  /\ Answer(c, orderStatus[call[c].intent])
  /\ UNCHANGED <<providerVars, lapsed, offered>>

\* The response reaches the customer, who may open the checkout from now on.
Offer(c) ==
  /\ At(c, "offer")
  /\ offered' = offered \cup {call[c].order}
  /\ Finish(c)
  /\ UNCHANGED <<storeVars, providerVars, lapsed>>

-----------------------------------------------------------------------------
(* reconcile *)

\* Mutant: an order without remote order is given up, not looked up.
Find_NoLookup(c) ==
  LET po == providerOrder[call[c].intent]
  IN /\ At(c, "find")
     /\ IF po = None THEN Fail(c, 1)
        ELSE call' = [call EXCEPT ![c].order = po, ![c].step = "fetch"]
     /\ UNCHANGED <<storeVars, providerVars, lapsed, offered>>

Find(c) ==
  LET po == providerOrder[call[c].intent]
  IN /\ At(c, "find")
     /\ call' = [call EXCEPT ![c].order = po, ![c].step = IF po = None THEN "lookup" ELSE "fetch"]
     /\ UNCHANGED <<storeVars, providerVars, lapsed, offered>>

\* findOrderByReceipt: more than one order for a receipt is an invalid response.
Lookup(c) ==
  LET found == RemoteOrdersOf(call[c].intent)
  IN /\ At(c, "lookup")
     /\ \/ \E po \in found : /\ found = {po}
                             /\ call' = [call EXCEPT ![c].step = "recover", ![c].order = po]
        \/ found = {} /\ Fail(c, 1)
     /\ UNCHANGED <<storeVars, providerVars, lapsed, offered>>

Recover(c) ==
  /\ At(c, "recover")
  /\ AdoptProviderOrder(call[c].intent, call[c].order)
  /\ Goto(c, "fetch")
  /\ UNCHANGED <<providerVars, lapsed, offered>>

\* fetchOrder and fetchPaymentsForOrder, and the branch on what they say.  The order is
\* "created" exactly when it has no payments, so the later answer decides.
FetchOrder(c) ==
  LET payments == RemotePaymentsOf(call[c].order)
      captured == {p \in payments : remotePayment[p] = "captured"}
      failed   == {p \in payments : remotePayment[p] = "failed"}
  IN /\ At(c, "fetch")
     /\ call[c].op # "proof"
     /\ \/ payments = {} /\ Goto(c, "unattempted")
        \/ \E p \in captured :
             call' = [call EXCEPT ![c].step = "settle", ![c].todo = {p}, ![c].status = "captured"]
        \/ /\ payments # {} /\ failed = payments
           /\ call' = [call EXCEPT ![c].step = "settleFailed", ![c].todo = payments,
                                   ![c].status = "failed"]
        \/ captured = {} /\ failed # payments /\ Fail(c, 2)
     /\ UNCHANGED <<storeVars, providerVars, lapsed, offered>>

ConfirmUnattempted(c) ==
  LET i == call[c].intent
  IN /\ At(c, "unattempted")
     /\ ConfirmUnattemptedOrder(i, call[c].order, call[c].live)
     /\ IF UnattemptedConfirmed(i, call[c].live) THEN Answer(c, "pending") ELSE Fail(c, 1)
     /\ UNCHANGED <<providerVars, lapsed, offered>>

\* The captured payment of a reconciliation, or the payment of a proof.
SettlePayment(c) ==
  /\ At(c, "settle")
  /\ \E p \in call[c].todo : Settle(c, p)
  /\ Answer(c, orderStatus'[call[c].intent])
  /\ UNCHANGED <<providerVars, lapsed, offered>>

\* The loop over the failed payments: one transaction each.
SettleFailed(c) ==
  /\ At(c, "settleFailed")
  /\ \E p \in call[c].todo :
       /\ Settle(c, p)
       /\ call' = [call EXCEPT ![c].todo = @ \ {p},
                               ![c].step = IF call[c].todo = {p} THEN "confirmFailed" ELSE @]
  /\ UNCHANGED <<providerVars, lapsed, offered>>

ConfirmFailed(c) ==
  LET i == call[c].intent
  IN /\ At(c, "confirmFailed")
     /\ ConfirmFailedOrder(i, call[c].order)
     /\ Answer(c, orderStatus'[i])
     /\ UNCHANGED <<providerVars, lapsed, offered>>

-----------------------------------------------------------------------------
(* proveCheckout: the provider's status of the payment decides, not the browser. *)

\* Mutant: a valid signature is taken for a capture.
FetchProof_TrustsBrowser(c) ==
  /\ At(c, "fetch")
  /\ call[c].op = "proof"
  /\ call' = [call EXCEPT ![c].step = "settle", ![c].status = "captured"]
  /\ UNCHANGED <<storeVars, providerVars, lapsed, offered>>

FetchProof(c) ==
  /\ At(c, "fetch")
  /\ call[c].op = "proof"
  /\ \E p \in call[c].todo :
       IF remotePayment[p] \in EventStatuses
       THEN call' = [call EXCEPT ![c].step = "settle", ![c].status = remotePayment[p]]
       ELSE Fail(c, 2)
  /\ UNCHANGED <<storeVars, providerVars, lapsed, offered>>

-----------------------------------------------------------------------------
(* Errors *)

\* markOrderAmbiguous on the way out.  Its UPDATE may fail as well: the same error then
\* reaches the next catch block, and after the last one the request ends (Crash).
Mark(c) ==
  /\ At(c, "mark")
  /\ \/ /\ call[c].marks > 1
        /\ MarkOrderAmbiguous(call[c].intent) \/ UNCHANGED storeVars
        /\ call' = [call EXCEPT ![c].marks = @ - 1]
     \/ /\ call[c].marks = 1
        /\ MarkOrderAmbiguous(call[c].intent)
        /\ IF call[c].op = "reopen" THEN Goto(c, "reread") ELSE Finish(c)
  /\ UNCHANGED <<providerVars, lapsed, offered>>

\* markOrderAmbiguous returns a second SELECT, outside the UPDATE's transaction:
\* createCheckout answers from what it finds.
Reread(c) ==
  /\ At(c, "reread")
  /\ Answer(c, orderStatus[call[c].intent])
  /\ UNCHANGED <<storeVars, providerVars, lapsed, offered>>

\* The errors a try block catches; the settling transaction is returned unawaited, so
\* its failure is not among them.
Caught(c) == call[c].step \in {"create", "fetch", "unattempted", "settleFailed", "confirmFailed"}

\* Any await may throw: a timeout, a provider or database error, a conflict.
Throw(c) ==
  /\ ~At(c, "idle") /\ ~At(c, "mark") /\ ~At(c, "offer")
  /\ Fail(c, IF Caught(c) THEN 1 ELSE 0)
  /\ UNCHANGED <<storeVars, providerVars, lapsed, offered>>

\* The process dies, or the response is lost on its way.
Crash(c) ==
  /\ ~At(c, "idle")
  /\ Finish(c)
  /\ UNCHANGED <<storeVars, providerVars, lapsed, offered>>

-----------------------------------------------------------------------------
(* processWebhook, the provider, the clock and the intent's own life *)

\* Mutant: a webhook settles only an order that is still certain.
Webhook_PayableOnly(i, p, status) ==
  /\ status \in announced[p]
  /\ Payable(orderStatus[i])
  /\ RecordProviderEvent(EventId(p, status),
       [payment |-> p, order |-> remoteFor[p], status |-> status, exact |-> TRUE], i)
  /\ UNCHANGED <<providerVars, lapsed, offered, call>>

\* A delivery of an announced status: in any order, any number of times.  Before the
\* remote order is adopted it is a 404 and stays to be redelivered.
Webhook(i, p, status) ==
  /\ status \in announced[p]
  /\ RecordProviderEvent(EventId(p, status),
       [payment |-> p, order |-> remoteFor[p], status |-> status, exact |-> TRUE], i)
  /\ UNCHANGED <<providerVars, lapsed, offered, call>>

CustomerAttempts(p, po) ==
  /\ po \in offered
  /\ Attempt(p, po)
  /\ UNCHANGED <<storeVars, lapsed, offered, call>>

ProviderProgress(p, status) ==
  /\ Progress(p, status)
  /\ UNCHANGED <<storeVars, lapsed, offered, call>>

Lapse(i) ==
  /\ i \notin lapsed
  /\ lapsed' = lapsed \cup {i}
  /\ UNCHANGED <<storeVars, providerVars, offered, call>>

\* complete() and the expiry job compare expires_at with a clock read when they were
\* called: complete() may commit after the expiry, the job never before it.
IntentLife(i) ==
  /\ \/ CompleteIntent(i)
     \/ ExpireIntent(i) /\ i \in lapsed
  /\ UNCHANGED <<providerVars, lapsed, offered, call>>

Serve(c) ==
  \/ Prepare(c) \/ CreateRemotely(c) \/ Adopt(c) \/ Offer(c)
  \/ Find(c) \/ Lookup(c) \/ Recover(c) \/ FetchOrder(c) \/ ConfirmUnattempted(c)
  \/ SettlePayment(c) \/ SettleFailed(c) \/ ConfirmFailed(c) \/ FetchProof(c)
  \/ Mark(c) \/ Reread(c) \/ Throw(c) \/ Crash(c)

ServiceNext ==
  \/ \E c \in Calls :
       \/ Serve(c)
       \/ \E i \in Intents : ArriveCheckout(c, i) \/ ArriveReconcile(c, i)
       \/ \E i \in Intents, p \in Payments : ArriveProof(c, i, p)
  \/ \E i \in Intents, p \in Payments, status \in EventStatuses : Webhook(i, p, status)
  \/ \E p \in Payments, po \in ProviderOrders : CustomerAttempts(p, po)
  \/ \E p \in Payments, status \in EventStatuses : ProviderProgress(p, status)
  \/ \E i \in Intents : Lapse(i) \/ IntentLife(i)

ServiceSpec == ServiceInit /\ [][ServiceNext]_serviceVars

-----------------------------------------------------------------------------
(* What must hold of the service and the provider together.                *)

\* Type correctness of the service's own state.
ServiceTypeOK ==
  /\ lapsed \subseteq Intents
  /\ offered \subseteq ProviderOrders
  /\ call \in [Calls -> CallStates]

\* A purchase has at most one remote order, however many requests race, responses are
\* lost and processes die (docs/payments.md: "Concurrent requests and retries never
\* create a second remote order").
OneRemoteOrder ==
  \A i \in Intents : \A po, other \in RemoteOrdersOf(i) : po = other

\* The rows never run ahead of the provider: an adopted remote order carries the order's
\* own receipt, a payment row holds a status the provider announced for a payment of that
\* remote order, and only a captured payment pays.  No caller, snapshot, or order of
\* arrival can make the rows claim more than the provider did.
RowsFollowProvider ==
  /\ \A i \in Intents :
       /\ providerOrder[i] # None => remoteOrder[providerOrder[i]] = i
       /\ Settled(i) => \E p \in RemotePaymentsOf(providerOrder[i]) :
                           remotePayment[p] = "captured"
  /\ \A p \in Payments :
       paymentOrder[p] # None =>
         /\ remoteFor[p] = providerOrder[paymentOrder[p]]
         /\ paymentStatus[p] \in announced[p]

\* A customer is only ever handed a checkout whose captures the webhook can book: the
\* remote order is the one an order has adopted.
OfferedIsAdopted ==
  \A po \in offered : \E i \in Intents : providerOrder[i] = po

\* docs/payments.md: "Expired unpaid intents cannot reopen checkout".  A request that
\* arrived after the intent expired is never answered with a checkout.
ExpiredNotReopened ==
  \A c \in Calls : At(c, "offer") => call[c].live

-----------------------------------------------------------------------------
(* Liveness *)

\* The provider redelivers a webhook until it is accepted.
WebhookFairness ==
  \A i \in Intents, p \in Payments : WF_serviceVars(Webhook(i, p, "captured"))

\* A request in flight goes on, an operator keeps reconciling, and each await of a
\* reconciliation succeeds now and then.
ReconcileFairness ==
  \A c \in Calls :
    /\ \A i \in Intents : SF_serviceVars(ArriveReconcile(c, i))
    /\ WF_serviceVars(Serve(c))
    /\ SF_serviceVars(Find(c))
    /\ SF_serviceVars(Lookup(c))
    /\ SF_serviceVars(Recover(c))

FairServiceSpec == ServiceSpec /\ WebhookFairness /\ ReconcileFairness

\* Every capture is fulfilled in the end, without any request of the customer: the
\* browser may be closed, the process may die, the events may come in any order.
CaptureSettles ==
  \A i \in Intents, p \in Payments :
    (remotePayment[p] = "captured" /\ remoteOrder[remoteFor[p]] = i) ~> Settled(i)

\* A remote order whose creation response was lost is found again by its receipt and
\* adopted (docs/payments.md: "A receipt lookup recovers a lost response").
LostOrderRecovered ==
  \A i \in Intents, po \in ProviderOrders :
    remoteOrder[po] = i ~> providerOrder[i] = po
=============================================================================
