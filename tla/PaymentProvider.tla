-------------------------- MODULE PaymentProvider ---------------------------
(***************************************************************************)
(* Razorpay, as the gateway (apps/web/src/server/razorpay-payment-gateway) *)
(* and the webhook route see it.  The provider is not part of the          *)
(* repository: its orders and payments move on their own, and the code     *)
(* learns of them by fetching or by webhook.                               *)
(*                                                                         *)
(* The receipt of a remote order is the local order's id, and an intent    *)
(* has at most one local order, so the receipt is the intent.              *)
(***************************************************************************)
EXTENDS PaymentDomain

VARIABLES
  remoteOrder,    \* the receipt of a remote order, or None if there is no such order
  remotePayment,  \* the status of a remote payment
  remoteFor,      \* the remote order a payment was attempted on, or None
  announced       \* the statuses a payment went through: each has its webhook

providerVars == <<remoteOrder, remotePayment, remoteFor, announced>>

RemoteStatuses == {"none", "created", "authorized", "failed", "captured"}

ProviderInit ==
  /\ remoteOrder = [po \in ProviderOrders |-> None]
  /\ remotePayment = [p \in Payments |-> "none"]
  /\ remoteFor = [p \in Payments |-> None]
  /\ announced = [p \in Payments |-> {}]

RemoteOrdersOf(i) == {po \in ProviderOrders : remoteOrder[po] = i}

RemotePaymentsOf(po) == {p \in Payments : remoteFor[p] = po}

\* POST /orders: the provider does not deduplicate by receipt.
CreateRemoteOrder(po, receipt) ==
  /\ remoteOrder[po] = None
  /\ remoteOrder' = [remoteOrder EXCEPT ![po] = receipt]
  /\ UNCHANGED <<remotePayment, remoteFor, announced>>

\* The customer starts a payment in the checkout window; a captured order takes no more.
Attempt(p, po) ==
  /\ remotePayment[p] = "none"
  /\ \A q \in RemotePaymentsOf(po) : remotePayment[q] # "captured"
  /\ remotePayment' = [remotePayment EXCEPT ![p] = "created"]
  /\ remoteFor' = [remoteFor EXCEPT ![p] = po]
  /\ UNCHANGED <<remoteOrder, announced>>

\* A failed payment may still be authorized late, and a captured one is final.
MayBecome(from, to) ==
  <<from, to>> \in {<<"created", "authorized">>, <<"created", "failed">>,
                    <<"failed", "authorized">>, <<"authorized", "failed">>,
                    <<"authorized", "captured">>}

Progress(p, status) ==
  /\ MayBecome(remotePayment[p], status)
  /\ remotePayment' = [remotePayment EXCEPT ![p] = status]
  /\ announced' = [announced EXCEPT ![p] = @ \cup {status}]
  /\ UNCHANGED <<remoteOrder, remoteFor>>
=============================================================================
