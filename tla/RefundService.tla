--------------------------- MODULE RefundService ----------------------------
(***************************************************************************)
(* Refunds: the customer's single request, the operator's approval and its *)
(* execution (executeApprovedRefund in packages/application/src/payment.ts)*)
(* against the repository and the provider's refunds.  An execution reads  *)
(* the request, asks the provider and records the answer: three awaits     *)
(* between which another execution may run or the process may die.  The    *)
(* orders live on meanwhile (OrderStep): captures, retries and webhooks    *)
(* keep coming.                                                            *)
(***************************************************************************)
EXTENDS PaymentStore

CONSTANT Calls   \* the executions that can be in flight at once

VARIABLES
  remoteRefund,  \* the provider's refunds (external)
  exec           \* the state of each execution in flight

refundServiceVars == <<storeVars, remoteRefund, exec>>

\* The provider's refund statuses; 'created' is treated like 'pending' by the code.
RemoteRefundStatuses == {"pending", "processed", "failed"}

\* key is the receipt and the X-Refund-Idempotency header, the refund request's id: an
\* intent has at most one request (refund_requests.order_id is unique).
RemoteRefunds == [key : Intents, payment : Payments, status : RemoteRefundStatuses]

ASSUME NoneIsNoRefund == None \notin RemoteRefunds

IdleExec == [step |-> "idle", intent |-> None, refund |-> None, status |-> "none"]

ExecStates ==
  [step : {"idle", "request", "fetch", "record"}, intent : Intents \cup {None},
   refund : Refunds \cup {None}, status : RemoteRefundStatuses \cup {"none"}]

RefundServiceInit ==
  /\ StoreInit
  /\ remoteRefund = [r \in Refunds |-> None]
  /\ exec = [c \in Calls |-> IdleExec]

-----------------------------------------------------------------------------
(* The provider *)

RefundsWithKey(i) == {r \in Refunds : remoteRefund[r] # None /\ remoteRefund[r].key = i}

\* A payment is refunded in full at most once: another refund needs all of its earlier
\* ones to have failed.
Refundable(p) ==
  \A r \in Refunds :
    remoteRefund[r] # None /\ remoteRefund[r].payment = p => remoteRefund[r].status = "failed"

CreateRefund(r, i, p) ==
  /\ remoteRefund[r] = None
  /\ Refundable(p)
  /\ \E status \in RemoteRefundStatuses :
       remoteRefund' = [remoteRefund EXCEPT ![r] = [key |-> i, payment |-> p, status |-> status]]

\* Mutant: the request carries no idempotency key.
PostRefund_NoKey(r, i, p) == CreateRefund(r, i, p)

\* POST /payments/:id/refund with the idempotency header: a key the provider knows gets
\* the refund it already stands for.
PostRefund(r, i, p) ==
  IF RefundsWithKey(i) # {} THEN r \in RefundsWithKey(i) /\ UNCHANGED remoteRefund
  ELSE CreateRefund(r, i, p)

RefundProgress(r) ==
  /\ remoteRefund[r] # None
  /\ remoteRefund[r].status = "pending"
  /\ \E status \in {"processed", "failed"} :
       remoteRefund' = [remoteRefund EXCEPT ![r].status = status]
  /\ UNCHANGED <<storeVars, exec>>

-----------------------------------------------------------------------------
(* executeApprovedRefund *)

\* Mutant: an accepted refund counts as done.
Outcome_PendingIsDone(status) == IF status = "failed" THEN "failed" ELSE "refunded"

\* What the provider's status makes of the request.
Outcome(status) ==
  CASE status = "processed" -> "refunded"
    [] status = "pending"   -> "submitted"
    [] status = "failed"    -> "failed"

Start(c, i) ==
  exec' = [exec EXCEPT ![c] =
    [IdleExec EXCEPT !.step = IF providerRefund[i] = None THEN "request" ELSE "fetch",
                     !.intent = i, !.refund = providerRefund[i]]]

\* Mutant: the status guard forgets the submitted requests.
StartExecute_Once(c, i) ==
  /\ exec[c].step = "idle"
  /\ refundStatus[i] = "approved"
  /\ Start(c, i)
  /\ UNCHANGED <<storeVars, remoteRefund>>

\* findRefundRequest: a known remote refund is fetched, otherwise one is requested.
StartExecute(c, i) ==
  /\ exec[c].step = "idle"
  /\ refundStatus[i] \in {"approved", "submitted"}
  /\ Start(c, i)
  /\ UNCHANGED <<storeVars, remoteRefund>>

Answered(c, r, status) ==
  exec' = [exec EXCEPT ![c].step = "record", ![c].refund = r, ![c].status = status]

RequestRemotely(c) ==
  LET i == exec[c].intent
  IN /\ exec[c].step = "request"
     /\ \E r \in Refunds :
          /\ PostRefund(r, i, refundPayment[i])
          /\ \/ Answered(c, r, remoteRefund'[r].status)
             \/ exec' = [exec EXCEPT ![c] = IdleExec]     \* the response is lost
     /\ UNCHANGED storeVars

FetchRefund(c) ==
  /\ exec[c].step = "fetch"
  /\ Answered(c, exec[c].refund, remoteRefund[exec[c].refund].status)
  /\ UNCHANGED <<storeVars, remoteRefund>>

\* recordRefundResult, which may find nothing left to change.
RecordResult(c) ==
  LET i == exec[c].intent
      status == Outcome(exec[c].status)
  IN /\ exec[c].step = "record"
     /\ \/ RecordRefundResult(i, exec[c].refund, status)
        \/ ~RefundResultApplies(i, exec[c].refund, status) /\ UNCHANGED storeVars
     /\ exec' = [exec EXCEPT ![c] = IdleExec]
     /\ UNCHANGED remoteRefund

\* A timeout, a provider or database error, or a crash: the execution is given up.
GiveUp(c) ==
  /\ exec[c].step # "idle"
  /\ exec' = [exec EXCEPT ![c] = IdleExec]
  /\ UNCHANGED <<storeVars, remoteRefund>>

Execute(c) ==
  \/ RequestRemotely(c) \/ FetchRefund(c) \/ RecordResult(c) \/ GiveUp(c)
  \/ \E i \in Intents : StartExecute(c, i)

\* The customer's request and the operator's approval are one transaction each.
Ask(i) ==
  /\ (\E p \in Payments : RequestRefund(i, p)) \/ ApproveRefund(i)
  /\ UNCHANGED <<remoteRefund, exec>>

RefundServiceNext ==
  \/ \E c \in Calls : Execute(c)
  \/ \E i \in Intents : Ask(i)
  \/ \E r \in Refunds : RefundProgress(r)
  \/ OrderStep /\ UNCHANGED <<remoteRefund, exec>>

RefundServiceSpec == RefundServiceInit /\ [][RefundServiceNext]_refundServiceVars

-----------------------------------------------------------------------------
(* Properties *)

\* Type correctness of the executions and of the provider's refunds.
RefundServiceTypeOK ==
  /\ exec \in [Calls -> ExecStates]
  /\ remoteRefund \in [Refunds -> RemoteRefunds \cup {None}]

\* No money leaves without approval, and what leaves goes back to the payment the
\* request named.
RefundNeedsApproval ==
  \A r \in Refunds : \A i \in Intents :
    r \in RefundsWithKey(i) =>
      /\ refundStatus[i] \notin {"none", "requested"}
      /\ remoteRefund[r].payment = refundPayment[i]

\* One refund request makes at most one remote refund, approved and of its payment, however
\* often it is executed, retried after a lost response or executed twice at once.
OneRemoteRefund ==
  /\ RefundNeedsApproval
  /\ \A i \in Intents : \A r, other \in RefundsWithKey(i) : r = other

\* The row follows the provider: a request is refunded, and access revoked, only when
\* the provider processed that very refund, and failed only when it failed there.
RefundFollowsProvider ==
  \A i \in Intents :
    providerRefund[i] # None =>
      /\ providerRefund[i] \in RefundsWithKey(i)
      /\ refundStatus[i] = "refunded" => remoteRefund[providerRefund[i]].status = "processed"
      /\ refundStatus[i] = "failed" => remoteRefund[providerRefund[i]].status = "failed"

\* A late answer never undoes a result: a request only moves forward, and its remote
\* refund is never replaced, although an execution may record a status it fetched before
\* another one recorded a newer.
ResultNotRegressed ==
  [][\A i \in Intents :
       /\ refundStatus[i] \in {"refunded", "failed"} => refundStatus'[i] = refundStatus[i]
       /\ refundStatus[i] = "submitted" => refundStatus'[i] \in {"submitted", "refunded", "failed"}
       /\ providerRefund[i] # None => providerRefund'[i] = providerRefund[i]]_refundServiceVars

-----------------------------------------------------------------------------
(* Liveness *)

\* An operator keeps executing approved refunds, and each await succeeds now and then.
ExecuteFairness ==
  \A c \in Calls :
    /\ \A i \in Intents : SF_refundServiceVars(StartExecute(c, i))
    /\ SF_refundServiceVars(RequestRemotely(c) /\ exec'[c].step = "record")
    /\ SF_refundServiceVars(FetchRefund(c))
    /\ SF_refundServiceVars(RecordResult(c))

FairRefundSpec == RefundServiceSpec /\ ExecuteFairness

\* Money that went back always ends in revoked access: a processed remote refund is
\* recorded in the end, although its response may be lost any number of times.
ProcessedIsRecorded ==
  \A i \in Intents :
    (\E r \in RefundsWithKey(i) : remoteRefund[r].status = "processed") ~> refundStatus[i] = "refunded"
=============================================================================
