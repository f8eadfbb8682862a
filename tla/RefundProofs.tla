---------------------------- MODULE RefundProofs ----------------------------
(***************************************************************************)
(* What refund execution guarantees for any number of orders, executions   *)
(* and refunds.  Each of its steps is a transaction of PaymentStore or     *)
(* none (RefundsUseTheStore), so what is proved of the rows holds of them; *)
(* what an execution carries from one await to the next (ExecOK) ties the  *)
(* rows to the provider's refunds.                                         *)
(***************************************************************************)
EXTENDS RefundService, PaymentStoreProofs

-----------------------------------------------------------------------------
(* The inductive invariant.                                                *)

\* The request was approved and stays so.
Approved(i) == refundStatus[i] \notin {"none", "requested"}

\* What execution c may rely on after each await: its request is approved, the refund it
\* will fetch or record is the one of its request, and a final status it was told is final.
ExecOK(c) ==
  /\ exec[c].step # "idle" => exec[c].intent \in Intents /\ Approved(exec[c].intent)
  /\ exec[c].step \in {"fetch", "record"} => exec[c].refund \in RefundsWithKey(exec[c].intent)
  /\ exec[c].step = "record" =>
       /\ exec[c].status \in RemoteRefundStatuses
       /\ exec[c].status \in {"processed", "failed"} =>
            remoteRefund[exec[c].refund].status = exec[c].status

RefundInv ==
  /\ StoreInv
  /\ RefundServiceTypeOK
  /\ \A c \in Calls : ExecOK(c)
  /\ OneRemoteRefund
  /\ RefundFollowsProvider

-----------------------------------------------------------------------------
(* What no step undoes.                                                    *)

\* The provider's refunds keep their key and payment, and a final status.
RemoteKept ==
  \A r \in Refunds : remoteRefund[r] # None =>
    /\ remoteRefund'[r] # None
    /\ remoteRefund'[r].key = remoteRefund[r].key
    /\ remoteRefund'[r].payment = remoteRefund[r].payment
    /\ remoteRefund[r].status \in {"processed", "failed"} =>
         remoteRefund'[r].status = remoteRefund[r].status

\* An approved request stays approved, for the same payment.
RequestsKept ==
  \A i \in Intents : Approved(i) =>
    Approved(i)' /\ refundPayment'[i] = refundPayment[i]

\* No result is recorded.
NoResult ==
  /\ providerRefund' = providerRefund
  /\ \A i \in Intents : refundStatus'[i] \in {"refunded", "failed"} =>
                          refundStatus'[i] = refundStatus[i]

\* The captures, retries and webhooks of the orders leave the refund requests alone.
LEMMA OrderStepKeepsRequests == OrderStep => UNCHANGED refundVars
BY DEF OrderStep, CompleteIntent, ExpireIntent, MarkOrderAmbiguous, PrepareCheckout, CreateOrder,
       ExpireOrder, KeepOrder, AdoptProviderOrder, ConfirmFailedOrder, ConfirmUnattemptedOrder,
       RecordProviderEvent, storeVars, refundVars

\* Asking and approving move a request that is not approved yet.
LEMMA AskKeepsRequests ==
  ASSUME StoreTypeOK, NEW i \in Intents, Ask(i)
  PROVE  RequestsKept /\ NoResult
BY DEF StoreTypeOK, Ask, RequestRefund, ApproveRefund, RequestsKept, NoResult, Approved

\* Recording a result moves its own request to a result.
LEMMA ResultKeepsRequests ==
  ASSUME StoreTypeOK, NEW i \in Intents, NEW r \in Refunds, NEW status \in RefundResults,
         RecordRefundResult(i, r, status)
  PROVE  /\ RequestsKept
         /\ refundStatus'[i] = status /\ providerRefund'[i] = r
         /\ \A j \in Intents \ {i} : /\ refundStatus'[j] = refundStatus[j]
                                     /\ providerRefund'[j] = providerRefund[j]
BY DEF StoreTypeOK, RecordRefundResult, RefundResultApplies, RefundResults, RequestsKept, Approved

\* The refunds of a request keep standing for it.
LEMMA KeyKept ==
  ASSUME RemoteKept, NEW i
  PROVE  /\ RefundsWithKey(i) \subseteq RefundsWithKey(i)'
         /\ \A r \in Refunds : remoteRefund[r] # None /\ r \in RefundsWithKey(i)'
                                 => r \in RefundsWithKey(i)
BY DEF RemoteKept, RefundsWithKey

\* An execution that does not move can rely on the same as before.
LEMMA WaitingExec ==
  ASSUME NEW c \in Calls, ExecOK(c), exec'[c] = exec[c], RemoteKept, RequestsKept
  PROVE  ExecOK(c)'
BY KeyKept DEF ExecOK, RemoteKept, RequestsKept, RefundsWithKey

\* An execution that is given up relies on nothing.
LEMMA IdleExecOK ==
  ASSUME NEW c \in Calls, exec'[c] = IdleExec
  PROVE  ExecOK(c)'
BY DEF ExecOK, IdleExec

\* Steps that create no remote refund and record no result keep the rows and the
\* provider together.
LEMMA QuietStep ==
  ASSUME RefundInv, RemoteKept, RequestsKept, NoResult,
         \A r \in Refunds : remoteRefund[r] = None => remoteRefund'[r] = None
  PROVE  OneRemoteRefund' /\ RefundFollowsProvider'
<1>1. \A i \in Intents : RefundsWithKey(i)' = RefundsWithKey(i)
  BY KeyKept DEF RefundsWithKey
<1>2. RefundNeedsApproval'
  BY <1>1 DEF RefundInv, OneRemoteRefund, RefundNeedsApproval, RequestsKept, RemoteKept, Approved,
              RefundsWithKey
<1>3. OneRemoteRefund'
  BY <1>1, <1>2 DEF RefundInv, OneRemoteRefund
<1>4. RefundFollowsProvider'
  BY <1>1 DEF RefundInv, RefundFollowsProvider, NoResult, RemoteKept, RefundsWithKey
<1> QED
  BY <1>3, <1>4

-----------------------------------------------------------------------------
(* The steps.                                                              *)

\* Orders and requests move; the provider and the executions do not.
LEMMA RowsMoveInv ==
  ASSUME RefundInv, StoreInv', RequestsKept, NoResult, UNCHANGED <<remoteRefund, exec>>
  PROVE  RefundInv'
<1>1. RemoteKept
  BY DEF RemoteKept
<1>2. RefundServiceTypeOK'
  BY DEF RefundInv, RefundServiceTypeOK
<1>3. \A c \in Calls : ExecOK(c)'
  BY <1>1, WaitingExec DEF RefundInv
<1>4. OneRemoteRefund' /\ RefundFollowsProvider'
  BY <1>1, QuietStep
<1> QED
  BY <1>2, <1>3, <1>4 DEF RefundInv

\* The provider decides a pending refund.
LEMMA RefundProgressInv ==
  ASSUME RefundInv, NEW r \in Refunds, RefundProgress(r)
  PROVE  RefundInv'
<1>1. PICK status \in {"processed", "failed"} :
        remoteRefund' = [remoteRefund EXCEPT ![r].status = status]
  BY DEF RefundProgress
<1>2. /\ remoteRefund[r] \in RemoteRefunds /\ remoteRefund[r].status = "pending"
      /\ remoteRefund[r] # None
  BY DEF RefundProgress, RefundInv, RefundServiceTypeOK
<1> DEFINE decided == [remoteRefund[r] EXCEPT !.status = status]
<1>3. decided \in RemoteRefunds /\ decided.key = remoteRefund[r].key
      /\ decided.payment = remoteRefund[r].payment
  BY <1>2 DEF RemoteRefunds, RemoteRefundStatuses
<1>4. remoteRefund' = [remoteRefund EXCEPT ![r] = decided]
  BY <1>1
<1> HIDE DEF decided
<1>5. RefundServiceTypeOK'
  BY <1>3, <1>4 DEF RefundInv, RefundServiceTypeOK, RefundProgress
<1>6. RemoteKept /\ \A q \in Refunds : remoteRefund[q] = None => remoteRefund'[q] = None
  BY <1>2, <1>3, <1>4, NoneIsNoRefund DEF RefundInv, RefundServiceTypeOK, RemoteKept
<1>7. UNCHANGED storeVars /\ RequestsKept /\ NoResult
  BY DEF RefundProgress, storeVars, RequestsKept, NoResult, Approved
<1>8. \A c \in Calls : ExecOK(c)'
  BY <1>6, <1>7, WaitingExec DEF RefundInv, RefundProgress
<1> QED
  BY <1>5, <1>6, <1>7, <1>8, QuietStep, StutterInv DEF RefundInv

\* An execution starts from an approved request, and fetches the refund it already has.
LEMMA StartExecuteInv ==
  ASSUME RefundInv, NEW c \in Calls, NEW i \in Intents, StartExecute(c, i)
  PROVE  RefundInv'
<1> DEFINE step == IF providerRefund[i] = None THEN "request" ELSE "fetch"
           begun == [IdleExec EXCEPT !.step = step, !.intent = i, !.refund = providerRefund[i]]
<1>1. /\ begun \in ExecStates
      /\ begun.step = step /\ begun.intent = i /\ begun.refund = providerRefund[i]
  BY DEF IdleExec, ExecStates, RefundInv, StoreInv, StoreTypeOK
<1>2. exec' = [exec EXCEPT ![c] = begun] /\ Approved(i)
  BY DEF StartExecute, Start, Approved
<1>3. UNCHANGED storeVars /\ UNCHANGED remoteRefund
  BY DEF StartExecute
<1>4. step \in {"request", "fetch"}
  OBVIOUS
<1>5. step = "fetch" => providerRefund[i] \in RefundsWithKey(i)
  BY DEF RefundInv, RefundFollowsProvider
<1> HIDE DEF begun, step
<1>6. RefundServiceTypeOK'
  BY <1>1, <1>2, <1>3 DEF RefundInv, RefundServiceTypeOK
<1>7. RemoteKept /\ RequestsKept /\ NoResult
  BY <1>3 DEF storeVars, RemoteKept, RequestsKept, NoResult, Approved
<1>8. ASSUME NEW d \in Calls PROVE ExecOK(d)'
  <2>1. CASE d = c
    <3>1. exec'[d] = begun
      BY <1>2, <2>1 DEF RefundInv, RefundServiceTypeOK
    <3> QED
      BY <1>1, <1>2, <1>3, <1>4, <1>5, <3>1 DEF ExecOK, Approved, RefundsWithKey, storeVars
  <2>2. CASE d # c
    BY <1>2, <1>7, <2>2, WaitingExec DEF RefundInv, RefundServiceTypeOK
  <2> QED
    BY <2>1, <2>2
<1> QED
  BY <1>3, <1>6, <1>7, <1>8, QuietStep, StutterInv DEF RefundInv

\* An execution that was told the status of its refund.
LEMMA AnsweredExec ==
  ASSUME RefundInv, NEW c \in Calls, NEW i \in Intents, NEW r \in RefundsWithKey(i)',
         exec[c].step # "idle", exec[c].intent = i, Answered(c, r, remoteRefund'[r].status),
         remoteRefund' \in [Refunds -> RemoteRefunds \cup {None}],
         RemoteKept, RequestsKept
  PROVE  /\ exec' \in [Calls -> ExecStates]
         /\ \A d \in Calls : ExecOK(d)'
<1> DEFINE told == [exec[c] EXCEPT !.step = "record", !.refund = r,
                                   !.status = remoteRefund'[r].status]
<1>1. r \in Refunds /\ remoteRefund'[r] \in RemoteRefunds
  BY DEF RefundsWithKey
<1>2. exec[c] \in ExecStates /\ remoteRefund'[r].status \in RemoteRefundStatuses
  BY <1>1 DEF RefundInv, RefundServiceTypeOK, RemoteRefunds
<1>2a. /\ told \in ExecStates /\ told.step = "record" /\ told.refund = r
       /\ told.status = remoteRefund'[r].status /\ told.intent = i
  BY <1>1, <1>2 DEF ExecStates
<1>3. exec' = [exec EXCEPT ![c] = told]
  BY DEF Answered
<1>4. Approved(i)'
  BY DEF RefundInv, ExecOK, RequestsKept
<1> HIDE DEF told
<1>5. exec' \in [Calls -> ExecStates] /\ exec'[c] = told
  BY <1>2a, <1>3 DEF RefundInv, RefundServiceTypeOK
<1>6. ExecOK(c)'
  BY <1>2, <1>2a, <1>4, <1>5 DEF ExecOK, Approved, RefundsWithKey
<1>7. ASSUME NEW d \in Calls, d # c PROVE ExecOK(d)'
  BY <1>3, <1>7, WaitingExec DEF RefundInv, RefundServiceTypeOK
<1> QED
  BY <1>5, <1>6, <1>7

\* An execution that is over.
LEMMA IdleAgain ==
  ASSUME RefundInv, NEW c \in Calls, exec' = [exec EXCEPT ![c] = IdleExec],
         RemoteKept, RequestsKept
  PROVE  /\ exec' \in [Calls -> ExecStates]
         /\ \A d \in Calls : ExecOK(d)'
<1>1. IdleExec \in ExecStates
  BY DEF IdleExec, ExecStates
<1>2. exec' \in [Calls -> ExecStates] /\ exec'[c] = IdleExec
  BY <1>1 DEF RefundInv, RefundServiceTypeOK
<1>3. ExecOK(c)'
  BY <1>2, IdleExecOK
<1>4. ASSUME NEW d \in Calls, d # c PROVE ExecOK(d)'
  BY <1>4, WaitingExec DEF RefundInv, RefundServiceTypeOK
<1> QED
  BY <1>2, <1>3, <1>4

\* The status of a known refund is fetched.
LEMMA FetchRefundInv ==
  ASSUME RefundInv, NEW c \in Calls, FetchRefund(c)
  PROVE  RefundInv'
<1>1. UNCHANGED storeVars /\ UNCHANGED remoteRefund /\ exec[c].step = "fetch"
  BY DEF FetchRefund
<1>2. RemoteKept /\ RequestsKept /\ NoResult
  BY <1>1 DEF storeVars, RemoteKept, RequestsKept, NoResult, Approved
<1>3. PICK i \in Intents : exec[c].intent = i /\ exec[c].refund \in RefundsWithKey(i)'
  BY <1>1 DEF RefundInv, ExecOK, RefundsWithKey
<1>4. exec' \in [Calls -> ExecStates] /\ \A d \in Calls : ExecOK(d)'
  <2>1. Answered(c, exec[c].refund, remoteRefund'[exec[c].refund].status)
    BY <1>1 DEF FetchRefund
  <2> QED
    BY <1>1, <1>2, <1>3, <2>1, AnsweredExec DEF RefundInv, RefundServiceTypeOK
<1> QED
  BY <1>1, <1>2, <1>4, QuietStep, StutterInv DEF RefundInv, RefundServiceTypeOK

\* An execution is given up.
LEMMA GiveUpInv ==
  ASSUME RefundInv, NEW c \in Calls, GiveUp(c)
  PROVE  RefundInv'
<1>1. UNCHANGED storeVars /\ UNCHANGED remoteRefund
  BY DEF GiveUp
<1>2. RemoteKept /\ RequestsKept /\ NoResult
  BY <1>1 DEF storeVars, RemoteKept, RequestsKept, NoResult, Approved
<1>3. exec' \in [Calls -> ExecStates] /\ \A d \in Calls : ExecOK(d)'
  BY <1>2, IdleAgain DEF GiveUp
<1> QED
  BY <1>1, <1>2, <1>3, QuietStep, StutterInv DEF RefundInv, RefundServiceTypeOK

\* A refund is asked for: the provider answers with the one of the key, or makes one.
LEMMA RequestRemotelyInv ==
  ASSUME RefundInv, NEW c \in Calls, RequestRemotely(c)
  PROVE  RefundInv'
<1>1. UNCHANGED storeVars /\ exec[c].step = "request"
  BY DEF RequestRemotely
<1>2. PICK i \in Intents : exec[c].intent = i /\ Approved(i)
  BY <1>1 DEF RefundInv, ExecOK
<1>3. PICK r \in Refunds :
        /\ PostRefund(r, i, refundPayment[i])
        /\ \/ Answered(c, r, remoteRefund'[r].status)
           \/ exec' = [exec EXCEPT ![c] = IdleExec]
  BY <1>2 DEF RequestRemotely
<1>4. RequestsKept /\ NoResult
  BY <1>1 DEF storeVars, RequestsKept, NoResult, Approved
<1>5. CASE RefundsWithKey(i) # {}
  <2>1. r \in RefundsWithKey(i) /\ UNCHANGED remoteRefund
    BY <1>3, <1>5 DEF PostRefund
  <2>2. RemoteKept
    BY <2>1 DEF RemoteKept
  <2>3. r \in RefundsWithKey(i)' /\ remoteRefund' \in [Refunds -> RemoteRefunds \cup {None}]
    BY <2>1, KeyKept, <2>2 DEF RefundInv, RefundServiceTypeOK
  <2>4. exec' \in [Calls -> ExecStates] /\ \A d \in Calls : ExecOK(d)'
    BY <1>3, <1>1, <1>2, <1>4, <2>2, <2>3, AnsweredExec, IdleAgain
  <2> QED
    BY <1>1, <1>4, <2>1, <2>2, <2>3, <2>4, QuietStep, StutterInv DEF RefundInv, RefundServiceTypeOK
<1>6. CASE RefundsWithKey(i) = {}
  <2>1. PICK status \in RemoteRefundStatuses :
          remoteRefund' = [remoteRefund EXCEPT ![r] =
            [key |-> i, payment |-> refundPayment[i], status |-> status]]
    BY <1>3, <1>6 DEF PostRefund, CreateRefund
  <2>2. remoteRefund[r] = None
    BY <1>3, <1>6 DEF PostRefund, CreateRefund
  <2> DEFINE made == [key |-> i, payment |-> refundPayment[i], status |-> status]
  <2>3. refundPayment[i] \in Payments
    BY <1>2 DEF RefundInv, StoreInv, StoreTypeOK, RefundNamesCapture, Approved
  <2>4. /\ made \in RemoteRefunds /\ made # None
        /\ made.key = i /\ made.payment = refundPayment[i]
    BY <1>2, <2>3, NoneIsNoRefund DEF RemoteRefunds
  <2>5. remoteRefund' = [remoteRefund EXCEPT ![r] = made]
    BY <2>1
  <2> HIDE DEF made
  <2>6. /\ remoteRefund' \in [Refunds -> RemoteRefunds \cup {None}]
        /\ remoteRefund'[r] = made
        /\ \A q \in Refunds \ {r} : remoteRefund'[q] = remoteRefund[q]
    BY <2>4, <2>5 DEF RefundInv, RefundServiceTypeOK
  <2>7. RemoteKept
    BY <2>2, <2>6 DEF RemoteKept
  <2>8. /\ RefundsWithKey(i)' = {r}
        /\ \A j \in Intents \ {i} : RefundsWithKey(j)' = RefundsWithKey(j)
    BY <1>6, <2>2, <2>4, <2>6 DEF RefundsWithKey
  <2>9. exec' \in [Calls -> ExecStates] /\ \A d \in Calls : ExecOK(d)'
    BY <1>3, <1>1, <1>2, <1>4, <2>6, <2>7, <2>8, AnsweredExec, IdleAgain
  <2>10. RefundNeedsApproval'
    <3> SUFFICES ASSUME NEW q \in Refunds, NEW j \in Intents, q \in RefundsWithKey(j)'
                 PROVE  Approved(j)' /\ remoteRefund'[q].payment = refundPayment'[j]
      BY DEF RefundNeedsApproval, Approved
    <3>1. CASE j = i
      BY <1>1, <1>2, <1>4, <2>4, <2>6, <2>8, <3>1 DEF RequestsKept
    <3>2. CASE j # i
      <4>1. q \in RefundsWithKey(j) /\ q # r
        BY <2>2, <2>8, <3>2 DEF RefundsWithKey
      <4> QED
        BY <1>1, <2>6, <4>1 DEF RefundInv, OneRemoteRefund, RefundNeedsApproval, Approved, storeVars
    <3> QED
      BY <3>1, <3>2
  <2>11. OneRemoteRefund'
    BY <2>8, <2>10 DEF RefundInv, OneRemoteRefund
  <2>12. RefundFollowsProvider'
    BY <1>1, <2>2, <2>6, KeyKept, <2>7
       DEF RefundInv, RefundFollowsProvider, RefundsWithKey, storeVars
  <2> QED
    BY <1>1, <2>6, <2>9, <2>11, <2>12, StutterInv DEF RefundInv, RefundServiceTypeOK
<1> QED
  BY <1>5, <1>6

\* What an execution is about to record is a result of its request.
LEMMA RecordedResult ==
  ASSUME RefundInv, NEW c \in Calls, exec[c].step = "record"
  PROVE  /\ exec[c].intent \in Intents
         /\ exec[c].refund \in RefundsWithKey(exec[c].intent)
         /\ exec[c].refund \in Refunds
         /\ Outcome(exec[c].status) \in RefundResults
         /\ Outcome(exec[c].status) = "refunded" =>
              remoteRefund[exec[c].refund].status = "processed"
         /\ Outcome(exec[c].status) = "failed" =>
              remoteRefund[exec[c].refund].status = "failed"
BY DEF RefundInv, ExecOK, RefundsWithKey, Outcome, RefundResults, RemoteRefundStatuses

\* A result is recorded.
LEMMA RecordResultInv ==
  ASSUME RefundInv, NEW c \in Calls, RecordResult(c)
  PROVE  RefundInv'
<1> DEFINE i == exec[c].intent
           r == exec[c].refund
           status == Outcome(exec[c].status)
<1>1. /\ exec[c].step = "record" /\ exec' = [exec EXCEPT ![c] = IdleExec]
      /\ UNCHANGED remoteRefund
  BY DEF RecordResult
<1>2. /\ i \in Intents /\ r \in RefundsWithKey(i) /\ r \in Refunds /\ status \in RefundResults
      /\ status = "refunded" => remoteRefund[r].status = "processed"
      /\ status = "failed" => remoteRefund[r].status = "failed"
  BY <1>1, RecordedResult
<1>3. RemoteKept
  BY <1>1 DEF RemoteKept
<1>4. RecordRefundResult(i, r, status) \/ UNCHANGED storeVars
  BY DEF RecordResult
<1> HIDE DEF i, r, status
<1>5. CASE RecordRefundResult(i, r, status)
  <2>1. StoreInv'
    BY <1>2, <1>5, PendingResultInv, RevokeInv DEF RefundInv, RefundResults
  <2>2. /\ RequestsKept /\ refundStatus'[i] = status /\ providerRefund'[i] = r
        /\ \A j \in Intents \ {i} : /\ refundStatus'[j] = refundStatus[j]
                                    /\ providerRefund'[j] = providerRefund[j]
    BY <1>2, <1>5, ResultKeepsRequests DEF RefundInv, StoreInv
  <2>3. \A j \in Intents : RefundsWithKey(j)' = RefundsWithKey(j)
    BY <1>1 DEF RefundsWithKey
  <2>4. OneRemoteRefund'
    BY <1>1, <2>2, <2>3
       DEF RefundInv, OneRemoteRefund, RefundNeedsApproval, RequestsKept, Approved
  <2>5. RefundFollowsProvider'
    BY <1>1, <1>2, <2>2, <2>3 DEF RefundInv, RefundFollowsProvider
  <2>6. exec' \in [Calls -> ExecStates] /\ \A d \in Calls : ExecOK(d)'
    BY <1>1, <1>3, <2>2, IdleAgain
  <2> QED
    BY <1>1, <2>1, <2>4, <2>5, <2>6 DEF RefundInv, RefundServiceTypeOK
<1>6. CASE UNCHANGED storeVars
  <2>1. RequestsKept /\ NoResult
    BY <1>6 DEF storeVars, RequestsKept, NoResult, Approved
  <2>2. exec' \in [Calls -> ExecStates] /\ \A d \in Calls : ExecOK(d)'
    BY <1>1, <1>3, <2>1, IdleAgain
  <2> QED
    BY <1>1, <1>3, <1>6, <2>1, <2>2, QuietStep, StutterInv DEF RefundInv, RefundServiceTypeOK
<1> QED
  BY <1>4, <1>5, <1>6

-----------------------------------------------------------------------------
(* The theorems.                                                           *)

\* Before any request there is nothing at the provider and no execution.
LEMMA RefundInitInv == RefundServiceInit => RefundInv
<1> SUFFICES ASSUME RefundServiceInit PROVE RefundInv
  OBVIOUS
<1>1. StoreInv
  BY InitInv DEF RefundServiceInit
<1>2. IdleExec \in ExecStates
  BY DEF IdleExec, ExecStates
<1>3. RefundServiceTypeOK
  BY <1>2 DEF RefundServiceInit, RefundServiceTypeOK
<1>4. \A c \in Calls : ExecOK(c)
  BY DEF RefundServiceInit, ExecOK, IdleExec
<1>5. \A i \in Intents : RefundsWithKey(i) = {} /\ providerRefund[i] = None
  BY DEF RefundServiceInit, StoreInit, RefundsWithKey
<1> QED
  BY <1>1, <1>3, <1>4, <1>5 DEF RefundInv, OneRemoteRefund, RefundNeedsApproval, RefundFollowsProvider

\* What a step of the refund service does to the rows is a transaction of the store.
LEMMA StepOfStore ==
  ASSUME RefundInv, RefundServiceNext
  PROVE  [StoreNext]_storeVars
<1>1. ASSUME NEW c \in Calls, RecordResult(c) PROVE [StoreNext]_storeVars
  <2>1. exec[c].step = "record"
    BY <1>1 DEF RecordResult
  <2> QED
    BY <1>1, <2>1, RecordedResult DEF RecordResult, StoreNext, RefundStep
<1>2. ASSUME NEW i \in Intents, Ask(i) PROVE StoreNext
  BY <1>2 DEF Ask, StoreNext, RefundStep
<1> QED
  BY <1>1, <1>2 DEF RefundServiceNext, Execute, StartExecute, RequestRemotely, FetchRefund, GiveUp,
                    RefundProgress, StoreNext

\* No step of the customer, the operator, an execution, the provider or an order's
\* payments breaks the invariant.
LEMMA RefundNextInv == RefundInv /\ [RefundServiceNext]_refundServiceVars => RefundInv'
<1> SUFFICES ASSUME RefundInv, [RefundServiceNext]_refundServiceVars PROVE RefundInv'
  OBVIOUS
<1>1. ASSUME NEW c \in Calls, Execute(c) PROVE RefundInv'
  BY <1>1, StartExecuteInv, RequestRemotelyInv, FetchRefundInv, RecordResultInv, GiveUpInv DEF Execute
<1>2. ASSUME NEW i \in Intents, Ask(i) PROVE RefundInv'
  <2>1. StoreInv' /\ UNCHANGED <<remoteRefund, exec>>
    BY <1>2, RequestInv DEF Ask, RefundInv
  <2>2. RequestsKept /\ NoResult
    BY <1>2, AskKeepsRequests DEF RefundInv, StoreInv
  <2> QED
    BY <2>1, <2>2, RowsMoveInv
<1>3. ASSUME NEW r \in Refunds, RefundProgress(r) PROVE RefundInv'
  BY <1>3, RefundProgressInv
<1>4. CASE OrderStep /\ UNCHANGED <<remoteRefund, exec>>
  <2>1. StoreInv'
    BY <1>4, NextInv DEF RefundInv, StoreNext
  <2>2. RequestsKept /\ NoResult
    BY <1>4, OrderStepKeepsRequests DEF refundVars, RequestsKept, NoResult, Approved
  <2> QED
    BY <1>4, <2>1, <2>2, RowsMoveInv
<1>5. CASE UNCHANGED refundServiceVars
  <2>1. UNCHANGED storeVars /\ UNCHANGED <<remoteRefund, exec>>
    BY <1>5 DEF refundServiceVars
  <2>2. RequestsKept /\ NoResult
    BY <2>1 DEF storeVars, RequestsKept, NoResult, Approved
  <2> QED
    BY <2>1, <2>2, StutterInv, RowsMoveInv DEF RefundInv
<1> QED
  BY <1>1, <1>2, <1>3, <1>4, <1>5 DEF RefundServiceNext

\* Every reachable state of the refund service satisfies the inductive invariant.
THEOREM RefundInvariant == RefundServiceSpec => []RefundInv
BY RefundInitInv, RefundNextInv, PTL DEF RefundServiceSpec

\* Refund execution is a client of the payment repository: whatever executions,
\* operators and providers do, the rows change by its transactions (payment.ts over
\* payment-repository.ts), so every theorem about StoreSpec holds of them.
THEOREM RefundsUseTheStore == RefundServiceSpec => StoreSpec
<1>1. RefundServiceInit => StoreInit
  BY DEF RefundServiceInit
<1>2. RefundInv /\ [RefundServiceNext]_refundServiceVars => [StoreNext]_storeVars
  BY StepOfStore DEF refundServiceVars
<1> QED
  BY <1>1, <1>2, RefundInvariant, PTL DEF RefundServiceSpec, StoreSpec

\* However often a refund is executed, retried or executed twice at once, and whatever
\* answers are lost, a request makes at most one remote refund, approved and of the
\* payment it names (executeApprovedRefund).
THEOREM OneRefundPerRequest == RefundServiceSpec => []OneRemoteRefund
BY RefundInvariant, PTL DEF RefundInv

\* A request is refunded or failed in the database only when its own remote refund was
\* (recordRefundResult).
THEOREM RefundRowsFollowProvider == RefundServiceSpec => []RefundFollowsProvider
BY RefundInvariant, PTL DEF RefundInv

\* A late answer never undoes a result (recordRefundResult).
THEOREM ResultsNotUndone == RefundServiceSpec => ResultNotRegressed
<1> DEFINE Kept(i) ==
      /\ refundStatus[i] \in {"refunded", "failed"} => refundStatus'[i] = refundStatus[i]
      /\ refundStatus[i] = "submitted" => refundStatus'[i] \in {"submitted", "refunded", "failed"}
      /\ providerRefund[i] # None => providerRefund'[i] = providerRefund[i]
<1>1. RefundInv /\ [RefundServiceNext]_refundServiceVars
        => [\A i \in Intents : Kept(i)]_refundServiceVars
  <2> SUFFICES ASSUME RefundInv, RefundServiceNext, NEW i \in Intents PROVE Kept(i)
    OBVIOUS
  <2>1. ASSUME UNCHANGED refundVars PROVE Kept(i)
    BY <2>1 DEF refundVars
  <2>2. CASE OrderStep
    BY <2>1, <2>2, OrderStepKeepsRequests
  <2>3. CASE UNCHANGED storeVars
    BY <2>1, <2>3 DEF storeVars, refundVars
  <2>4. ASSUME NEW j \in Intents, (\E p \in Payments : RequestRefund(j, p)) \/ ApproveRefund(j)
        PROVE  Kept(i)
    BY <2>4 DEF RequestRefund, ApproveRefund, RefundInv, StoreInv, StoreTypeOK
  <2>5. ASSUME NEW j \in Intents, NEW r \in Refunds, NEW status \in RefundResults,
               RecordRefundResult(j, r, status)
        PROVE  Kept(i)
    BY <2>5 DEF RecordRefundResult, RefundResultApplies, RefundResults, RefundInv, StoreInv, StoreTypeOK
  <2> HIDE DEF Kept
  <2> QED
    BY <2>2, <2>3, <2>4, <2>5, StepOfStore DEF StoreNext, RefundStep
<1> QED
  BY <1>1, RefundInvariant, PTL DEF RefundServiceSpec, ResultNotRegressed
=============================================================================
