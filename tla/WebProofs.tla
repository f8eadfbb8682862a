------------------------------ MODULE WebProofs ------------------------------
(***************************************************************************)
(* What stands between the customer and the payment module.  The checkout  *)
(* panel, for any number of requests in flight, never opens a second       *)
(* checkout after a reported payment and never leaves the customer without *)
(* a next step.  The intake form, for any names, edits, lost answers and   *)
(* reloads, completes what the customer answered and offers the preview of *)
(* what it shows.  The rate limiter, for any budget, window and number of  *)
(* waiting statements, lets one budget through per window that a span of   *)
(* time can touch.                                                         *)
(***************************************************************************)
EXTENDS IntakeForm, CheckoutPanel, RateLimiter, FiniteSetTheorems, TLAPS

-----------------------------------------------------------------------------
(* The panel: the inductive invariant.                                     *)

\* A request that is idle is empty, one that waits for the script is a create, and an
\* answer names an order.
RequestsWellFormed ==
  \A r \in Requests :
    /\ request[r].op = "none" <=> request[r].stage = "idle"
    /\ request[r].stage = "idle" => request[r] = Idle
    /\ request[r].stage = "script" => request[r].op = "create"
    /\ request[r].stage = "answered" => request[r].answer # "none"

\* Nothing has happened before an intent that was sold is resumed.
FreshUntilResumed ==
  resumeExisting /\ ~resumed =>
    /\ order = "none" /\ ~error /\ hosted = 0 /\ ~success
    /\ \A r \in Requests : request[r] = Idle

\* Without an order there is nothing to ask for but one.
NothingWithoutOrder ==
  remote = "none" =>
    /\ order = "none" /\ hosted = 0 /\ ~success
    /\ \A r \in Requests : /\ request[r].op \in {"none", "create"}
                            /\ request[r].stage \in {"idle", "sent"}

\* One request for a checkout at a time, with no checkout open and no payment reported.
OneCreate ==
  ~overlapped =>
    \A r \in Requests : request[r].op = "create" =>
      /\ hosted = 0 /\ ~success
      /\ \A s \in Requests : request[s].op = "create" => s = r

\* A checkout is open, or a payment reported, for an order that is shown.
OrderIsShown ==
  (\/ hosted > 0 \/ success
   \/ \E r \in Requests : request[r].stage = "script") => order # "none"

\* A panel that waits for nothing is not busy.
BusyWaits == (\A r \in Requests : request[r] = Idle) => ~busy

\* An order that failed is not shown after a reported payment, once its proof is answered.
ProofUnderWay ==
  ~overlapped /\ success /\ order = "failed" => \E r \in Requests : request[r].op = "proof"

\* A resumed intent shows its order, an error, or waits for its order.
ResumeAnswered ==
  resumeExisting /\ resumed /\ order = "none" => error \/ Creating

PanelInv ==
  /\ PanelTypeOK
  /\ RequestsWellFormed
  /\ FreshUntilResumed
  /\ NothingWithoutOrder
  /\ OneCreate
  /\ OrderIsShown
  /\ BusyWaits
  /\ ProofUnderWay
  /\ ResumeAnswered

-----------------------------------------------------------------------------
(* What sending, serving and finishing a request does to the requests.     *)

\* An idle request is empty.
LEMMA IdleState == Idle \in RequestStates /\ Idle.op = "none" /\ Idle.stage = "idle"
BY DEF Idle, RequestStates, OrderStatuses

\* Sending takes an idle request and no other.
LEMMA SendFacts ==
  ASSUME request \in [Requests -> RequestStates], NEW r \in Requests,
         NEW op \in {"create", "status", "proof", "recheck"}, Send(r, op)
  PROVE  /\ request[r] = Idle
         /\ request' \in [Requests -> RequestStates]
         /\ request'[r].op = op /\ request'[r].stage = "sent" /\ request'[r] # Idle
         /\ \A s \in Requests \ {r} : request'[s] = request[s]
<1> DEFINE sending == [Idle EXCEPT !.op = op, !.stage = "sent"]
<1>1. sending \in RequestStates /\ sending.op = op /\ sending.stage = "sent" /\ sending # Idle
  BY DEF Idle, RequestStates, OrderStatuses
<1>2. request[r] = Idle /\ request' = [request EXCEPT ![r] = sending]
  BY DEF Send
<1> HIDE DEF sending
<1> QED
  BY <1>1, <1>2

\* A finished request is idle again.
LEMMA FinishFacts ==
  ASSUME request \in [Requests -> RequestStates], NEW r \in Requests, Finish(r)
  PROVE  /\ request' \in [Requests -> RequestStates]
         /\ request'[r] = Idle
         /\ \A s \in Requests \ {r} : request'[s] = request[s]
BY IdleState DEF Finish

\* Serving answers with the order the server has then.
LEMMA ServeFacts ==
  ASSUME request \in [Requests -> RequestStates], NEW r \in Requests, ServeRequest(r),
         remote \in OrderStatuses
  PROVE  /\ request[r].stage = "sent"
         /\ remote' \in OrderStatuses
         /\ request' \in [Requests -> RequestStates]
         /\ request'[r].op = request[r].op /\ request'[r].stage = "answered"
         /\ request'[r].answer = remote' /\ request'[r] # Idle
         /\ \A s \in Requests \ {r} : request'[s] = request[s]
<1>1. remote' \in OrderStatuses /\ request[r].stage = "sent"
  BY DEF ServeRequest, OrderStatuses
<1>2. PICK checkout \in BOOLEAN :
        request' = [request EXCEPT ![r].stage = "answered", ![r].answer = remote',
                                   ![r].checkout = checkout]
  BY DEF ServeRequest, IsPayable
<1> DEFINE answered == [request[r] EXCEPT !.stage = "answered", !.answer = remote',
                                          !.checkout = checkout]
<1>3. /\ answered \in RequestStates /\ answered.op = request[r].op
      /\ answered.stage = "answered" /\ answered.answer = remote'
  BY <1>1 DEF RequestStates
<1>4. answered # Idle
  BY <1>3 DEF Idle
<1>5. request' = [request EXCEPT ![r] = answered]
  BY <1>2
<1> HIDE DEF answered
<1> QED
  BY <1>1, <1>3, <1>4, <1>5

\* A checkout's script is being loaded.
LEMMA ScriptFacts ==
  ASSUME request \in [Requests -> RequestStates], NEW r \in Requests,
         request' = [request EXCEPT ![r] = [Idle EXCEPT !.op = "create", !.stage = "script"]]
  PROVE  /\ request' \in [Requests -> RequestStates]
         /\ request'[r].op = "create" /\ request'[r].stage = "script" /\ request'[r] # Idle
         /\ \A s \in Requests \ {r} : request'[s] = request[s]
<1> DEFINE loading == [Idle EXCEPT !.op = "create", !.stage = "script"]
<1>1. /\ loading \in RequestStates /\ loading.op = "create" /\ loading.stage = "script"
      /\ loading # Idle
  BY DEF Idle, RequestStates, OrderStatuses
<1>2. request' = [request EXCEPT ![r] = loading]
  OBVIOUS
<1> HIDE DEF loading
<1> QED
  BY <1>1, <1>2

\* The pay button sends a request for a checkout: only when nothing is open or reported.
LEMMA ClickPayInv ==
  ASSUME PanelInv, NEW r \in Requests, ClickPay(r)
  PROVE  PanelInv'
<1>a. /\ request[r] = Idle
      /\ request' \in [Requests -> RequestStates]
      /\ request'[r].op = "create"
      /\ request'[r].stage = "sent" /\ request'[r] # Idle
      /\ \A s \in Requests \ {r} : request'[s] = request[s]
  BY SendFacts DEF PanelInv, PanelTypeOK, ClickPay, Begin
<1>1. PanelTypeOK'
  BY <1>a, IdleState DEF PanelInv, PanelTypeOK, ClickPay, Begin
<1>2. RequestsWellFormed'
  BY <1>a, IdleState DEF PanelInv, PanelTypeOK, RequestsWellFormed, ClickPay, Begin
<1>3. FreshUntilResumed'
  BY <1>a, IdleState DEF PanelInv, FreshUntilResumed, ClickPay, Begin, PayButton,
                         IsPayable
<1>4. NothingWithoutOrder'
  BY <1>a, IdleState DEF PanelInv, NothingWithoutOrder, RequestsWellFormed, ClickPay,
                         Begin
<1>5. OneCreate'
  BY <1>a, IdleState DEF PanelInv, OneCreate, ClickPay, Begin, Clickable, Creating
<1>6. OrderIsShown'
  BY <1>a, IdleState DEF PanelInv, OrderIsShown, NothingWithoutOrder, ClickPay, Begin,
                         Clickable
<1>7. BusyWaits'
  BY <1>a, IdleState DEF PanelInv, BusyWaits, ClickPay, Begin
<1>8. ProofUnderWay'
  BY <1>a, IdleState DEF PanelInv, ProofUnderWay, OneCreate, ClickPay, Begin
<1>9. ResumeAnswered'
  BY <1>a, IdleState DEF PanelInv, ResumeAnswered, Creating, ClickPay, Begin
<1> QED
  BY <1>1, <1>2, <1>3, <1>4, <1>5, <1>6, <1>7, <1>8, <1>9 DEF PanelInv

\* A sold intent asks for its order again, once, before anything else happened.
LEMMA ResumeOnMountInv ==
  ASSUME PanelInv, NEW r \in Requests, ResumeOnMount(r)
  PROVE  PanelInv'
<1>a. /\ request[r] = Idle
      /\ request' \in [Requests -> RequestStates]
      /\ request'[r].op = "create"
      /\ request'[r].stage = "sent" /\ request'[r] # Idle
      /\ \A s \in Requests \ {r} : request'[s] = request[s]
  BY SendFacts DEF PanelInv, PanelTypeOK, ResumeOnMount, Begin
<1>1. PanelTypeOK'
  BY <1>a, IdleState DEF PanelInv, PanelTypeOK, ResumeOnMount, Begin
<1>2. RequestsWellFormed'
  BY <1>a, IdleState DEF PanelInv, PanelTypeOK, RequestsWellFormed, ResumeOnMount, Begin
<1>3. FreshUntilResumed'
  BY <1>a, IdleState DEF PanelInv, FreshUntilResumed, ResumeOnMount, Begin
<1>4. NothingWithoutOrder'
  BY <1>a, IdleState DEF PanelInv, NothingWithoutOrder, RequestsWellFormed,
                         ResumeOnMount, Begin
<1>5. OneCreate'
  BY <1>a, IdleState DEF PanelInv, OneCreate, ResumeOnMount, Begin, FreshUntilResumed,
                         Creating
<1>6. OrderIsShown'
  BY <1>a, IdleState DEF PanelInv, OrderIsShown, NothingWithoutOrder, ResumeOnMount,
                         Begin
<1>7. BusyWaits'
  BY <1>a, IdleState DEF PanelInv, BusyWaits, ResumeOnMount, Begin
<1>8. ProofUnderWay'
  BY <1>a, IdleState DEF PanelInv, ProofUnderWay, OneCreate, ResumeOnMount, Begin
<1>9. ResumeAnswered'
  BY <1>a, IdleState DEF PanelInv, ResumeAnswered, Creating, ResumeOnMount, Begin
<1> QED
  BY <1>1, <1>2, <1>3, <1>4, <1>5, <1>6, <1>7, <1>8, <1>9 DEF PanelInv

\* The check button sends a status request, or the unconfirmed proof again.
LEMMA ClickCheckInv ==
  ASSUME PanelInv, NEW r \in Requests, ClickCheck(r)
  PROVE  PanelInv'
<1>a. /\ request[r] = Idle
      /\ request' \in [Requests -> RequestStates]
      /\ request'[r].op \in {"status", "recheck"}
      /\ request'[r].stage = "sent" /\ request'[r] # Idle
      /\ \A s \in Requests \ {r} : request'[s] = request[s]
  BY SendFacts DEF PanelInv, PanelTypeOK, ClickCheck, Refresh
<1>1. PanelTypeOK'
  BY <1>a, IdleState DEF PanelInv, PanelTypeOK, ClickCheck, Refresh
<1>2. RequestsWellFormed'
  BY <1>a, IdleState DEF PanelInv, PanelTypeOK, RequestsWellFormed, ClickCheck, Refresh
<1>3. FreshUntilResumed'
  BY <1>a, IdleState DEF PanelInv, FreshUntilResumed, ClickCheck, Refresh, CheckButton
<1>4. NothingWithoutOrder'
  BY <1>a, IdleState DEF PanelInv, NothingWithoutOrder, RequestsWellFormed, ClickCheck,
                         Refresh, CheckButton
<1>5. OneCreate'
  BY <1>a, IdleState DEF PanelInv, OneCreate, ClickCheck, Refresh
<1>6. OrderIsShown'
  BY <1>a, IdleState DEF PanelInv, OrderIsShown, NothingWithoutOrder, ClickCheck,
                         Refresh
<1>7. BusyWaits'
  BY <1>a, IdleState DEF PanelInv, BusyWaits, ClickCheck, Refresh
<1>8. ProofUnderWay'
  BY <1>a, IdleState DEF PanelInv, ProofUnderWay, OneCreate, ClickCheck, Refresh
<1>9. ResumeAnswered'
  BY <1>a, IdleState DEF PanelInv, ResumeAnswered, Creating, ClickCheck, Refresh,
                         CheckButton
<1> QED
  BY <1>1, <1>2, <1>3, <1>4, <1>5, <1>6, <1>7, <1>8, <1>9 DEF PanelInv

\* A failed attempt in the hosted checkout asks for the status.
LEMMA AttemptFailsInv ==
  ASSUME PanelInv, NEW r \in Requests, AttemptFails(r)
  PROVE  PanelInv'
<1>a. /\ request[r] = Idle
      /\ request' \in [Requests -> RequestStates]
      /\ request'[r].op \in {"status", "recheck"}
      /\ request'[r].stage = "sent" /\ request'[r] # Idle
      /\ \A s \in Requests \ {r} : request'[s] = request[s]
  BY SendFacts DEF PanelInv, PanelTypeOK, AttemptFails, Refresh
<1>1. PanelTypeOK'
  BY <1>a, IdleState DEF PanelInv, PanelTypeOK, AttemptFails, Refresh
<1>2. RequestsWellFormed'
  BY <1>a, IdleState DEF PanelInv, PanelTypeOK, RequestsWellFormed, AttemptFails,
                         Refresh
<1>3. FreshUntilResumed'
  BY <1>a, IdleState DEF PanelInv, FreshUntilResumed, AttemptFails, Refresh
<1>4. NothingWithoutOrder'
  BY <1>a, IdleState DEF PanelInv, NothingWithoutOrder, RequestsWellFormed,
                         AttemptFails, Refresh
<1>5. OneCreate'
  BY <1>a, IdleState DEF PanelInv, OneCreate, AttemptFails, Refresh
<1>6. OrderIsShown'
  BY <1>a, IdleState DEF PanelInv, OrderIsShown, NothingWithoutOrder, AttemptFails,
                         Refresh
<1>7. BusyWaits'
  BY <1>a, IdleState DEF PanelInv, BusyWaits, AttemptFails, Refresh
<1>8. ProofUnderWay'
  BY <1>a, IdleState DEF PanelInv, ProofUnderWay, OneCreate, AttemptFails, Refresh
<1>9. ResumeAnswered'
  BY <1>a, IdleState DEF PanelInv, ResumeAnswered, Creating, AttemptFails, Refresh,
                         OrderIsShown
<1> QED
  BY <1>1, <1>2, <1>3, <1>4, <1>5, <1>6, <1>7, <1>8, <1>9 DEF PanelInv

\* The script is loaded: the request for a checkout becomes an open one.
LEMMA OpenHostedInv ==
  ASSUME PanelInv, NEW r \in Requests, OpenHosted(r)
  PROVE  PanelInv'
<1>a. /\ request' \in [Requests -> RequestStates]
      /\ request'[r] = Idle
      /\ \A s \in Requests \ {r} : request'[s] = request[s]
  BY FinishFacts DEF PanelInv, PanelTypeOK, OpenHosted
<1>1. PanelTypeOK'
  <2>1. hosted' \in Nat
    BY DEF PanelInv, PanelTypeOK, OpenHosted
  <2> QED
    BY <1>a, <2>1 DEF PanelInv, PanelTypeOK, OpenHosted
<1>2. RequestsWellFormed'
  BY <1>a, IdleState DEF PanelInv, PanelTypeOK, RequestsWellFormed, OpenHosted
<1>3. FreshUntilResumed'
  BY <1>a, IdleState DEF PanelInv, FreshUntilResumed, OpenHosted
<1>4. NothingWithoutOrder'
  BY <1>a, IdleState DEF PanelInv, NothingWithoutOrder, RequestsWellFormed, OpenHosted
<1>5. OneCreate'
  BY <1>a, IdleState DEF PanelInv, OneCreate, OpenHosted, RequestsWellFormed
<1>6. OrderIsShown'
  BY <1>a, IdleState DEF PanelInv, OrderIsShown, NothingWithoutOrder, OpenHosted
<1>7. BusyWaits'
  BY <1>a, IdleState DEF PanelInv, BusyWaits, OpenHosted
<1>8. ProofUnderWay'
  BY <1>a, IdleState DEF PanelInv, ProofUnderWay, OneCreate, OpenHosted,
                         RequestsWellFormed
<1>9. ResumeAnswered'
  BY <1>a, IdleState DEF PanelInv, ResumeAnswered, Creating, OpenHosted, OrderIsShown
<1> QED
  BY <1>1, <1>2, <1>3, <1>4, <1>5, <1>6, <1>7, <1>8, <1>9 DEF PanelInv

\* A status answer is shown as acceptStatus makes of it.
LEMMA AnswerStatusInv ==
  ASSUME PanelInv, NEW r \in Requests, AnswerStatus(r)
  PROVE  PanelInv'
<1>a. /\ request' \in [Requests -> RequestStates]
      /\ request'[r] = Idle
      /\ \A s \in Requests \ {r} : request'[s] = request[s]
  BY FinishFacts DEF PanelInv, PanelTypeOK, AnswerStatus
<1>b. request[r].answer \in OrderStatuses \ {"none"}
  BY DEF PanelInv, PanelTypeOK, RequestStates, RequestsWellFormed, AnswerStatus
<1>1. PanelTypeOK'
  BY <1>a, <1>b, IdleState DEF PanelInv, PanelTypeOK, AnswerStatus, AcceptStatus, Safe,
                               OrderStatuses, IsPayable
<1>2. RequestsWellFormed'
  BY <1>a, IdleState DEF PanelInv, PanelTypeOK, RequestsWellFormed, AnswerStatus,
                         AcceptStatus, Safe
<1>3. FreshUntilResumed'
  BY <1>a, <1>b, IdleState DEF PanelInv, FreshUntilResumed, AnswerStatus, AcceptStatus,
                               Safe
<1>4. NothingWithoutOrder'
  BY <1>a, IdleState DEF PanelInv, NothingWithoutOrder, RequestsWellFormed,
                         AnswerStatus, AcceptStatus, Safe
<1>5. OneCreate'
  BY <1>a, IdleState DEF PanelInv, OneCreate, AnswerStatus, AcceptStatus, Safe
<1>6. OrderIsShown'
  BY <1>a, <1>b, IdleState DEF PanelInv, OrderIsShown, NothingWithoutOrder,
                               AnswerStatus, AcceptStatus, Safe
<1>7. BusyWaits'
  BY <1>a, IdleState DEF PanelInv, BusyWaits, AnswerStatus, AcceptStatus, Safe
<1>8. ProofUnderWay'
  BY <1>a, IdleState DEF PanelInv, ProofUnderWay, OneCreate, AnswerStatus, AcceptStatus,
                         Safe
<1>9. ResumeAnswered'
  BY <1>a, <1>b, IdleState DEF PanelInv, ResumeAnswered, Creating, AnswerStatus,
                               AcceptStatus, Safe
<1> QED
  BY <1>1, <1>2, <1>3, <1>4, <1>5, <1>6, <1>7, <1>8, <1>9 DEF PanelInv

\* A request for a checkout is lost: the error makes room for another one.
LEMMA FailCreateInv ==
  ASSUME PanelInv, NEW r \in Requests, FailCreate(r)
  PROVE  PanelInv'
<1>a. /\ request' \in [Requests -> RequestStates]
      /\ request'[r] = Idle
      /\ \A s \in Requests \ {r} : request'[s] = request[s]
  BY FinishFacts DEF PanelInv, PanelTypeOK, FailCreate
<1>1. PanelTypeOK'
  BY <1>a, IdleState DEF PanelInv, PanelTypeOK, FailCreate
<1>2. RequestsWellFormed'
  BY <1>a, IdleState DEF PanelInv, PanelTypeOK, RequestsWellFormed, FailCreate
<1>3. FreshUntilResumed'
  BY <1>a, IdleState DEF PanelInv, FreshUntilResumed, FailCreate
<1>4. NothingWithoutOrder'
  BY <1>a, IdleState DEF PanelInv, NothingWithoutOrder, RequestsWellFormed, FailCreate
<1>5. OneCreate'
  BY <1>a, IdleState DEF PanelInv, OneCreate, FailCreate
<1>6. OrderIsShown'
  BY <1>a, IdleState DEF PanelInv, OrderIsShown, NothingWithoutOrder, FailCreate
<1>7. BusyWaits'
  BY <1>a, IdleState DEF PanelInv, BusyWaits, FailCreate
<1>8. ProofUnderWay'
  BY <1>a, IdleState DEF PanelInv, ProofUnderWay, OneCreate, FailCreate
<1>9. ResumeAnswered'
  BY <1>a, IdleState DEF PanelInv, ResumeAnswered, Creating, FailCreate
<1> QED
  BY <1>1, <1>2, <1>3, <1>4, <1>5, <1>6, <1>7, <1>8, <1>9 DEF PanelInv

\* A status request is lost: what is shown is kept.
LEMMA FailStatusInv ==
  ASSUME PanelInv, NEW r \in Requests, FailStatus(r)
  PROVE  PanelInv'
<1>a. /\ request' \in [Requests -> RequestStates]
      /\ request'[r] = Idle
      /\ \A s \in Requests \ {r} : request'[s] = request[s]
  BY FinishFacts DEF PanelInv, PanelTypeOK, FailStatus
<1>1. PanelTypeOK'
  BY <1>a, IdleState DEF PanelInv, PanelTypeOK, FailStatus
<1>2. RequestsWellFormed'
  BY <1>a, IdleState DEF PanelInv, PanelTypeOK, RequestsWellFormed, FailStatus
<1>3. FreshUntilResumed'
  BY <1>a, IdleState DEF PanelInv, FreshUntilResumed, FailStatus
<1>4. NothingWithoutOrder'
  BY <1>a, IdleState DEF PanelInv, NothingWithoutOrder, RequestsWellFormed, FailStatus
<1>5. OneCreate'
  BY <1>a, IdleState DEF PanelInv, OneCreate, FailStatus
<1>6. OrderIsShown'
  BY <1>a, IdleState DEF PanelInv, OrderIsShown, NothingWithoutOrder, FailStatus
<1>7. BusyWaits'
  BY <1>a, IdleState DEF PanelInv, BusyWaits, FailStatus
<1>8. ProofUnderWay'
  BY <1>a, IdleState DEF PanelInv, ProofUnderWay, OneCreate, FailStatus
<1>9. ResumeAnswered'
  BY <1>a, IdleState DEF PanelInv, ResumeAnswered, Creating, FailStatus
<1> QED
  BY <1>1, <1>2, <1>3, <1>4, <1>5, <1>6, <1>7, <1>8, <1>9 DEF PanelInv

\* A lost proof shows the order as being verified.
LEMMA FailProofInv ==
  ASSUME PanelInv, NEW r \in Requests, FailProof(r)
  PROVE  PanelInv'
<1>a. /\ request' \in [Requests -> RequestStates]
      /\ request'[r] = Idle
      /\ \A s \in Requests \ {r} : request'[s] = request[s]
  BY FinishFacts DEF PanelInv, PanelTypeOK, FailProof
<1>1. PanelTypeOK'
  BY <1>a, IdleState DEF PanelInv, PanelTypeOK, FailProof, OrderStatuses
<1>2. RequestsWellFormed'
  BY <1>a, IdleState DEF PanelInv, PanelTypeOK, RequestsWellFormed, FailProof
<1>3. FreshUntilResumed'
  BY <1>a, IdleState DEF PanelInv, FreshUntilResumed, FailProof
<1>4. NothingWithoutOrder'
  BY <1>a, IdleState DEF PanelInv, NothingWithoutOrder, RequestsWellFormed, FailProof
<1>5. OneCreate'
  BY <1>a, IdleState DEF PanelInv, OneCreate, FailProof
<1>6. OrderIsShown'
  BY <1>a, IdleState DEF PanelInv, OrderIsShown, NothingWithoutOrder, FailProof
<1>7. BusyWaits'
  BY <1>a, IdleState DEF PanelInv, BusyWaits, FailProof
<1>8. ProofUnderWay'
  BY <1>a, IdleState DEF PanelInv, ProofUnderWay, OneCreate, FailProof
<1>9. ResumeAnswered'
  BY <1>a, IdleState DEF PanelInv, ResumeAnswered, Creating, FailProof
<1> QED
  BY <1>1, <1>2, <1>3, <1>4, <1>5, <1>6, <1>7, <1>8, <1>9 DEF PanelInv

\* A reported payment closes its checkout and sends its proof, if it is complete.
LEMMA AttemptSucceedsInv ==
  ASSUME PanelInv, NEW r \in Requests, AttemptSucceeds(r)
  PROVE  PanelInv'
<1>a. \/ /\ request[r] = Idle /\ busy' = TRUE /\ order' = order
         /\ request' \in [Requests -> RequestStates]
         /\ request'[r].op = "proof" /\ request'[r].stage = "sent" /\ request'[r] # Idle
         /\ \A s \in Requests \ {r} : request'[s] = request[s]
      \/ order' = "ambiguous" /\ busy' = busy /\ request' = request
  BY SendFacts DEF PanelInv, PanelTypeOK, AttemptSucceeds
<1>1. PanelTypeOK'
  <2>1. hosted' \in Nat
    BY DEF PanelInv, PanelTypeOK, AttemptSucceeds
  <2>2. order' \in OrderStatuses /\ request' \in [Requests -> RequestStates]
    BY <1>a DEF PanelInv, PanelTypeOK, OrderStatuses
  <2> QED
    BY <2>1, <2>2 DEF PanelInv, PanelTypeOK, AttemptSucceeds, Send
<1>2. RequestsWellFormed'
  BY <1>a, IdleState DEF PanelInv, PanelTypeOK, RequestsWellFormed, AttemptSucceeds
<1>3. FreshUntilResumed'
  BY <1>a, IdleState DEF PanelInv, FreshUntilResumed, AttemptSucceeds
<1>4. NothingWithoutOrder'
  BY <1>a, IdleState DEF PanelInv, NothingWithoutOrder, RequestsWellFormed,
                         AttemptSucceeds
<1>5. OneCreate'
  BY <1>a, IdleState DEF PanelInv, OneCreate, AttemptSucceeds
<1>6. OrderIsShown'
  BY <1>a, IdleState DEF PanelInv, OrderIsShown, NothingWithoutOrder, AttemptSucceeds
<1>7. BusyWaits'
  BY <1>a, IdleState DEF PanelInv, BusyWaits, AttemptSucceeds
<1>8. ProofUnderWay'
  BY <1>a, IdleState DEF PanelInv, ProofUnderWay, OneCreate, AttemptSucceeds
<1>9. ResumeAnswered'
  BY <1>a, IdleState DEF PanelInv, ResumeAnswered, Creating, AttemptSucceeds
<1> QED
  BY <1>1, <1>2, <1>3, <1>4, <1>5, <1>6, <1>7, <1>8, <1>9 DEF PanelInv

\* A served create leaves an order on the server; everything else reads it.
LEMMA ServeRequestInv ==
  ASSUME PanelInv, NEW r \in Requests, ServeRequest(r)
  PROVE  PanelInv'
<1>a. /\ request[r].stage = "sent"
      /\ remote' \in OrderStatuses /\ request' \in [Requests -> RequestStates]
      /\ request'[r].op = request[r].op /\ request'[r].stage = "answered"
      /\ request'[r].answer = remote' /\ request'[r] # Idle
      /\ \A s \in Requests \ {r} : request'[s] = request[s]
  BY ServeFacts DEF PanelInv, PanelTypeOK
<1>1. PanelTypeOK'
  BY <1>a, IdleState DEF PanelInv, PanelTypeOK, ServeRequest, shown
<1>2. RequestsWellFormed'
  BY <1>a, IdleState DEF PanelInv, PanelTypeOK, RequestsWellFormed, ServeRequest, shown,
                         NothingWithoutOrder
<1>3. FreshUntilResumed'
  BY <1>a, IdleState DEF PanelInv, FreshUntilResumed, ServeRequest, shown
<1>4. NothingWithoutOrder'
  BY <1>a, IdleState DEF PanelInv, NothingWithoutOrder, RequestsWellFormed,
                         ServeRequest, shown
<1>5. OneCreate'
  BY <1>a, IdleState DEF PanelInv, OneCreate, ServeRequest, shown
<1>6. OrderIsShown'
  BY <1>a, IdleState DEF PanelInv, OrderIsShown, NothingWithoutOrder, ServeRequest,
                         shown
<1>7. BusyWaits'
  BY <1>a, IdleState DEF PanelInv, BusyWaits, ServeRequest, shown
<1>8. ProofUnderWay'
  BY <1>a, IdleState DEF PanelInv, ProofUnderWay, OneCreate, ServeRequest, shown
<1>9. ResumeAnswered'
  BY <1>a, IdleState DEF PanelInv, ResumeAnswered, Creating, ServeRequest, shown
<1> QED
  BY <1>1, <1>2, <1>3, <1>4, <1>5, <1>6, <1>7, <1>8, <1>9 DEF PanelInv

\* The answer to create shows the order, and loads the script if it is payable.
LEMMA AnswerCreateInv ==
  ASSUME PanelInv, NEW r \in Requests, AnswerCreate(r)
  PROVE  PanelInv'
<1>a. /\ request' \in [Requests -> RequestStates]
      /\ \/ request'[r] = Idle /\ busy' = FALSE
         \/ /\ request'[r].op = "create" /\ request'[r].stage = "script" /\ request'[r] # Idle
            /\ busy' = busy
      /\ \A s \in Requests \ {r} : request'[s] = request[s]
  BY FinishFacts, ScriptFacts DEF PanelInv, PanelTypeOK, AnswerCreate
<1>b. request[r].answer \in OrderStatuses \ {"none"}
  BY DEF PanelInv, PanelTypeOK, RequestStates, RequestsWellFormed, AnswerCreate
<1>1. PanelTypeOK'
  BY <1>a, <1>b, IdleState DEF PanelInv, PanelTypeOK, AnswerCreate
<1>2. RequestsWellFormed'
  BY <1>a, IdleState DEF PanelInv, PanelTypeOK, RequestsWellFormed, AnswerCreate
<1>3. FreshUntilResumed'
  BY <1>a, <1>b, IdleState DEF PanelInv, FreshUntilResumed, AnswerCreate
<1>4. NothingWithoutOrder'
  BY <1>a, IdleState DEF PanelInv, NothingWithoutOrder, RequestsWellFormed, AnswerCreate
<1>5. OneCreate'
  BY <1>a, IdleState DEF PanelInv, OneCreate, AnswerCreate
<1>6. OrderIsShown'
  BY <1>a, <1>b, IdleState DEF PanelInv, OrderIsShown, NothingWithoutOrder, AnswerCreate
<1>7. BusyWaits'
  BY <1>a, IdleState DEF PanelInv, BusyWaits, AnswerCreate
<1>8. ProofUnderWay'
  BY <1>a, IdleState DEF PanelInv, ProofUnderWay, OneCreate, AnswerCreate
<1>9. ResumeAnswered'
  BY <1>a, <1>b, IdleState DEF PanelInv, ResumeAnswered, Creating, AnswerCreate
<1> QED
  BY <1>1, <1>2, <1>3, <1>4, <1>5, <1>6, <1>7, <1>8, <1>9 DEF PanelInv

\* A dismissed checkout leaves the order it was opened for.
LEMMA DismissInv ==
  ASSUME PanelInv, Dismiss
  PROVE  PanelInv'
<1>1. PanelTypeOK'
  BY DEF PanelInv, PanelTypeOK, Dismiss
<1>2. RequestsWellFormed'
  BY DEF PanelInv, PanelTypeOK, RequestsWellFormed, Dismiss
<1>3. FreshUntilResumed'
  BY DEF PanelInv, FreshUntilResumed, Dismiss
<1>4. NothingWithoutOrder'
  BY DEF PanelInv, NothingWithoutOrder, RequestsWellFormed, Dismiss
<1>5. OneCreate'
  BY DEF PanelInv, OneCreate, Dismiss
<1>6. OrderIsShown'
  BY DEF PanelInv, OrderIsShown, NothingWithoutOrder, Dismiss
<1>7. BusyWaits'
  BY DEF PanelInv, BusyWaits, Dismiss
<1>8. ProofUnderWay'
  BY DEF PanelInv, ProofUnderWay, OneCreate, Dismiss
<1>9. ResumeAnswered'
  BY DEF PanelInv, ResumeAnswered, Creating, Dismiss
<1> QED
  BY <1>1, <1>2, <1>3, <1>4, <1>5, <1>6, <1>7, <1>8, <1>9 DEF PanelInv

\* The server's order moves on its own, and never back to none.
LEMMA RemoteMovesInv ==
  ASSUME PanelInv, RemoteMoves
  PROVE  PanelInv'
<1>1. PanelTypeOK'
  BY DEF PanelInv, PanelTypeOK, RemoteMoves, shown, OrderStatuses
<1>2. RequestsWellFormed'
  BY DEF PanelInv, PanelTypeOK, RequestsWellFormed, RemoteMoves, shown
<1>3. FreshUntilResumed'
  BY DEF PanelInv, FreshUntilResumed, RemoteMoves, shown
<1>4. NothingWithoutOrder'
  BY DEF PanelInv, NothingWithoutOrder, RequestsWellFormed, RemoteMoves, shown
<1>5. OneCreate'
  BY DEF PanelInv, OneCreate, RemoteMoves, shown
<1>6. OrderIsShown'
  BY DEF PanelInv, OrderIsShown, NothingWithoutOrder, RemoteMoves, shown
<1>7. BusyWaits'
  BY DEF PanelInv, BusyWaits, RemoteMoves, shown
<1>8. ProofUnderWay'
  BY DEF PanelInv, ProofUnderWay, OneCreate, RemoteMoves, shown
<1>9. ResumeAnswered'
  BY DEF PanelInv, ResumeAnswered, Creating, RemoteMoves, shown
<1> QED
  BY <1>1, <1>2, <1>3, <1>4, <1>5, <1>6, <1>7, <1>8, <1>9 DEF PanelInv

-----------------------------------------------------------------------------
(* The panel: the invariant is inductive.                                  *)

\* The invariant holds when the panel is mounted.
LEMMA InitInv == PanelInit => PanelInv
<1> SUFFICES ASSUME PanelInit PROVE PanelInv
  OBVIOUS
<1>1. \A r \in Requests : request[r] = Idle
  BY DEF PanelInit
<1>2. request \in [Requests -> RequestStates]
  BY IdleState DEF PanelInit
<1>3. PanelTypeOK
  BY <1>2 DEF PanelInit, PanelTypeOK, OrderStatuses
<1>4. RequestsWellFormed /\ FreshUntilResumed /\ NothingWithoutOrder /\ BusyWaits
  BY <1>1, IdleState DEF PanelInit, RequestsWellFormed, FreshUntilResumed,
                         NothingWithoutOrder, BusyWaits
<1>5. OneCreate /\ OrderIsShown /\ ProofUnderWay /\ ResumeAnswered
  BY <1>1, IdleState DEF PanelInit, OneCreate, OrderIsShown, ProofUnderWay,
                         ResumeAnswered
<1> QED
  BY <1>3, <1>4, <1>5 DEF PanelInv

\* No step of the customer, the network or the server breaks it.
LEMMA StepInv == PanelInv /\ [PanelNext]_panelVars => PanelInv'
<1> SUFFICES ASSUME PanelInv, [PanelNext]_panelVars PROVE PanelInv'
  OBVIOUS
<1>1. CASE Dismiss
  BY <1>1, DismissInv
<1>2. CASE RemoteMoves
  BY <1>2, RemoteMovesInv
<1>3. ASSUME NEW r \in Requests, PanelRequest(r) PROVE PanelInv'
  <2>1. CASE ClickPay(r) \/ ResumeOnMount(r) \/ ClickCheck(r)
    BY <2>1, ClickPayInv, ResumeOnMountInv, ClickCheckInv
  <2>2. CASE AttemptFails(r) \/ AttemptSucceeds(r)
    BY <2>2, AttemptFailsInv, AttemptSucceedsInv
  <2>3. CASE ServeRequest(r)
    BY <2>3, ServeRequestInv
  <2>4. CASE AnswerCreate(r) \/ OpenHosted(r) \/ AnswerStatus(r)
    BY <2>4, AnswerCreateInv, OpenHostedInv, AnswerStatusInv
  <2>5. CASE FailCreate(r) \/ FailStatus(r) \/ FailProof(r)
    BY <2>5, FailCreateInv, FailStatusInv, FailProofInv
  <2> QED
    BY <1>3, <2>1, <2>2, <2>3, <2>4, <2>5 DEF PanelRequest
<1>4. CASE UNCHANGED panelVars
  BY <1>4 DEF panelVars, PanelInv, PanelTypeOK, RequestsWellFormed, FreshUntilResumed,
              NothingWithoutOrder, OneCreate, OrderIsShown, BusyWaits, ProofUnderWay,
              ResumeAnswered, Creating
<1> QED
  BY <1>1, <1>2, <1>3, <1>4 DEF PanelNext

\* Every reachable state of the panel satisfies the inductive invariant.
THEOREM PanelInvariant == PanelSpec => []PanelInv
<1> QED
  BY InitInv, StepInv, PTL DEF PanelSpec

-----------------------------------------------------------------------------
(* What follows from it.                                                   *)

\* With nothing under way and an order that is not settled, the customer can check the
\* payment, or pay when none was reported: no button is missing after any interleaving.
THEOREM PanelHasNextStep == PanelSpec => []NoDeadEnd
<1>1. PanelInv => NoDeadEnd
  <2> SUFFICES ASSUME PanelInv,
                      \A r \in Requests : request[r] = Idle,
                      order \notin {"paid", "refunded", "expired"},
                      ~overlapped, resumeExisting => resumed
               PROVE  ~busy /\ (CheckButton \/ (PayButton /\ ~success))
    BY DEF NoDeadEnd
  <2>1. ~busy
    BY DEF PanelInv, BusyWaits
  <2>2. CASE order = "none"
    <3>1. ~success
      BY <2>2 DEF PanelInv, OrderIsShown
    <3>2. ~Creating
      BY IdleState DEF Creating
    <3>3. ~resumeExisting \/ error
      BY <2>2, <3>2 DEF PanelInv, ResumeAnswered
    <3> QED
      BY <2>1, <2>2, <3>1, <3>3 DEF PayButton
  <2>3. CASE order = "failed"
    <3>1. ~success
      BY <2>3, IdleState DEF PanelInv, ProofUnderWay
    <3> QED
      BY <2>1, <2>3, <3>1 DEF PayButton, IsPayable
  <2>4. CASE order \in {"ambiguous", "pending"}
    BY <2>1, <2>4 DEF CheckButton
  <2> QED
    BY <2>2, <2>3, <2>4 DEF PanelInv, PanelTypeOK, OrderStatuses
<1> QED
  BY <1>1, PanelInvariant, PTL

\* Once a payment was reported no further hosted checkout opens: the only step that
\* opens one ends a request for a checkout, and those are over before a payment is made.
THEOREM PanelChargesOnce == PanelSpec => SuccessIsNotRepaid
<1>1. PanelInv /\ [PanelNext]_panelVars
        => [success /\ ~overlapped => hosted' <= hosted]_panelVars
  <2> SUFFICES ASSUME PanelInv, PanelNext, success, ~overlapped PROVE hosted' <= hosted
    BY DEF panelVars
  <2> hosted \in Nat
    BY DEF PanelInv, PanelTypeOK
  <2>1. ASSUME hosted' = hosted - 1 PROVE hosted' <= hosted
    BY <2>1
  <2>2. ASSUME NEW r \in Requests, OpenHosted(r) PROVE FALSE
    <3>1. request[r].op = "create"
      BY <2>2 DEF OpenHosted, PanelInv, RequestsWellFormed
    <3> QED
      BY <3>1 DEF PanelInv, OneCreate
  <2>3. ASSUME hosted' = hosted PROVE hosted' <= hosted
    BY <2>3
  <2> QED
    BY <2>1, <2>2, <2>3 DEF PanelNext, PanelRequest, Dismiss, AttemptSucceeds,
                            RemoteMoves, ClickPay, ResumeOnMount, ClickCheck,
                            AttemptFails, ServeRequest, shown, AnswerCreate,
                            AnswerStatus, FailCreate, FailStatus, FailProof
<1> QED
  BY <1>1, PanelInvariant, PTL DEF PanelSpec, SuccessIsNotRepaid

-----------------------------------------------------------------------------
(* The limiter: arithmetic.                                                *)

LEMMA ProductMonotone ==
  ASSUME NEW a \in Int, NEW b \in Int, NEW w \in Nat, a <= b
  PROVE  a * w <= b * w
<1>1. (b - a) * w >= 0
  OBVIOUS
<1>2. (b - a) * w = b * w - a * w
  OBVIOUS
<1>3. a * w \in Int /\ b * w \in Int
  OBVIOUS
<1> QED
  BY <1>1, <1>2, <1>3

LEMMA Quotient ==
  ASSUME NEW x \in Nat, NEW w \in Nat \ {0}
  PROVE  /\ x \div w \in Nat
         /\ (x \div w) * w \in Nat /\ (x \div w) * w <= x /\ x < (x \div w) * w + w
<1>1. x \div w \in Int
  OBVIOUS
<1>2. (x \div w) * w <= x
  OBVIOUS
<1>3. x < (x \div w) * w + w
  OBVIOUS
<1>4. x \div w >= 0
  OBVIOUS
<1>5. (x \div w) * w \in Nat
  BY <1>1, <1>4
<1> QED
  BY <1>1, <1>2, <1>3, <1>4, <1>5

\* Quotients follow their dividends, and tell those apart that differ by the divisor.
LEMMA QuotientMonotone ==
  ASSUME NEW x \in Nat, NEW y \in Nat, NEW w \in Nat \ {0}
  PROVE  /\ x <= y => x \div w <= y \div w
         /\ x + w <= y => x \div w < y \div w
<1> DEFINE p == x \div w
           q == y \div w
<1>1. /\ p \in Nat /\ q \in Nat /\ p * w \in Nat /\ q * w \in Nat
      /\ p * w <= x /\ x < p * w + w /\ q * w <= y /\ y < q * w + w
  BY Quotient
<1> HIDE DEF p, q
<1>2. x <= y => p <= q
  <2> SUFFICES ASSUME x <= y, q < p PROVE FALSE
    BY <1>1
  <2>1. (q + 1) * w <= p * w
    BY <1>1, ProductMonotone
  <2>2. (q + 1) * w = q * w + w
    BY <1>1
  <2> QED
    BY <1>1, <2>1, <2>2
<1>3. x + w <= y => p < q
  <2> SUFFICES ASSUME x + w <= y, q <= p PROVE FALSE
    BY <1>1
  <2>1. q * w <= p * w
    BY <1>1, ProductMonotone
  <2> QED
    BY <1>1, <2>1
<1> QED
  BY <1>2, <1>3 DEF p, q

\* There are n numbers below n.
LEMMA Initial ==
  ASSUME NEW n \in Nat
  PROVE  IsFiniteSet(0 .. n - 1) /\ Cardinality(0 .. n - 1) = n
<1>1. n - 1 \in Int /\ 0 \in Int
  OBVIOUS
<1>2. /\ IsFiniteSet(0 .. n - 1)
      /\ Cardinality(0 .. n - 1) = IF 0 > n - 1 THEN 0 ELSE (n - 1) - 0 + 1
  BY <1>1, FS_Interval
<1> QED
  BY <1>2

LEMMA Bounds ==
  /\ Limit \in Nat \ {0} /\ Window \in Nat \ {0} /\ MaxDelay \in Nat /\ MaxAge \in Nat
  /\ Remembered \in Nat /\ MaxDelay <= Remembered
  /\ Horizon \in Nat /\ Absent = Horizon + 1 /\ Horizon >= Window + 3 * MaxDelay
  /\ Horizon = MaxAge + MaxDelay /\ MaxAge >= Window + 2 * MaxDelay
BY LimiterBounds DEF Horizon, Absent

LEMMA SmallerOf ==
  ASSUME NEW a \in Int, NEW b \in Int
  PROVE  Min({a, b}) = IF a <= b THEN a ELSE b
<1>1. \E x \in {a, b} : \A y \in {a, b} : x <= y
  BY SMT
<1> QED
  BY <1>1 DEF Min

-----------------------------------------------------------------------------
(* The limiter: the inductive invariant.                                   *)

Rows == [count : 0 .. Limit + 1, started : 0 .. Absent, updated : 0 .. Absent]

\* A statement waits no longer than MaxDelay, and so was sampled little before the window
\* it is counted in, if at all; the row was used as late as that.
WaitsOK ==
  /\ \A s \in Statements : sampled[s] = Absent \/ sampled[s] <= MaxDelay
  /\ bucket # NoRow => bucket.started <= Horizon /\ bucket.updated <= bucket.started + MaxDelay
  /\ \A g \in granted : g.age <= g.window + MaxDelay /\ g.window < g.age + Window

\* A request that was allowed is one of those the row counts, or was counted in a window
\* that was over when the row's began.  Of a row that is gone, or too old for the ages
\* to tell, the next statement finds the window over.
CountedOK ==
  \A g \in granted :
    \/ g.window = bucket.started /\ g.count <= bucket.count
    \/ g.window >= bucket.started + Window
    \/ g.window >= MaxDelay + Window /\ bucket.started >= MaxDelay + Window

\* Windows do not overlap, and a window counts up.
WindowsApart ==
  \A g, h \in granted :
    \/ g.window >= h.window + Window
    \/ h.window >= g.window + Window
    \/ g.window = h.window /\ (g.count = h.count => g = h)

LimiterInv == LimiterTypeOK /\ WaitsOK /\ CountedOK /\ WindowsApart

LEMMA LimiterTypes ==
  ASSUME LimiterTypeOK
  PROVE  /\ bucket \in Rows /\ bucket.count \in 0 .. Limit + 1
         /\ bucket.started \in 0 .. Absent /\ bucket.updated \in 0 .. Absent
         /\ \A s \in Statements : sampled[s] \in 0 .. Absent
         /\ \A g \in granted : /\ g.count \in 1 .. Limit /\ g.window \in 0 .. Remembered + Window
                               /\ g.age \in 0 .. Remembered
BY DEF LimiterTypeOK, Rows

LEMMA NoRowFields ==
  NoRow \in Rows /\ NoRow.started = Absent /\ NoRow.count = 0
BY Bounds DEF NoRow, Rows

-----------------------------------------------------------------------------
(* The limiter: its steps.                                                 *)

LEMMA LimiterInitInv ==
  ASSUME LimiterInit
  PROVE  LimiterInv
<1>1. bucket = NoRow /\ granted = {} /\ sampled = [s \in Statements |-> Absent]
  BY DEF LimiterInit
<1>2. Absent \in 0 .. Absent
  BY Bounds
<1>3. LimiterTypeOK
  BY <1>1, <1>2, NoRowFields DEF LimiterTypeOK, Rows
<1> QED
  BY <1>1, <1>3 DEF LimiterInv, WaitsOK, CountedOK, WindowsApart

LEMMA SampleInv ==
  ASSUME LimiterInv, NEW s \in Statements, Sample(s)
  PROVE  LimiterInv'
<1>1. UNCHANGED <<bucket, granted>> /\ sampled' = [sampled EXCEPT ![s] = 0]
  BY DEF Sample
<1>2. 0 \in 0 .. Absent /\ 0 <= MaxDelay
  BY Bounds
<1>3. LimiterTypeOK'
  BY <1>1, <1>2 DEF LimiterInv, LimiterTypeOK
<1>4. WaitsOK'
  BY <1>1, <1>2 DEF LimiterInv, LimiterTypeOK, WaitsOK
<1>5. CountedOK' /\ WindowsApart'
  BY <1>1 DEF LimiterInv, CountedOK, WindowsApart
<1> QED
  BY <1>3, <1>4, <1>5 DEF LimiterInv

\* A row nobody has used for so long belongs to a window that is over.
LEMMA PurgeInv ==
  ASSUME LimiterInv, PurgeExpired
  PROVE  LimiterInv'
<1>1. /\ bucket # NoRow /\ bucket.updated >= MaxAge /\ bucket' = NoRow
      /\ UNCHANGED <<sampled, granted>>
  BY DEF PurgeExpired
<1>2. LimiterTypeOK'
  BY <1>1, NoRowFields DEF LimiterInv, LimiterTypeOK, Rows
<1>3. WaitsOK' /\ WindowsApart'
  BY <1>1 DEF LimiterInv, WaitsOK, WindowsApart
<1>4. bucket.started >= MaxDelay + Window
  BY <1>1, LimiterTypes, Bounds DEF LimiterInv, WaitsOK
<1>5. ASSUME NEW g \in granted
      PROVE  g.window >= MaxDelay + Window
  <2>1. g.window \in Nat /\ bucket.started \in Nat
    BY LimiterTypes, Bounds DEF LimiterInv
  <2> QED
    BY <1>4, <2>1, Bounds DEF LimiterInv, CountedOK
<1>6. CountedOK'
  BY <1>1, <1>5, NoRowFields, Bounds DEF CountedOK
<1> QED
  BY <1>2, <1>3, <1>6 DEF LimiterInv

\* The row a statement leaves: a new window, apart from all that requests were allowed in,
\* or one more request of the window it found.
LEMMA WrittenRow ==
  ASSUME LimiterInv, NEW sample \in 0 .. MaxDelay
  PROVE  /\ Written(sample) \in Rows /\ Written(sample) # NoRow
         /\ Written(sample).started <= Horizon /\ Written(sample).updated = sample
         /\ sample <= Written(sample).started + MaxDelay
         /\ Written(sample).started < sample + Window
         /\ Written(sample).count >= 1
         /\ \/ Written(sample).count = Limit + 1
            \/ \A g \in granted : g.window >= Written(sample).started + Window
            \/ /\ Written(sample).count = bucket.count + 1
               /\ Written(sample).started = bucket.started
         /\ \A g \in granted :
              \/ g.window >= Written(sample).started + Window
              \/ /\ g.window = Written(sample).started /\ g.window = bucket.started
                 /\ g.count <= bucket.count /\ g.count <= Written(sample).count
<1> DEFINE new == [count |-> 1, started |-> sample, updated |-> sample]
           more == [count |-> Min({bucket.count + 1, Limit + 1}), started |-> bucket.started,
                    updated |-> sample]
<1>1. /\ sample \in Nat /\ sample <= MaxDelay
      /\ bucket.count \in Nat /\ bucket.count <= Limit + 1
      /\ bucket.started \in Nat /\ bucket.started <= Absent /\ Horizon \in Nat
      /\ \A g \in granted : g.window \in Nat /\ g.count \in Nat /\ g.count <= Limit
  BY LimiterTypes, Bounds DEF LimiterInv
<1>2. CASE bucket = NoRow \/ WindowOver(sample)
  <2>1. Written(sample) = new
    BY <1>2 DEF Written
  <2>2. /\ new \in Rows /\ new.count = 1 /\ new.started = sample /\ new.updated = sample
    BY <1>1, Bounds DEF Rows
  <2>3. bucket.started >= sample + Window
    BY <1>1, <1>2, NoRowFields, Bounds DEF WindowOver
  <2>4. \A g \in granted : g.window >= sample + Window
    BY <1>1, <2>3, Bounds DEF LimiterInv, CountedOK
  <2>5. new # NoRow
    BY <1>1, <2>2, NoRowFields
  <2> HIDE DEF new
  <2> QED
    BY <1>1, <2>1, <2>2, <2>4, <2>5, Bounds
<1>3. CASE bucket # NoRow /\ ~WindowOver(sample)
  <2>1. Written(sample) = more
    BY <1>3 DEF Written
  <2>2. Min({bucket.count + 1, Limit + 1}) = IF bucket.count = Limit + 1 THEN Limit + 1
                                             ELSE bucket.count + 1
    BY <1>1, SmallerOf, Bounds
  <2>3. /\ more \in Rows /\ more.started = bucket.started /\ more.updated = sample
        /\ more.count \in {bucket.count + 1, Limit + 1} /\ more.count >= bucket.count
        /\ more.count >= 1
    BY <1>1, <2>2, Bounds DEF Rows
  <2>4. bucket.started < sample + Window /\ bucket.started <= Horizon
    BY <1>1, <1>3, Bounds DEF WindowOver, LimiterInv, WaitsOK
  <2>5. \A g \in granted : \/ g.window = bucket.started /\ g.count <= bucket.count
                           \/ g.window >= bucket.started + Window
    BY <1>1, <2>4, Bounds DEF LimiterInv, CountedOK
  <2>6. more # NoRow
    BY <2>3, NoRowFields
  <2> HIDE DEF more
  <2> QED
    BY <1>1, <2>1, <2>3, <2>4, <2>5, <2>6, Bounds
<1> QED
  BY <1>2, <1>3

LEMMA ConsumeInv ==
  ASSUME LimiterInv, NEW s \in Statements, NEW allowed \in BOOLEAN, Consume(s, allowed)
  PROVE  LimiterInv'
<1> DEFINE sample == sampled[s]
           grant == Grant(bucket', sample)
<1>1. /\ sample # Absent /\ bucket' = Written(sample)
      /\ sampled' = [sampled EXCEPT ![s] = Absent]
      /\ granted' = IF bucket'.count <= Limit THEN granted \cup {grant} ELSE granted
  BY DEF Consume
<1>2. sample \in 0 .. MaxDelay /\ sample \in Nat
  BY <1>1, LimiterTypes, Bounds DEF LimiterInv, WaitsOK
<1> HIDE DEF sample
<1>3. /\ bucket' \in Rows /\ bucket' # NoRow
      /\ bucket'.started <= Horizon /\ bucket'.updated = sample
      /\ sample <= bucket'.started + MaxDelay /\ bucket'.started < sample + Window
      /\ bucket'.count >= 1
      /\ \/ bucket'.count = Limit + 1
         \/ \A g \in granted : g.window >= bucket'.started + Window
         \/ bucket'.count = bucket.count + 1 /\ bucket'.started = bucket.started
      /\ \A g \in granted :
           \/ g.window >= bucket'.started + Window
           \/ /\ g.window = bucket'.started /\ g.window = bucket.started
              /\ g.count <= bucket.count /\ g.count <= bucket'.count
  BY <1>1, <1>2, WrittenRow
<1>4. bucket'.count \in Nat /\ bucket'.started \in Nat /\ bucket'.count <= Limit + 1
  BY <1>3, Bounds DEF Rows
<1>5. /\ grant.count = bucket'.count /\ grant.window = bucket'.started /\ grant.age = sample
  BY DEF Grant
<1> HIDE DEF grant
<1>6. granted' = granted \/ (bucket'.count <= Limit /\ granted' = granted \cup {grant})
  BY <1>1
<1>7. /\ grant.count \in 1 .. Limit + 1 /\ grant.window \in 0 .. Remembered + Window
      /\ grant.age \in 0 .. Remembered /\ grant.age <= grant.window + MaxDelay
      /\ grant.window < grant.age + Window
  BY <1>2, <1>3, <1>4, <1>5, Bounds
<1>8. LimiterTypeOK'
  <2>1. bucket' \in [count : 0 .. Limit + 1, started : 0 .. Absent, updated : 0 .. Absent]
    BY <1>3 DEF Rows
  <2>2. sampled' \in [Statements -> 0 .. Absent]
    BY <1>1, Bounds DEF LimiterInv, LimiterTypeOK
  <2>3. bucket'.count <= Limit => grant.count \in 1 .. Limit
    BY <1>3, <1>4, <1>5, Bounds
  <2> QED
    BY <1>6, <1>7, <2>1, <2>2, <2>3 DEF LimiterInv, LimiterTypeOK
<1>9. WaitsOK'
  <2>1. \A t \in Statements : sampled'[t] = Absent \/ sampled'[t] <= MaxDelay
    BY <1>1 DEF LimiterInv, LimiterTypeOK, WaitsOK
  <2>2. bucket'.updated <= bucket'.started + MaxDelay
    BY <1>3
  <2>3. \A g \in granted' : g.age <= g.window + MaxDelay /\ g.window < g.age + Window
    BY <1>6, <1>7 DEF LimiterInv, WaitsOK
  <2> QED
    BY <1>3, <2>1, <2>2, <2>3 DEF WaitsOK
<1>10. CountedOK'
  BY <1>3, <1>4, <1>5, <1>6 DEF CountedOK
<1>11. WindowsApart'
  <2> SUFFICES ASSUME NEW g \in granted, bucket'.count <= Limit
               PROVE  g.window >= grant.window + Window \/ (g.window = grant.window /\ g.count # grant.count)
    BY <1>6 DEF LimiterInv, WindowsApart
  <2>1. g.count \in Nat /\ g.window \in Nat /\ bucket.count \in Nat /\ bucket.started \in Nat /\ Window > 0
    BY LimiterTypes, Bounds DEF LimiterInv
  <2> QED
    BY <1>3, <1>4, <1>5, <2>1, Bounds
<1> QED
  BY <1>8, <1>9, <1>10, <1>11 DEF LimiterInv

\* Time passes for all of them alike, until an age is past telling.
LEMMA TickInv ==
  ASSUME LimiterInv, LimiterTick
  PROVE  LimiterInv'
<1>1. /\ \A s \in Statements : sampled[s] # Absent => sampled[s] < MaxDelay
      /\ bucket' = IF bucket = NoRow THEN NoRow
                   ELSE [bucket EXCEPT !.started = Aged(@), !.updated = Aged(@)]
      /\ sampled' = [s \in Statements |-> IF sampled[s] = Absent THEN Absent ELSE sampled[s] + 1]
  BY DEF LimiterTick
<1>2. /\ bucket \in Rows /\ bucket.started \in Nat /\ bucket.updated \in Nat
      /\ bucket.started <= Absent /\ bucket.updated <= Absent /\ bucket.count \in 0 .. Limit + 1
      /\ bucket = NoRow => bucket.started = Absent
      /\ bucket # NoRow => bucket.started <= Horizon /\ bucket.updated <= bucket.started + MaxDelay
  BY LimiterTypes, NoRowFields, Bounds DEF LimiterInv, WaitsOK
<1>3. ASSUME bucket # NoRow
      PROVE  /\ bucket'.started = Aged(bucket.started) /\ bucket'.updated = Aged(bucket.updated)
             /\ bucket'.count = bucket.count /\ DOMAIN bucket' = DOMAIN bucket
             /\ bucket' = [count |-> bucket.count, started |-> Aged(bucket.started),
                           updated |-> Aged(bucket.updated)]
  BY <1>1, <1>2, <1>3 DEF Rows
\* The start of the window is a tick older, or so old that no age tells.
<1>4. /\ bucket'.started \in 0 .. Absent /\ bucket'.updated \in 0 .. Absent
      /\ bucket'.count = bucket.count /\ bucket'.started >= bucket.started
      /\ bucket'.started <= bucket.started + 1
      /\ bucket'.started = bucket.started + 1 \/ bucket'.started >= Horizon
      /\ bucket' # NoRow => bucket'.started <= Horizon /\ bucket'.updated <= bucket'.started + MaxDelay
  <2>1. CASE bucket = NoRow
    <3>1. bucket' = NoRow
      BY <1>1, <2>1
    <3> QED
      BY <1>2, <2>1, <3>1, NoRowFields, Bounds DEF NoRow
  <2>2. CASE bucket # NoRow
    BY <1>2, <1>3, <2>2, Bounds DEF Aged
  <2> QED
    BY <2>1, <2>2
<1>5. bucket' \in Rows
  <2>1. CASE bucket = NoRow
    BY <1>1, <2>1, NoRowFields
  <2>2. CASE bucket # NoRow
    BY <1>2, <1>3, <1>4, <2>2 DEF Rows
  <2> QED
    BY <2>1, <2>2
<1>6. ASSUME NEW g \in granted'
      PROVE  \E h \in granted : h.age < Remembered /\ g = Older(h)
  BY DEF LimiterTick
<1>7. \A h : /\ Older(h).count = h.count /\ Older(h).window = h.window + 1
             /\ Older(h).age = h.age + 1
  BY DEF Older
<1>8. \A h \in granted : /\ h.count \in 1 .. Limit /\ h.window \in 0 .. Remembered + Window
                         /\ h.age \in 0 .. Remembered /\ h.age <= h.window + MaxDelay
                         /\ h.window < h.age + Window
  BY LimiterTypes DEF LimiterInv, WaitsOK
<1>9. LimiterTypeOK'
  <2>1. sampled' \in [Statements -> 0 .. Absent]
    BY <1>1, Bounds DEF LimiterInv, LimiterTypeOK, WaitsOK
  <2>2. ASSUME NEW g \in granted'
        PROVE  /\ g.count \in 1 .. Limit /\ g.window \in 0 .. Remembered + Window
               /\ g.age \in 0 .. Remembered
    <3>1. PICK h \in granted : h.age < Remembered /\ g = Older(h)
      BY <1>6
    <3>2. g.count = h.count /\ g.window = h.window + 1 /\ g.age = h.age + 1
      BY <1>7, <3>1
    <3>3. h.count \in 1 .. Limit /\ h.window \in Nat /\ h.age \in Nat /\ h.window < h.age + Window
      BY <1>8, Bounds
    <3> QED
      BY <3>1, <3>2, <3>3, Bounds
  <2> QED
    BY <1>5, <2>1, <2>2 DEF LimiterTypeOK, Rows
<1>10. WaitsOK'
  <2>1. \A s \in Statements : sampled'[s] = Absent \/ sampled'[s] <= MaxDelay
    BY <1>1, LimiterTypes, Bounds DEF LimiterInv
  <2>2. ASSUME NEW g \in granted'
        PROVE  g.age <= g.window + MaxDelay /\ g.window < g.age + Window
    <3>1. PICK h \in granted : h.age < Remembered /\ g = Older(h)
      BY <1>6
    <3>2. g.window = h.window + 1 /\ g.age = h.age + 1
      BY <1>7, <3>1
    <3> QED
      BY <1>8, <3>2, Bounds
  <2> QED
    BY <1>4, <2>1, <2>2 DEF WaitsOK
<1>11. CountedOK'
  <2> SUFFICES ASSUME NEW g \in granted'
               PROVE  \/ g.window = bucket'.started /\ g.count <= bucket'.count
                      \/ g.window >= bucket'.started + Window
                      \/ g.window >= MaxDelay + Window /\ bucket'.started >= MaxDelay + Window
    BY DEF CountedOK
  <2>1. PICK h \in granted : h.age < Remembered /\ g = Older(h)
    BY <1>6
  <2>2. g.count = h.count /\ g.window = h.window + 1 /\ h.window \in Nat /\ h.count \in Nat
    BY <1>7, <1>8, <2>1, Bounds
  <2>3. \/ h.window = bucket.started /\ h.count <= bucket.count
        \/ h.window >= bucket.started + Window
        \/ h.window >= MaxDelay + Window /\ bucket.started >= MaxDelay + Window
    BY DEF LimiterInv, CountedOK
  <2>4. bucket'.started \in Nat /\ Horizon \in Nat /\ bucket.started \in Nat
    BY <1>2, <1>4, Bounds
  <2> QED
    BY <1>4, <2>2, <2>3, <2>4, Bounds
<1>12. WindowsApart'
  <2> SUFFICES ASSUME NEW g \in granted', NEW k \in granted'
               PROVE  \/ g.window >= k.window + Window
                      \/ k.window >= g.window + Window
                      \/ g.window = k.window /\ (g.count = k.count => g = k)
    BY DEF WindowsApart
  <2>1. PICK h \in granted : h.age < Remembered /\ g = Older(h)
    BY <1>6
  <2>2. PICK l \in granted : l.age < Remembered /\ k = Older(l)
    BY <1>6
  <2>3. /\ g.count = h.count /\ g.window = h.window + 1 /\ h.window \in Nat
        /\ k.count = l.count /\ k.window = l.window + 1 /\ l.window \in Nat
    BY <1>7, <1>8, <2>1, <2>2, Bounds
  <2>4. \/ h.window >= l.window + Window
        \/ l.window >= h.window + Window
        \/ h.window = l.window /\ (h.count = l.count => h = l)
    BY DEF LimiterInv, WindowsApart
  <2> QED
    BY <2>1, <2>2, <2>3, <2>4, Bounds
<1> QED
  BY <1>9, <1>10, <1>11, <1>12 DEF LimiterInv

LEMMA LimiterNextInv ==
  ASSUME LimiterInv, [LimiterNext]_limiterVars
  PROVE  LimiterInv'
<1>1. CASE LimiterNext
  BY <1>1, SampleInv, ConsumeInv, PurgeInv, TickInv DEF LimiterNext
<1>2. CASE UNCHANGED limiterVars
  BY <1>2 DEF limiterVars, LimiterInv, LimiterTypeOK, WaitsOK, CountedOK, WindowsApart
<1> QED
  BY <1>1, <1>2

\* What consume and purgeExpired keep: the row and every allowed request agree on the
\* windows there were, for any limit, window, delay and number of statements.
THEOREM LimiterInvariant == LimiterSpec => []LimiterInv
BY LimiterInitInv, LimiterNextInv, PTL DEF LimiterSpec

-----------------------------------------------------------------------------
(* The limiter: the budget.                                                *)

\* What was allowed within a span lies in so many windows, each of which counts to Limit.
LEMMA BudgetOfWindows ==
  ASSUME LimiterInv
  PROVE  WindowBudget
<1> SUFFICES ASSUME NEW from \in 0 .. Remembered, NEW to \in 0 .. Remembered, from <= to
             PROVE  Cardinality({g \in granted : g.age \in from .. to})
                      <= Windows(to - from) * Limit
  BY DEF WindowBudget
<1> DEFINE span == {g \in granted : g.age \in from .. to}
           nth(g) == (g.window + MaxDelay - from) \div Window
           places == (0 .. Windows(to - from) - 1) \X (1 .. Limit)
           place == [g \in span |-> <<nth(g), g.count>>]
<1>1. /\ from \in Nat /\ to \in Nat /\ to - from \in Nat
  BY Bounds
<1>2. ASSUME NEW g \in span
      PROVE  /\ g.count \in 1 .. Limit /\ g.window \in Nat
             /\ g.window + MaxDelay - from \in Nat
             /\ g.window + MaxDelay - from <= (to - from) + MaxDelay + Window - 1
  <2>1. /\ g.count \in 1 .. Limit /\ g.window \in Nat /\ g.age \in Nat
        /\ g.age <= g.window + MaxDelay /\ g.window < g.age + Window
        /\ from <= g.age /\ g.age <= to
    BY <1>1, LimiterTypes, Bounds DEF LimiterInv, WaitsOK
  <2> QED
    BY <1>1, <2>1, Bounds
<1>3. (to - from) + MaxDelay + Window - 1 \in Nat
  BY <1>1, Bounds
<1>4. Windows(to - from) - 1 = ((to - from) + MaxDelay + Window - 1) \div Window
  BY <1>1, <1>3, Quotient, Bounds DEF Windows
<1>5. Windows(to - from) \in Nat
  BY <1>1, <1>3, <1>4, Quotient, Bounds DEF Windows
<1>6. ASSUME NEW g \in span
      PROVE  nth(g) \in 0 .. Windows(to - from) - 1
  <2>1. nth(g) \in Nat
    BY <1>2, Quotient, Bounds
  <2>2. nth(g) <= ((to - from) + MaxDelay + Window - 1) \div Window
    BY <1>2, <1>3, QuotientMonotone, Bounds
  <2> QED
    BY <1>4, <1>5, <2>1, <2>2
<1>7. ASSUME NEW g \in span, NEW h \in span, nth(g) = nth(h), g.count = h.count
      PROVE  g = h
  <2>1. g.window \in Nat /\ h.window \in Nat
    BY <1>2
  <2>2. ~(g.window >= h.window + Window)
    <3> SUFFICES ASSUME g.window >= h.window + Window PROVE nth(h) < nth(g)
      BY <1>6, <1>7
    <3>1. (h.window + MaxDelay - from) + Window <= g.window + MaxDelay - from
      BY <1>1, <2>1, Bounds
    <3> QED
      BY <1>2, <3>1, QuotientMonotone, Bounds
  <2>3. ~(h.window >= g.window + Window)
    <3> SUFFICES ASSUME h.window >= g.window + Window PROVE nth(g) < nth(h)
      BY <1>6, <1>7
    <3>1. (g.window + MaxDelay - from) + Window <= h.window + MaxDelay - from
      BY <1>1, <2>1, Bounds
    <3> QED
      BY <1>2, <3>1, QuotientMonotone, Bounds
  <2> QED
    BY <1>7, <2>2, <2>3 DEF LimiterInv, WindowsApart
<1> HIDE DEF nth
<1>8. place \in Injection(span, places)
  <2>1. place \in [span -> places]
    BY <1>2, <1>6
  <2>2. \A g, h \in span : place[g] = place[h] => g = h
    BY <1>7
  <2> QED
    BY <2>1, <2>2 DEF Injection, IsInjective
<1>9. /\ IsFiniteSet(0 .. Windows(to - from) - 1)
      /\ Cardinality(0 .. Windows(to - from) - 1) = Windows(to - from)
  BY <1>5, Initial
<1>10. IsFiniteSet(1 .. Limit) /\ Cardinality(1 .. Limit) = Limit
  BY FS_Interval, Bounds
<1>11. IsFiniteSet(places) /\ Cardinality(places) = Windows(to - from) * Limit
  <2> DEFINE wins == 0 .. Windows(to - from) - 1
             counts == 1 .. Limit
  <2>1. IsFiniteSet(wins) /\ IsFiniteSet(counts)
    BY <1>9, <1>10
  <2>2. Cardinality(wins) = Windows(to - from) /\ Cardinality(counts) = Limit
    BY <1>9, <1>10
  <2>3. places = wins \X counts
    OBVIOUS
  <2> HIDE DEF wins, counts
  <2>4. IsFiniteSet(wins \X counts) /\ Cardinality(wins \X counts) = Cardinality(wins) * Cardinality(counts)
    BY <2>1, FS_Product
  <2> QED
    BY <2>2, <2>3, <2>4
<1> HIDE DEF places, place
<1>12. Cardinality(span) <= Cardinality(places)
  BY <1>8, <1>11, FS_Injection
<1> QED
  BY <1>11, <1>12

\* Whatever statements wait for each other and whenever the bucket is purged, consume allows
\* at most one budget for each window that a span of time and the wait can touch.
THEOREM WindowBudgetHolds == LimiterSpec => []WindowBudget
BY LimiterInvariant, BudgetOfWindows, PTL

-----------------------------------------------------------------------------
(* The form: the inductive invariant.                                      *)

AllTexts == {Unfilled} \cup Spellings \cup UNION {Texts(f) : f \in Fields}
Places == UNION {YPlaces(t) : t \in AllTexts}
YClasses == UNION {[places -> Classes] : places \in SUBSET Places}
Names == [text : AllTexts, spelling : AllTexts, confirmed : BOOLEAN,
          ys : YClasses]
Dates == {"none", "adult", "minor"}
Values == [names : [Fields -> Names], date : Dates, consent : BOOLEAN]
Answers == [names : [Fields -> Names], date : Dates, consent : Nat]
Statuses == {"none", "draft", "complete", "checkout_created"}

DoneStatuses == {"complete", "checkout_created"}
Intents == [status : Statuses, fresh : BOOLEAN, draft : Answers \cup {NoAnswers}]
Sendable == [op : {"none", "create", "patch", "complete", "preview"}, fresh : BOOLEAN,
             body : Answers \cup {NoAnswers}, stage : {"none", "sent", "accepted", "refused"}]

FormTypeOK ==
  /\ values \in Values /\ requested \in 1 .. 5
  /\ current \in Intents /\ current.draft = NoAnswers
  /\ sent \in Sendable /\ orphan \in Sendable
  /\ shownPreview \in Answers \cup {NoAnswers}
  /\ server \in Intents
  /\ notice \in 1 .. 2
  /\ addressed \in BOOLEAN

\* A class that counts a Y was chosen for that place of that name.
Chosen(names) ==
  \A f \in Fields : \A p \in DOMAIN names[f].ys : <<f, p, names[f].ys[p]>> \in chosen
ChosenOK ==
  /\ Chosen(values.names)
  /\ \A r \in {sent, orphan} : r.op \in {"create", "patch", "complete"} => Chosen(r.body.names)
  /\ server.draft # NoAnswers => Chosen(server.draft.names)

\* A request to complete an intake carries every answer; no request is empty.
Answered(r) == r.body.date = "adult" /\ r.body.consent > 0
RequestsOK ==
  /\ \A r \in {sent, orphan} : /\ r.op \in {"create", "patch", "complete"} => r.body \in Answers
                               /\ r.op = "complete" => Answered(r)
                               /\ r.op = "none" => r = NoRequest
  /\ Saving => sent.stage # "none"

\* What was completed was answered in full.
ServerDone == server.status \in DoneStatuses
ServerOK ==
  /\ server.status = "none" => server = NoIntent
  /\ ServerDone =>
       /\ server.draft \in Answers
       /\ server.draft.date = "adult" /\ server.draft.consent > 0
       /\ \A f \in Fields : NameComplete(server.draft.names[f])

\* A draft and the form show the same names, classes and date.
Agrees(draft) ==
  /\ draft.date = values.date
  /\ \A f \in Fields : /\ draft.names[f].text = values.names[f].text
                       /\ CalculatedText(draft.names[f]) = CalculatedText(values.names[f])
                       /\ draft.names[f].ys = values.names[f].ys

\* While a request is in flight its step is shown, what it completes is what the form shows,
\* and what it stored makes every other version of the intent stale.
SentOK ==
  /\ Saving => Step < 5
  /\ sent.op \in {"create", "patch", "complete"} => ~Completed
  /\ sent.op = "preview" => Completed
  /\ sent.op = "complete" =>
       Step = 4 /\ Agrees(sent.body)
  /\ sent.stage = "accepted" /\ sent.op # "preview" => ~orphan.fresh \/ orphan = NoRequest
  /\ sent.stage = "accepted" /\ sent.op \in {"create", "patch"} => server.status = "draft"
  /\ sent.stage = "accepted" /\ sent.op = "complete" => server.status = "complete" /\ server.draft = sent.body

\* A page whose intake is completed shows what the server keeps, past the steps that
\* could change it.
CompletedOK ==
  Completed =>
    /\ ServerDone
    /\ Agrees(server.draft)
    /\ requested >= 3
    /\ StepIsComplete(1) /\ StepIsComplete(2)

\* The preview on the page is the one of the stored answers.
PreviewOK == shownPreview # NoAnswers => Completed /\ shownPreview = server.draft

FormInv == FormTypeOK /\ ChosenOK /\ RequestsOK /\ ServerOK /\ SentOK /\ CompletedOK /\ PreviewOK

-----------------------------------------------------------------------------
(* The form: steps and names.                                              *)

LEMMA StepNames ==
  /\ Steps[1] = "name" /\ Steps[2] = "birth-date" /\ Steps[3] = "delivery"
  /\ Steps[4] = "review" /\ Steps[5] = "preview"
BY DEF Steps

LEMMA LeastOf ==
  ASSUME NEW S \in SUBSET (1 .. 4), S # {}
  PROVE  Min(S) \in S /\ \A s \in S : Min(S) <= s
<1>1. \E x \in S : \A y \in S : x <= y
  <2>1. CASE 1 \in S
    BY <2>1
  <2>2. CASE 1 \notin S /\ 2 \in S
    BY <2>2
  <2>3. CASE 1 \notin S /\ 2 \notin S /\ 3 \in S
    BY <2>3
  <2>4. CASE 1 \notin S /\ 2 \notin S /\ 3 \notin S
    <3>1. \A y \in S : y = 4
      BY <2>4
    <3>2. 4 \in S
      BY <3>1
    <3> QED
      BY <3>1, <3>2
  <2> QED
    BY <2>1, <2>2, <2>3, <2>4
<1> QED
  BY <1>1 DEF Min

\* The step shown is the one asked for, unless an earlier one is not complete.
LEMMA StepShown ==
  ASSUME requested \in 1 .. 5
  PROVE  /\ Step \in 1 .. 5 /\ Step <= requested
         /\ \A s \in 1 .. Step - 1 : StepIsComplete(s)
         /\ (requested >= 3 /\ StepIsComplete(1) /\ StepIsComplete(2)) => Step >= 3
         /\ Step = 5 => shownPreview # NoAnswers
<1> DEFINE wanted == SafeRequested
           open == {s \in 1 .. wanted - 1 : ~StepIsComplete(s)}
<1>1. /\ wanted \in 1 .. 5 /\ wanted <= requested /\ (requested >= 3 => wanted >= 3)
      /\ wanted = 5 => shownPreview # NoAnswers
  BY StepNames DEF SafeRequested
<1>2. Step = IF open = {} THEN wanted ELSE Min(open)
  BY DEF Step
<1> HIDE DEF wanted
<1>3. open \in SUBSET (1 .. 4)
  BY <1>1
<1>4. open # {} => Min(open) \in open /\ \A s \in open : Min(open) <= s
  BY <1>3, LeastOf
<1>5. CASE open = {}
  BY <1>1, <1>2, <1>5
<1>6. CASE open # {}
  <2>1. Step \in open /\ \A s \in open : Step <= s
    BY <1>2, <1>4, <1>6
  <2>2. Step \in 1 .. 4 /\ Step < wanted
    BY <1>1, <2>1
  <2>3. \A s \in 1 .. Step - 1 : s \in 1 .. wanted - 1 /\ s \notin open
    BY <1>1, <2>1, <2>2
  <2> QED
    BY <1>1, <2>1, <2>2, <2>3
<1> QED
  BY <1>5, <1>6

LEMMA NameFields ==
  ASSUME NEW name \in Names
  PROVE  /\ name.text \in AllTexts /\ name.spelling \in AllTexts /\ name.confirmed \in BOOLEAN
         /\ name.ys \in YClasses
BY DEF Names

LEMMA OccurrencesArePlaces ==
  ASSUME NEW name \in Names
  PROVE  CalculatedText(name) \in AllTexts /\ Occurrences(name) \subseteq Places
<1>1. CalculatedText(name) \in AllTexts
  BY NameFields DEF CalculatedText
<1>2. YPlaces(CalculatedText(name)) \subseteq Places
  BY <1>1 DEF Places
<1> QED
  BY <1>1, <1>2 DEF Occurrences

LEMMA WithClass ==
  ASSUME NEW ys \in YClasses, NEW place \in Places, NEW class \in Classes
  PROVE  /\ With(ys, place, class) \in YClasses
         /\ \A p \in DOMAIN With(ys, place, class) :
              \/ p = place /\ With(ys, place, class)[p] = class
              \/ p \in DOMAIN ys /\ With(ys, place, class)[p] = ys[p]
<1> DEFINE new == With(ys, place, class)
<1>1. PICK places \in SUBSET Places : ys \in [places -> Classes]
  BY DEF YClasses
<1>2. new = [p \in places \cup {place} |-> IF p = place THEN class ELSE ys[p]]
  BY <1>1 DEF With
<1>3. new \in [places \cup {place} -> Classes]
  BY <1>1, <1>2
<1>4. places \cup {place} \in SUBSET Places
  BY <1>1
<1> QED
  BY <1>1, <1>2, <1>3, <1>4 DEF YClasses

\* What a draft or a request with answers holds, and what holds none.
LEMMA AnswerFields ==
  /\ \A a \in Answers : /\ a.names \in [Fields -> Names] /\ a.date \in Dates /\ a.consent \in Nat
                        /\ a # NoAnswers
  /\ \A v \in Values : v.names \in [Fields -> Names] /\ v.date \in Dates /\ v.consent \in BOOLEAN
<1>1. ASSUME NEW a \in Answers PROVE a # NoAnswers
  <2>1. "date" \in DOMAIN a
    BY DEF Answers
  <2>2. DOMAIN NoAnswers = {}
    BY DEF NoAnswers
  <2> QED
    BY <2>1, <2>2
<1> QED
  BY <1>1 DEF Answers, Values

LEMMA EmptyAnswers ==
  /\ EmptyName \in Names /\ EmptyName.ys = <<>> /\ DOMAIN EmptyName.ys = {}
  /\ EmptyValues \in Values /\ EmptyValues.names = [f \in Fields |-> EmptyName]
  /\ NoIntent \in Intents /\ NoIntent.status = "none" /\ NoIntent.draft = NoAnswers
  /\ NoRequest \in Sendable /\ NoRequest.op = "none" /\ NoRequest.stage = "none"
<1>1. <<>> \in YClasses /\ DOMAIN <<>> = {}
  <2>1. <<>> \in [{} -> Classes]
    OBVIOUS
  <2> QED
    BY <2>1 DEF YClasses
<1>2. EmptyName \in Names /\ EmptyName.ys = <<>>
  BY <1>1 DEF EmptyName, Names, AllTexts
<1> HIDE DEF EmptyName
<1>3. EmptyValues \in Values /\ EmptyValues.names = [f \in Fields |-> EmptyName]
  BY <1>2 DEF EmptyValues, Values, Dates
<1>4. /\ NoIntent \in Intents /\ NoIntent.status = "none" /\ NoIntent.draft = NoAnswers
      /\ NoRequest \in Sendable /\ NoRequest.op = "none" /\ NoRequest.stage = "none"
  BY DEF NoIntent, NoRequest, Intents, Sendable, Statuses
<1> QED
  BY <1>1, <1>2, <1>3, <1>4

LEMMA StaleKeeps ==
  /\ \A i \in Intents : Stale(i) \in Intents /\ Stale(i).status = i.status /\ Stale(i).draft = i.draft
  /\ \A r \in Sendable : /\ Stale(r) \in Sendable
                         /\ Stale(r).op = r.op /\ Stale(r).body = r.body /\ Stale(r).stage = r.stage
                         /\ r = NoRequest => Stale(r) = NoRequest
                         /\ r # NoRequest => ~Stale(r).fresh
<1>1. ASSUME NEW i \in Intents
      PROVE  Stale(i) \in Intents /\ Stale(i).status = i.status /\ Stale(i).draft = i.draft
  BY DEF Stale, Intents
<1>2. ASSUME NEW r \in Sendable
      PROVE  /\ Stale(r) \in Sendable
             /\ Stale(r).op = r.op /\ Stale(r).body = r.body /\ Stale(r).stage = r.stage
             /\ r = NoRequest => Stale(r) = NoRequest
             /\ r # NoRequest => ~Stale(r).fresh
  <2>1. r # NoIntent
    <3>1. "op" \in DOMAIN r
      BY DEF Sendable
    <3>2. "op" \notin DOMAIN NoIntent
      BY DEF NoIntent
    <3> QED
      BY <3>1, <3>2
  <2> QED
    BY <2>1 DEF Stale, Sendable
<1> QED
  BY <1>1, <1>2

LEMMA RequestFields ==
  ASSUME NEW op \in {"create", "patch", "complete", "preview"}, NEW fresh \in BOOLEAN,
         NEW body \in Answers \cup {NoAnswers}
  PROVE  /\ Request(op, fresh, body) \in Sendable /\ Request(op, fresh, body).op = op
         /\ Request(op, fresh, body).body = body /\ Request(op, fresh, body).stage = "sent"
         /\ Request(op, fresh, body).fresh = fresh
BY DEF Request, Sendable

\* What valuesToPatch sends is what the form shows.
LEMMA PatchAgrees ==
  ASSUME values \in Values, notice \in 1 .. 2
  PROVE  /\ ToPatch \in Answers /\ Agrees(ToPatch)
         /\ values.consent => ToPatch.consent > 0
         /\ ToPatch.date = values.date
         /\ Chosen(values.names) => Chosen(ToPatch.names)
<1> DEFINE sentName(f) == LET name == values.names[f] IN
                          IF name.text \in NonLatin THEN name
                          ELSE [name EXCEPT !.spelling = Unfilled, !.confirmed = FALSE]
<1>1. ASSUME NEW f \in Fields
      PROVE  /\ sentName(f) \in Names /\ sentName(f).text = values.names[f].text
             /\ sentName(f).ys = values.names[f].ys
             /\ CalculatedText(sentName(f)) = CalculatedText(values.names[f])
  <2>1. values.names[f] \in Names
    BY AnswerFields
  <2>2. CASE values.names[f].text \in NonLatin
    BY <2>1, <2>2
  <2>3. CASE values.names[f].text \notin NonLatin
    <3>1. sentName(f) = [values.names[f] EXCEPT !.spelling = Unfilled, !.confirmed = FALSE]
      BY <2>3
    <3>2. Unfilled \in AllTexts
      BY DEF AllTexts
    <3> QED
      BY <2>1, <2>3, <3>1, <3>2 DEF Names, CalculatedText
  <2> QED
    BY <2>2, <2>3
<1> HIDE DEF sentName
<1>2. /\ ToPatch = [names |-> [f \in Fields |-> sentName(f)], date |-> values.date,
                    consent |-> IF values.consent THEN notice ELSE 0]
  BY DEF ToPatch, sentName
<1>3. /\ ToPatch.names = [f \in Fields |-> sentName(f)] /\ ToPatch.date = values.date
      /\ ToPatch.consent = IF values.consent THEN notice ELSE 0
  BY <1>2
<1>4. ToPatch \in Answers
  BY <1>1, <1>2, AnswerFields DEF Answers
<1>5. Agrees(ToPatch)
  BY <1>1, <1>3 DEF Agrees
<1>6. Chosen(values.names) => Chosen(ToPatch.names)
  BY <1>1, <1>3 DEF Chosen
<1> QED
  BY <1>3, <1>4, <1>5, <1>6

-----------------------------------------------------------------------------
(* The form: the invariant is inductive.                                   *)

LEMMA FormTypes ==
  ASSUME FormInv
  PROVE  /\ values \in Values /\ requested \in 1 .. 5 /\ notice \in 1 .. 2
         /\ current \in Intents /\ server \in Intents /\ current.draft = NoAnswers
         /\ sent \in Sendable /\ orphan \in Sendable
         /\ shownPreview \in Answers \cup {NoAnswers} /\ addressed \in BOOLEAN
         /\ server.status \in Statuses /\ server.draft \in Answers \cup {NoAnswers}
BY DEF FormInv, FormTypeOK, Intents

LEMMA FormInitInv ==
  ASSUME FormInit
  PROVE  FormInv
<1>1. /\ values = EmptyValues /\ requested = 1 /\ current = NoIntent /\ addressed = FALSE
      /\ sent = NoRequest /\ orphan = NoRequest /\ shownPreview = NoAnswers
      /\ server = NoIntent /\ notice = 1
  BY DEF FormInit
<1>2. FormTypeOK
  <2>1. values \in Values /\ addressed \in BOOLEAN
    BY <1>1, EmptyAnswers
  <2>4. requested \in 1 .. 5 /\ notice \in 1 .. 2
    BY <1>1
  <2>2. /\ current \in Intents /\ current.draft = NoAnswers /\ server \in Intents
        /\ sent \in Sendable /\ orphan \in Sendable
    BY <1>1, EmptyAnswers
  <2>3. shownPreview \in Answers \cup {NoAnswers}
    BY <1>1
  <2> QED
    BY <2>1, <2>2, <2>3, <2>4 DEF FormTypeOK
<1>3. ChosenOK
  BY <1>1, EmptyAnswers DEF ChosenOK, Chosen
<1>4. RequestsOK /\ SentOK
  BY <1>1, EmptyAnswers DEF RequestsOK, SentOK, Saving
<1>5. ServerOK /\ CompletedOK /\ PreviewOK
  BY <1>1, EmptyAnswers DEF ServerOK, ServerDone, DoneStatuses, CompletedOK, PreviewOK, Completed
<1> QED
  BY <1>2, <1>3, <1>4, <1>5 DEF FormInv

\* The form is edited while nothing is sent; the names and the date of a completed intake
\* are out of reach.
LEMMA EditKeeps ==
  ASSUME FormInv, ~Saving, values' \in Values, chosen \subseteq chosen', Chosen(values.names)',
         Completed => values'.names = values.names /\ values'.date = values.date,
         UNCHANGED <<requested, current, addressed, sent, orphan, shownPreview, server, notice>>
  PROVE  FormInv'
<1>1. sent = NoRequest
  BY DEF Saving
<1>2. FormTypeOK'
  BY DEF FormInv, FormTypeOK
<1>3. ChosenOK'
  BY DEF FormInv, ChosenOK, Chosen
<1>4. RequestsOK' /\ SentOK'
  BY <1>1, EmptyAnswers DEF FormInv, RequestsOK, SentOK, Answered, Saving
<1>5. ServerOK' /\ PreviewOK'
  BY DEF FormInv, ServerOK, ServerDone, NameComplete, Occurrences, CalculatedText, PreviewOK, Completed
<1>6. CompletedOK'
  <2> SUFFICES ASSUME Completed
               PROVE  /\ ServerDone /\ Agrees(server.draft)' /\ requested >= 3
                      /\ StepIsComplete(1)' /\ StepIsComplete(2)'
    BY DEF CompletedOK, Completed, ServerDone
  <2>1. ServerDone /\ Agrees(server.draft) /\ requested >= 3 /\ StepIsComplete(1) /\ StepIsComplete(2)
    BY DEF FormInv, CompletedOK
  <2>2. Agrees(server.draft)'
    BY <2>1 DEF Agrees, CalculatedText
  <2>3. StepIsComplete(1)' /\ StepIsComplete(2)'
    BY <2>1, StepNames DEF StepIsComplete, NameComplete, Occurrences, CalculatedText
  <2> QED
    BY <2>1, <2>2, <2>3
<1> QED
  BY <1>2, <1>3, <1>4, <1>5, <1>6 DEF FormInv

\* Names and date are edited on their own steps, which a completed intake does not show.
LEMMA EditedIsOpen ==
  ASSUME FormInv, NEW step \in {"name", "birth-date"}, Editable(step)
  PROVE  ~Saving /\ ~Completed
<1>1. Step \in 1 .. 5
  BY StepShown, FormTypes
<1>2. Step < 3
  BY <1>1, StepNames DEF Editable
<1>3. Completed => Step >= 3
  BY StepShown, FormTypes DEF FormInv, CompletedOK
<1> QED
  BY <1>1, <1>2, <1>3 DEF Editable

\* A name is replaced by one with classes that were chosen for it.
LEMMA SetNameInv ==
  ASSUME FormInv, Editable("name"), NEW f \in Fields, NEW name \in Names, SetName(f, name),
         chosen \subseteq chosen',
         \A p \in DOMAIN name.ys : <<f, p, name.ys[p]>> \in chosen'
  PROVE  FormInv'
<1>1. ~Saving /\ ~Completed
  BY EditedIsOpen
<1>2. /\ values' = [values EXCEPT !.names[f] = name]
      /\ UNCHANGED <<requested, current, addressed, sent, orphan, shownPreview, server, notice>>
  BY DEF SetName
<1>3. values \in Values /\ Chosen(values.names)
  BY FormTypes DEF FormInv, ChosenOK
<1>4. values' \in Values /\ values'.names = [values.names EXCEPT ![f] = name]
  BY <1>2, <1>3 DEF Values
<1>5. values.names \in [Fields -> Names]
  BY <1>3, AnswerFields
<1>6. \A g \in Fields : values'.names[g] = IF g = f THEN name ELSE values.names[g]
  BY <1>4, <1>5
<1>7. Chosen(values.names)'
  BY <1>3, <1>6 DEF Chosen
<1> QED
  BY <1>1, <1>2, <1>4, <1>7, EditKeeps

LEMMA TypingInv ==
  ASSUME FormInv, NEW f \in Fields, TypeName(f) \/ TypeSpelling(f)
  PROVE  FormInv'
<1> DEFINE old == values.names[f]
<1>1. old \in Names /\ Chosen(values.names)
  BY FormTypes, AnswerFields DEF FormInv, ChosenOK
<1>2. \A p \in DOMAIN old.ys : <<f, p, old.ys[p]>> \in chosen
  BY <1>1 DEF Chosen
<1>3. Texts(f) \subseteq AllTexts /\ Spellings \subseteq AllTexts
  BY DEF AllTexts
<1>4. Editable("name") /\ chosen' = chosen
  BY DEF TypeName, TypeSpelling
<1>5. PICK name : /\ SetName(f, name)
                  /\ \/ \E t \in Texts(f) : name = [old EXCEPT !.text = t]
                     \/ \E t \in Spellings : name = [old EXCEPT !.spelling = t]
                     \/ name = [old EXCEPT !.confirmed = ~@]
  BY DEF TypeName, TypeSpelling
<1>6. name \in Names /\ name.ys = old.ys
  BY <1>1, <1>3, <1>5 DEF Names
<1> QED
  BY <1>2, <1>4, <1>5, <1>6, SetNameInv

LEMMA ChooseClassInv ==
  ASSUME FormInv, NEW f \in Fields, NEW place \in Occurrences(values.names[f]),
         NEW class \in Classes, ChooseClass(f, place, class)
  PROVE  FormInv'
<1> DEFINE old == values.names[f]
           name == [old EXCEPT !.ys = With(@, place, class)]
<1>1. old \in Names /\ Chosen(values.names)
  BY FormTypes, AnswerFields DEF FormInv, ChosenOK
<1>2. place \in Places /\ old.ys \in YClasses
  BY <1>1, OccurrencesArePlaces, NameFields
<1>3. /\ Editable("name") /\ SetName(f, name)
      /\ chosen' = chosen \cup {<<f, place, class>>}
  BY DEF ChooseClass
<1>4. name \in Names /\ name.ys = With(old.ys, place, class)
  BY <1>1, <1>2, WithClass DEF Names
<1>5. \A p \in DOMAIN old.ys : <<f, p, old.ys[p]>> \in chosen
  BY <1>1 DEF Chosen
<1>6. \A p \in DOMAIN name.ys : <<f, p, name.ys[p]>> \in chosen'
  <2> DEFINE new == With(old.ys, place, class)
  <2> HIDE DEF old, name
  <2>1. ASSUME NEW p \in DOMAIN new
        PROVE  (p = place /\ new[p] = class) \/ (p \in DOMAIN old.ys /\ new[p] = old.ys[p])
    BY <1>2, WithClass
  <2>2. name.ys = new
    BY <1>4
  <2> HIDE DEF new
  <2> QED
    BY <1>3, <1>5, <2>1, <2>2
<1> HIDE DEF name
<1> QED
  BY <1>3, <1>4, <1>6, SetNameInv

LEMMA AnswerInv ==
  ASSUME FormInv, Answer
  PROVE  FormInv'
<1>1. values \in Values /\ Chosen(values.names)
  BY FormTypes DEF FormInv, ChosenOK
<1>2. UNCHANGED <<requested, current, addressed, sent, orphan, shownPreview, server, notice, chosen>>
  BY DEF Answer
<1>3. CASE /\ Editable("birth-date")
           /\ \E d \in {"adult", "minor"} \ {values.date} : values' = [values EXCEPT !.date = d]
  <2>1. ~Saving /\ ~Completed
    BY <1>3, EditedIsOpen
  <2>2. values' \in Values /\ values'.names = values.names
    BY <1>1, <1>3 DEF Values, Dates
  <2> QED
    BY <1>1, <1>2, <2>1, <2>2, EditKeeps DEF Chosen
<1>4. CASE Editable("delivery") /\ values' = [values EXCEPT !.consent = ~@]
  <2>1. ~Saving
    BY <1>4 DEF Editable
  <2>2. values' \in Values /\ values'.names = values.names /\ values'.date = values.date
    BY <1>1, <1>4 DEF Values
  <2> QED
    BY <1>1, <1>2, <2>1, <2>2, EditKeeps DEF Chosen
<1> QED
  BY <1>3, <1>4 DEF Answer

\* Another step is asked for while nothing is sent.
LEMMA MoveKeeps ==
  ASSUME FormInv, ~Saving, requested' \in 1 .. 5, Completed => requested' >= 3,
         UNCHANGED <<values, current, addressed, sent, orphan, shownPreview, server, notice, chosen>>
  PROVE  FormInv'
<1>1. sent = NoRequest
  BY DEF Saving
<1>2. FormTypeOK' /\ ChosenOK'
  BY DEF FormInv, FormTypeOK, ChosenOK, Chosen
<1>3. RequestsOK' /\ SentOK'
  BY <1>1, EmptyAnswers DEF FormInv, RequestsOK, SentOK, Answered, Saving
<1>4. ServerOK' /\ PreviewOK'
  BY DEF FormInv, ServerOK, ServerDone, NameComplete, Occurrences, CalculatedText, PreviewOK, Completed
<1>5. CompletedOK'
  BY DEF FormInv, CompletedOK, Completed, ServerDone, Agrees, StepIsComplete, NameComplete,
         Occurrences, CalculatedText
<1> QED
  BY <1>2, <1>3, <1>4, <1>5 DEF FormInv

LEMMA BackInv ==
  ASSUME FormInv, Back
  PROVE  FormInv'
<1>1. Step \in 1 .. 5
  BY StepShown, FormTypes
<1> QED
  BY <1>1, MoveKeeps DEF Back

\* The step shown depends on the answers, the step asked for and the preview.
LEMMA SameStep ==
  ASSUME UNCHANGED <<values, requested, shownPreview>>
  PROVE  /\ Step' = Step
         /\ \A s : StepIsComplete(s)' = StepIsComplete(s)
         /\ \A draft : Agrees(draft)' = Agrees(draft)
<1>1. \A s : StepIsComplete(s)' = StepIsComplete(s)
  BY DEF StepIsComplete, NameComplete, Occurrences, CalculatedText
<1>2. SafeRequested' = SafeRequested
  BY DEF SafeRequested
<1>3. Step' = Step
  BY <1>1, <1>2 DEF Step
<1>4. \A draft : Agrees(draft)' = Agrees(draft)
  BY DEF Agrees, CalculatedText
<1> QED
  BY <1>1, <1>3, <1>4

\* Continue sends what the form shows, or goes on.
LEMMA ContinueInv ==
  ASSUME FormInv, Continue
  PROVE  FormInv'
<1>1. /\ ~Saving /\ sent = NoRequest /\ Step < 5 /\ StepIsComplete(Step)
      /\ UNCHANGED <<values, current, addressed, orphan, shownPreview, server, notice, chosen>>
  BY DEF Continue, Saving
<1>2. /\ Step \in 1 .. 5 /\ (\A s \in 1 .. Step - 1 : StepIsComplete(s))
      /\ Completed => Step >= 3
  BY StepShown, FormTypes DEF FormInv, CompletedOK
<1>3. CASE requested' = Step + 1 /\ UNCHANGED sent
  BY <1>1, <1>2, <1>3, MoveKeeps
<1>4. CASE /\ UNCHANGED requested
           /\ sent' = IF Steps[Step] # "review"
                      THEN IF current = NoIntent THEN Request("create", TRUE, ToPatch)
                           ELSE Request("patch", current.fresh, ToPatch)
                      ELSE IF Completed THEN Request("preview", TRUE, NoAnswers)
                           ELSE Request("complete", current.fresh, ToPatch)
           /\ Steps[Step] = "review" \/ (~Completed /\ values.consent)
  <2>1. /\ values \in Values /\ notice \in 1 .. 2 /\ current.fresh \in BOOLEAN
    BY FormTypes DEF Intents
  <2>2. /\ ToPatch \in Answers /\ Agrees(ToPatch) /\ ToPatch.date = values.date
        /\ values.consent => ToPatch.consent > 0
        /\ Chosen(ToPatch.names)
    BY <2>1, PatchAgrees DEF FormInv, ChosenOK
  <2>3. /\ sent' \in Sendable /\ sent'.stage = "sent"
        /\ \/ sent'.op \in {"create", "patch"} /\ ~Completed /\ sent'.body = ToPatch
           \/ sent'.op = "preview" /\ Completed
           \/ /\ sent'.op = "complete" /\ ~Completed /\ sent'.body = ToPatch
              /\ Steps[Step] = "review"
    <3>1. ASSUME NEW op \in {"create", "patch", "complete"}, NEW fresh \in BOOLEAN
          PROVE  LET r == Request(op, fresh, ToPatch)
                 IN r \in Sendable /\ r.op = op /\ r.stage = "sent" /\ r.body = ToPatch
      BY <2>2, RequestFields
    <3>2. LET r == Request("preview", TRUE, NoAnswers)
          IN r \in Sendable /\ r.op = "preview" /\ r.stage = "sent"
      BY RequestFields
    <3>3. Completed => Steps[Step] = "review"
      BY <1>4
    <3>4. CASE Steps[Step] # "review"
      BY <1>4, <2>1, <3>1, <3>3, <3>4
    <3>5. CASE Steps[Step] = "review" /\ Completed
      BY <1>4, <3>2, <3>5
    <3>6. CASE Steps[Step] = "review" /\ ~Completed
      BY <1>4, <2>1, <3>1, <3>6
    <3> QED
      BY <3>4, <3>5, <3>6
  <2>4. /\ Step' = Step /\ \A s : StepIsComplete(s)' = StepIsComplete(s)
        /\ \A draft : Agrees(draft)' = Agrees(draft)
    BY <1>1, <1>4, SameStep
  <2>5. FormTypeOK'
    BY <1>1, <1>4, <2>3 DEF FormInv, FormTypeOK
  <2>6. ChosenOK'
    BY <1>1, <2>2, <2>3 DEF FormInv, ChosenOK, Chosen
  <2>7. sent'.op = "complete" => Step = 4 /\ Answered(sent')
    <3> SUFFICES ASSUME sent'.op = "complete" PROVE Step = 4 /\ Answered(sent')
      OBVIOUS
    <3>1. Step = 4 /\ sent'.body = ToPatch
      BY <1>2, <2>3, StepNames
    <3>2. StepIsComplete(2) /\ StepIsComplete(3)
      BY <1>2, <3>1
    <3>3. values.date = "adult" /\ values.consent
      BY <3>2, StepNames DEF StepIsComplete
    <3> QED
      BY <2>2, <3>1, <3>3 DEF Answered
  <2>8. RequestsOK'
    BY <1>1, <2>2, <2>3, <2>7, EmptyAnswers DEF FormInv, RequestsOK, Answered, Saving
  <2>9. SentOK'
    BY <1>1, <2>2, <2>3, <2>4, <2>7, AnswerFields DEF SentOK, Completed
  <2>10. ServerOK' /\ PreviewOK'
    BY <1>1 DEF FormInv, ServerOK, ServerDone, NameComplete, Occurrences, CalculatedText,
                PreviewOK, Completed
  <2>11. CompletedOK'
    BY <1>1, <1>4, <2>4 DEF FormInv, CompletedOK, Completed, ServerDone
  <2> QED
    BY <2>5, <2>6, <2>8, <2>9, <2>10, <2>11 DEF FormInv
<1> QED
  BY <1>3, <1>4 DEF Continue

LEMMA NewIntakeInv ==
  ASSUME FormInv, NewIntake, sent' = NoRequest, notice' = notice
  PROVE  FormInv'
<1>1. /\ values' = EmptyValues /\ requested' = 1 /\ shownPreview' = NoAnswers /\ chosen' = {}
      /\ current' = NoIntent /\ addressed' = FALSE /\ server' = NoIntent /\ orphan' = NoRequest
  BY DEF NewIntake
<1>2. FormTypeOK'
  <2>1. values' \in Values /\ addressed' \in BOOLEAN
    BY <1>1, EmptyAnswers
  <2>3. requested' \in 1 .. 5 /\ notice' \in 1 .. 2
    BY <1>1, FormTypes
  <2>2. /\ current' \in Intents /\ current'.draft = NoAnswers /\ server' \in Intents
        /\ sent' \in Sendable /\ orphan' \in Sendable
    BY <1>1, EmptyAnswers
  <2> QED
    BY <1>1, <2>1, <2>2, <2>3 DEF FormTypeOK
<1>3. ChosenOK'
  BY <1>1, EmptyAnswers DEF ChosenOK, Chosen
<1>4. RequestsOK' /\ SentOK'
  BY <1>1, EmptyAnswers DEF RequestsOK, SentOK, Saving
<1>5. ServerOK' /\ CompletedOK' /\ PreviewOK'
  BY <1>1, EmptyAnswers DEF ServerOK, ServerDone, DoneStatuses, CompletedOK, PreviewOK, Completed
<1> QED
  BY <1>2, <1>3, <1>4, <1>5 DEF FormInv

\* The client gives up waiting: refused, or the answer is lost.
LEMMA GiveUpInv ==
  ASSUME FormInv, Refused \/ Lost
  PROVE  FormInv'
<1>1. /\ sent' = NoRequest
      /\ UNCHANGED <<values, requested, current, addressed, orphan, shownPreview, server, notice, chosen>>
  BY DEF Refused, Lost
<1>2. FormTypeOK' /\ ChosenOK'
  BY <1>1, EmptyAnswers DEF FormInv, FormTypeOK, ChosenOK, Chosen
<1>3. RequestsOK' /\ SentOK'
  BY <1>1, EmptyAnswers DEF FormInv, RequestsOK, SentOK, Answered, Saving
<1>4. ServerOK' /\ PreviewOK'
  BY <1>1 DEF FormInv, ServerOK, ServerDone, NameComplete, Occurrences, CalculatedText, PreviewOK,
              Completed
<1>5. CompletedOK'
  BY <1>1, SameStep DEF FormInv, CompletedOK, Completed, ServerDone
<1> QED
  BY <1>2, <1>3, <1>4, <1>5 DEF FormInv

\* What the intent on the server is after a request it accepted.
LEMMA ServedIs ==
  ASSUME FormInv, NEW r \in {sent, orphan}, r.op \in {"create", "patch", "complete"}, Accepted(r)
  PROVE  /\ Served(r) \in Intents /\ ~ServerDone
         /\ Served(r).status \notin DoneStatuses <=> r.op # "complete"
         /\ Served(r).status # "none"
         /\ r.op = "complete" => /\ Served(r).draft = r.body /\ Served(r).status = "complete"
                                 /\ \A f \in Fields : NameComplete(r.body.names[f])
         /\ r.op # "complete" => Served(r).status = "draft"
         /\ Served(r).draft # NoAnswers => Chosen(Served(r).draft.names)
         /\ Served(r).draft \in {r.body, server.draft}
         /\ server.status = "draft" /\ ~r.fresh => Served(r) = server
<1>1. /\ server \in Intents /\ r.body \in Answers /\ Chosen(r.body.names)
      /\ server.draft # NoAnswers => Chosen(server.draft.names)
      /\ server.status = "none" => server = NoIntent
      /\ NoIntent \in Intents /\ NoIntent.status = "none" /\ NoIntent.draft = NoAnswers
  BY FormTypes, EmptyAnswers DEF FormInv, RequestsOK, ChosenOK, ServerOK
<1>2. CASE r.op = "create"
  <2>1. /\ server.status \in {"none", "draft"} /\ ~ServerDone
        /\ Served(r) = IF server = NoIntent THEN [NoIntent EXCEPT !.status = "draft"] ELSE server
    BY <1>2 DEF Accepted, Served, ServerDone, DoneStatuses
  <2>2. CASE server = NoIntent
    <3>1. Served(r) \in Intents /\ Served(r).status = "draft" /\ Served(r).draft = NoAnswers
      BY <1>1, <2>1, <2>2 DEF Intents, Statuses
    <3> QED
      BY <1>1, <1>2, <2>1, <2>2, <3>1 DEF DoneStatuses
  <2>3. CASE server # NoIntent
    BY <1>1, <1>2, <2>1, <2>3 DEF DoneStatuses
  <2> QED
    BY <2>2, <2>3
<1>3. CASE r.op = "patch"
  <2>1. /\ server.status = "draft" /\ ~ServerDone /\ r.fresh
        /\ Served(r) = [server EXCEPT !.draft = r.body]
    BY <1>3 DEF Accepted, Served, ServerDone, DoneStatuses
  <2> QED
    BY <1>1, <1>3, <2>1 DEF Intents, DoneStatuses
<1>4. CASE r.op = "complete"
  <2>1. /\ server.status = "draft" /\ ~ServerDone /\ r.fresh
        /\ \A f \in Fields : NameComplete(r.body.names[f])
        /\ Served(r) = [server EXCEPT !.status = "complete", !.draft = r.body]
    BY <1>4 DEF Accepted, Served, ServerDone, DoneStatuses
  <2> QED
    BY <1>1, <1>4, <2>1 DEF Intents, DoneStatuses, Statuses
<1> QED
  BY <1>2, <1>3, <1>4

\* What the server accepts it keeps, and every other version of the intent is stale.
LEMMA ServeInv ==
  ASSUME FormInv, Serve
  PROVE  FormInv'
<1>1. /\ sent.stage = "sent" /\ Saving
      /\ UNCHANGED <<values, requested, addressed, shownPreview, notice, chosen>>
  BY EmptyAnswers DEF Serve, Saving
<1>2. /\ Step' = Step /\ \A s : StepIsComplete(s)' = StepIsComplete(s)
      /\ \A draft : Agrees(draft)' = Agrees(draft)
  BY <1>1, SameStep
<1>3. /\ sent \in Sendable /\ sent.op # "none" /\ sent.op \in {"create", "patch", "complete", "preview"}
      /\ orphan \in Sendable /\ current \in Intents /\ server \in Intents
  BY <1>1, FormTypes DEF FormInv, RequestsOK, Saving, Sendable
<1>4. CASE /\ Accepted(sent) /\ sent.op # "preview"
           /\ server' = Served(sent)
           /\ sent' = [sent EXCEPT !.stage = "accepted", !.fresh = TRUE]
           /\ current' = Stale(current) /\ orphan' = Stale(orphan)
  <2>1. /\ sent' \in Sendable /\ sent'.op = sent.op /\ sent'.body = sent.body
        /\ sent'.stage = "accepted" /\ sent' # NoRequest
    BY <1>3, <1>4, EmptyAnswers DEF Sendable
  <2>2. /\ current' \in Intents /\ current'.status = current.status
        /\ current'.draft = current.draft
        /\ orphan' \in Sendable /\ orphan'.op = orphan.op /\ orphan'.body = orphan.body
        /\ orphan = NoRequest => orphan' = NoRequest
        /\ ~orphan'.fresh \/ orphan' = NoRequest
    BY <1>3, <1>4, StaleKeeps
  <2>3. /\ server' \in Intents /\ server'.status # "none"
        /\ server'.status \notin DoneStatuses <=> sent.op # "complete"
        /\ sent.op = "complete" => /\ server'.draft = sent.body /\ server'.status = "complete"
                                   /\ \A f \in Fields : NameComplete(sent.body.names[f])
        /\ sent.op # "complete" => server'.status = "draft"
        /\ server'.draft # NoAnswers => Chosen(server'.draft.names)
    BY <1>3, <1>4, ServedIs
  <2>4. ~Completed /\ shownPreview = NoAnswers
    BY <1>3, <1>4 DEF FormInv, SentOK, PreviewOK
  <2>5. FormTypeOK'
    BY <1>1, <2>1, <2>2, <2>3 DEF FormInv, FormTypeOK
  <2>6. ChosenOK'
    BY <1>1, <2>1, <2>2, <2>3 DEF FormInv, ChosenOK, Chosen
  <2>7. RequestsOK'
    BY <1>1, <2>1, <2>2 DEF FormInv, RequestsOK, Answered, Saving
  <2>8. ServerOK'
    BY <1>3, <2>3 DEF FormInv, ServerOK, ServerDone, RequestsOK, Answered, NameComplete,
                      Occurrences, CalculatedText
  <2>9. SentOK'
    BY <1>1, <1>2, <1>3, <1>4, <2>1, <2>2, <2>3, <2>4 DEF FormInv, SentOK, Saving, Completed
  <2>10. CompletedOK' /\ PreviewOK'
    BY <1>1, <2>2, <2>4 DEF CompletedOK, PreviewOK, Completed
  <2> QED
    BY <2>5, <2>6, <2>7, <2>8, <2>9, <2>10 DEF FormInv
<1>5. CASE /\ UNCHANGED <<server, current, orphan>>
           /\ \/ sent' = [sent EXCEPT !.stage = "refused"]
              \/ sent' = [sent EXCEPT !.stage = "accepted", !.fresh = TRUE] /\ sent.op = "preview"
  <2>1. /\ sent' \in Sendable /\ sent'.op = sent.op /\ sent'.body = sent.body
        /\ sent'.stage \in {"accepted", "refused"} /\ sent' # NoRequest
        /\ sent'.stage = "accepted" => sent.op = "preview"
    BY <1>3, <1>5, EmptyAnswers DEF Sendable
  <2>2. FormTypeOK' /\ ChosenOK'
    BY <1>1, <1>5, <2>1 DEF FormInv, FormTypeOK, ChosenOK, Chosen
  <2>3. RequestsOK'
    BY <1>1, <1>5, <2>1 DEF FormInv, RequestsOK, Answered, Saving
  <2>4. SentOK'
    BY <1>1, <1>2, <1>3, <1>5, <2>1 DEF FormInv, SentOK, Saving, Completed
  <2>5. ServerOK' /\ PreviewOK'
    BY <1>1, <1>5 DEF FormInv, ServerOK, ServerDone, NameComplete, Occurrences, CalculatedText,
                      PreviewOK, Completed
  <2>6. CompletedOK'
    BY <1>1, <1>2, <1>5 DEF FormInv, CompletedOK, Completed, ServerDone
  <2> QED
    BY <2>2, <2>3, <2>4, <2>5, <2>6 DEF FormInv
<1> QED
  <2>1. \/ /\ Accepted(sent) /\ server' = Served(sent)
           /\ sent' = [sent EXCEPT !.stage = "accepted", !.fresh = TRUE]
           /\ IF sent.op = "preview" THEN UNCHANGED <<current, orphan>>
              ELSE current' = Stale(current) /\ orphan' = Stale(orphan)
        \/ /\ sent' = [sent EXCEPT !.stage = "refused"]
           /\ UNCHANGED <<server, current, orphan>>
    BY DEF Serve
  <2>2. sent.op = "preview" => Served(sent) = server
    BY DEF Served
  <2> QED
    BY <1>4, <1>5, <2>1, <2>2

\* A request of a page that was left is only accepted where the page that followed has not
\* been served, and was not completed.
LEMMA ServeOrphanInv ==
  ASSUME FormInv, ServeOrphan
  PROVE  FormInv'
<1>1. /\ orphan' = NoRequest /\ orphan # NoRequest
      /\ UNCHANGED <<values, requested, addressed, shownPreview, notice, chosen>>
  BY DEF ServeOrphan
<1>2. /\ Step' = Step /\ \A s : StepIsComplete(s)' = StepIsComplete(s)
      /\ \A draft : Agrees(draft)' = Agrees(draft)
  BY <1>1, SameStep
<1>3. /\ sent \in Sendable /\ orphan \in Sendable /\ current \in Intents /\ server \in Intents
      /\ orphan.op \in {"create", "patch", "complete", "preview"}
  BY <1>1, FormTypes DEF FormInv, RequestsOK, Sendable
<1>4. CASE /\ Accepted(orphan) /\ orphan.op # "preview"
           /\ server' = Served(orphan)
           /\ current' = Stale(current) /\ sent' = Stale(sent)
  <2>1. /\ sent' \in Sendable /\ sent'.op = sent.op /\ sent'.body = sent.body
        /\ sent'.stage = sent.stage
        /\ sent = NoRequest => sent' = NoRequest
    BY <1>3, <1>4, StaleKeeps
  <2>2. /\ current' \in Intents /\ current'.status = current.status
        /\ current'.draft = current.draft
    BY <1>3, <1>4, StaleKeeps
  <2>3. /\ server' \in Intents /\ server'.status # "none" /\ ~ServerDone
        /\ server'.status \notin DoneStatuses <=> orphan.op # "complete"
        /\ orphan.op = "complete" => /\ server'.draft = orphan.body
                                     /\ \A f \in Fields : NameComplete(orphan.body.names[f])
        /\ server'.draft # NoAnswers => Chosen(server'.draft.names)
        /\ orphan.op # "complete" => server'.status = "draft"
    BY <1>3, <1>4, ServedIs
  <2>4. ~Completed /\ shownPreview = NoAnswers
    BY <2>3 DEF FormInv, CompletedOK, PreviewOK
  <2>5. FormTypeOK'
    BY <1>1, <2>1, <2>2, <2>3, EmptyAnswers DEF FormInv, FormTypeOK
  <2>6. ChosenOK'
    BY <1>1, <2>1, <2>3, EmptyAnswers DEF FormInv, ChosenOK, Chosen
  <2>7. RequestsOK'
    <3>1. /\ sent.op \in {"create", "patch", "complete"} => sent.body \in Answers
          /\ sent.op = "complete" => Answered(sent)
          /\ sent.op = "none" => sent = NoRequest
          /\ sent # NoRequest => sent.stage # "none"
      BY DEF FormInv, RequestsOK, Saving
    <3>2. /\ sent'.op \in {"create", "patch", "complete"} => sent'.body \in Answers
          /\ sent'.op = "complete" => Answered(sent')
          /\ sent'.op = "none" => sent' = NoRequest
          /\ sent' # NoRequest => sent'.stage # "none"
      BY <2>1, <3>1 DEF Answered
    <3> QED
      BY <1>1, <3>2, EmptyAnswers DEF RequestsOK, Answered, Saving
  <2>8. ServerOK'
    BY <1>3, <2>3 DEF FormInv, ServerOK, ServerDone, RequestsOK, Answered, NameComplete,
                      Occurrences, CalculatedText
  <2>9. sent.op # "preview" /\ sent.stage = "accepted" => ~orphan.fresh
    BY <1>1 DEF FormInv, SentOK
  <2>10. sent.stage = "accepted" /\ sent.op \in {"create", "patch"} => server'.status = "draft"
    BY <1>4, <2>3, <2>9 DEF Accepted
  <2>11. sent.stage = "accepted" /\ sent.op = "complete" => FALSE
    BY <2>3 DEF FormInv, SentOK, ServerDone, DoneStatuses
  <2>12. SentOK'
    <3>1. /\ sent # NoRequest => Step < 5
          /\ sent.op \in {"create", "patch", "complete"} => ~Completed
          /\ sent.op = "preview" => Completed
          /\ sent.op = "complete" => Step = 4 /\ Agrees(sent.body)
      BY DEF FormInv, SentOK, Saving
    <3>2. /\ sent' # NoRequest => Step' < 5
          /\ sent'.op = "complete" => Step' = 4 /\ Agrees(sent.body)'
      BY <1>2, <2>1, <3>1
    <3>3. Completed' = Completed
      BY <2>2 DEF Completed
    <3> QED
      BY <1>1, <2>1, <2>10, <2>11, <3>1, <3>2, <3>3 DEF SentOK, Saving
  <2>13. CompletedOK' /\ PreviewOK'
    BY <1>1, <2>2, <2>4 DEF CompletedOK, PreviewOK, Completed
  <2> QED
    BY <2>5, <2>6, <2>7, <2>8, <2>12, <2>13 DEF FormInv
<1>5. CASE UNCHANGED <<server, current, sent>>
  <2>1. FormTypeOK' /\ ChosenOK'
    BY <1>1, <1>5, EmptyAnswers DEF FormInv, FormTypeOK, ChosenOK, Chosen
  <2>2. RequestsOK'
    BY <1>1, <1>5, EmptyAnswers DEF FormInv, RequestsOK, Answered, Saving
  <2>3. SentOK'
    BY <1>1, <1>2, <1>5 DEF FormInv, SentOK, Saving, Completed
  <2>4. ServerOK' /\ PreviewOK'
    BY <1>1, <1>5 DEF FormInv, ServerOK, ServerDone, NameComplete, Occurrences, CalculatedText,
                      PreviewOK, Completed
  <2>5. CompletedOK'
    BY <1>1, <1>2, <1>5 DEF FormInv, CompletedOK, Completed, ServerDone
  <2> QED
    BY <2>1, <2>2, <2>3, <2>4, <2>5 DEF FormInv
<1> QED
  BY <1>4, <1>5 DEF ServeOrphan

LEMMA CheckoutOpensInv ==
  ASSUME FormInv, CheckoutOpens
  PROVE  FormInv'
<1>1. /\ server.status = "complete" /\ server' = [server EXCEPT !.status = "checkout_created"]
      /\ shownPreview # NoAnswers
      /\ UNCHANGED <<values, requested, current, addressed, sent, orphan, shownPreview, notice, chosen>>
  BY DEF CheckoutOpens
<1>2. server' \in Intents /\ server'.status = "checkout_created" /\ server'.draft = server.draft
  BY <1>1, FormTypes DEF Intents, Statuses
<1>3. /\ Step' = Step /\ \A s : StepIsComplete(s)' = StepIsComplete(s)
      /\ \A draft : Agrees(draft)' = Agrees(draft)
  BY <1>1, SameStep
<1>4. Completed
  BY <1>1 DEF FormInv, PreviewOK
<1>5. FormTypeOK' /\ ChosenOK'
  BY <1>1, <1>2 DEF FormInv, FormTypeOK, ChosenOK, Chosen
<1>6. RequestsOK'
  BY <1>1 DEF FormInv, RequestsOK, Answered, Saving
<1>7. ServerOK'
  BY <1>1, <1>2 DEF FormInv, ServerOK, ServerDone, DoneStatuses, NameComplete, Occurrences, CalculatedText
<1>8. SentOK'
  BY <1>1, <1>3, <1>4 DEF FormInv, SentOK, Saving, Completed
<1>9. CompletedOK' /\ PreviewOK'
  BY <1>1, <1>2, <1>3 DEF FormInv, CompletedOK, PreviewOK, Completed, ServerDone, DoneStatuses
<1> QED
  BY <1>5, <1>6, <1>7, <1>8, <1>9 DEF FormInv

LEMMA NoticeChangesInv ==
  ASSUME FormInv, NoticeChanges
  PROVE  FormInv'
<1>1. /\ notice' = 2
      /\ UNCHANGED <<values, requested, current, addressed, sent, orphan, shownPreview, server, chosen>>
  BY DEF NoticeChanges
<1>2. FormTypeOK' /\ ChosenOK'
  BY <1>1 DEF FormInv, FormTypeOK, ChosenOK, Chosen
<1>3. RequestsOK' /\ ServerOK' /\ PreviewOK'
  BY <1>1 DEF FormInv, RequestsOK, Answered, Saving, ServerOK, ServerDone, NameComplete,
              Occurrences, CalculatedText, PreviewOK, Completed
<1>4. SentOK' /\ CompletedOK'
  BY <1>1, SameStep DEF FormInv, SentOK, CompletedOK, Saving, Completed, ServerDone
<1> QED
  BY <1>2, <1>3, <1>4 DEF FormInv

\* The answer to a request is what the server made of it, and says what comes next.
LEMMA AnswerArrivesInv ==
  ASSUME FormInv, AnswerArrives
  PROVE  FormInv'
<1>1. /\ sent.stage = "accepted" /\ Saving /\ Step < 5 /\ Step \in 1 .. 5
      /\ UNCHANGED <<values, orphan, server, notice, chosen>>
  BY StepShown, FormTypes, EmptyAnswers DEF AnswerArrives, Saving, FormInv, SentOK
<1>2. /\ sent \in Sendable /\ sent.op \in {"create", "patch", "complete", "preview"}
      /\ sent.fresh \in BOOLEAN /\ server \in Intents
  BY <1>1, FormTypes DEF FormInv, RequestsOK, Saving, Sendable
<1>3. addressed' \in BOOLEAN
  BY DEF AnswerArrives
<1>4. /\ NoAnswers \in Answers \cup {NoAnswers}
      /\ ServerOK' /\ NoRequest \in Sendable /\ NoRequest.op = "none" /\ NoRequest.stage = "none"
  BY <1>1, EmptyAnswers DEF FormInv, ServerOK, ServerDone, NameComplete, Occurrences, CalculatedText
<1>5. CASE sent.op = "preview"
  <2>1. /\ current' = current /\ sent' = NoRequest /\ shownPreview' = server.draft
        /\ requested' = Step + 1 /\ requested' \in 1 .. 5
    BY <1>1, <1>5 DEF AnswerArrives
  <2>2. Completed /\ Step >= 3 /\ ServerDone /\ server.draft \in Answers
    BY <1>5, StepShown, FormTypes DEF FormInv, SentOK, CompletedOK, ServerOK
  <2>3. FormTypeOK' /\ ChosenOK'
    BY <1>1, <1>3, <1>4, <2>1, <2>2 DEF FormInv, FormTypeOK, ChosenOK, Chosen
  <2>4. RequestsOK' /\ SentOK'
    BY <1>1, <1>4, <2>1 DEF FormInv, RequestsOK, SentOK, Answered, Saving
  <2>5. CompletedOK' /\ PreviewOK'
    <3>1. /\ Agrees(server.draft) /\ StepIsComplete(1) /\ StepIsComplete(2)
      BY <2>2 DEF FormInv, CompletedOK
    <3>2. /\ Agrees(server.draft)' /\ StepIsComplete(1)' /\ StepIsComplete(2)'
      BY <1>1, <3>1 DEF Agrees, StepIsComplete, NameComplete, Occurrences, CalculatedText
    <3>3. requested' >= 3
      BY <1>1, <2>1, <2>2
    <3> QED
      BY <1>1, <2>1, <2>2, <3>2, <3>3 DEF CompletedOK, PreviewOK, Completed, ServerDone
  <2> QED
    BY <1>4, <2>3, <2>4, <2>5 DEF FormInv
<1>6. CASE sent.op # "preview"
  <2>1. /\ current' = [server EXCEPT !.fresh = sent.fresh, !.draft = NoAnswers]
        /\ shownPreview' = shownPreview
    BY <1>6 DEF AnswerArrives
  <2>2. /\ current' \in Intents /\ current'.status = server.status /\ current'.draft = NoAnswers
    BY <1>2, <1>4, <2>1 DEF Intents
  <2>3. shownPreview = NoAnswers
    BY <1>2, <1>6 DEF FormInv, SentOK, PreviewOK
  <2>4. CASE sent.op = "patch"
    <3>1. sent' = NoRequest /\ requested' = Step + 1 /\ requested' \in 1 .. 5
      BY <1>1, <2>4 DEF AnswerArrives
    <3>2. ~Completed'
      BY <1>1, <2>2, <2>4 DEF FormInv, SentOK, Completed
    <3>3. FormTypeOK' /\ ChosenOK'
      BY <1>1, <1>3, <1>4, <2>1, <2>2, <3>1 DEF FormInv, FormTypeOK, ChosenOK, Chosen
    <3>4. RequestsOK' /\ SentOK'
      BY <1>1, <1>4, <3>1 DEF FormInv, RequestsOK, SentOK, Answered, Saving
    <3>5. CompletedOK' /\ PreviewOK'
      BY <2>1, <2>3, <3>2 DEF CompletedOK, PreviewOK
    <3> QED
      BY <1>4, <3>3, <3>4, <3>5 DEF FormInv
  <2>5. CASE sent.op = "create"
    <3>1. sent' = Request("patch", sent.fresh, sent.body) /\ requested' = requested
      BY <2>5 DEF AnswerArrives
    <3>2. sent.body \in Answers /\ Chosen(sent.body.names)
      BY <2>5 DEF FormInv, RequestsOK, ChosenOK
    <3>3. sent' \in Sendable /\ sent'.op = "patch" /\ sent'.body = sent.body /\ sent'.stage = "sent"
      BY <1>2, <3>1, <3>2, RequestFields
    <3>4. ~Completed'
      BY <1>1, <2>2, <2>5 DEF FormInv, SentOK, Completed
    <3>5. Step' = Step
      BY <1>1, <2>1, <3>1, SameStep
    <3>6. FormTypeOK' /\ ChosenOK'
      BY <1>1, <1>3, <2>1, <2>2, <3>1, <3>2, <3>3 DEF FormInv, FormTypeOK, ChosenOK, Chosen
    <3>7. RequestsOK' /\ SentOK'
      BY <1>1, <1>4, <3>2, <3>3, <3>4, <3>5 DEF FormInv, RequestsOK, SentOK, Answered, Saving
    <3>8. CompletedOK' /\ PreviewOK'
      BY <2>1, <2>3, <3>4 DEF CompletedOK, PreviewOK
    <3> QED
      BY <1>4, <3>6, <3>7, <3>8 DEF FormInv
  <2>6. CASE sent.op = "complete"
    <3>1. sent' = Request("preview", TRUE, NoAnswers) /\ requested' = requested
      BY <2>6 DEF AnswerArrives
    <3>2. sent' \in Sendable /\ sent'.op = "preview" /\ sent'.stage = "sent"
      BY <1>4, <3>1, RequestFields
    <3>3. /\ server.status = "complete" /\ server.draft = sent.body /\ Agrees(sent.body) /\ Step = 4
      BY <1>1, <2>6 DEF FormInv, SentOK
    <3>4. /\ Step' = Step /\ \A s : StepIsComplete(s)' = StepIsComplete(s)
          /\ \A draft : Agrees(draft)' = Agrees(draft)
      BY <1>1, <2>1, <3>1, SameStep
    <3>5. Completed'
      BY <2>2, <3>3 DEF Completed
    <3>6. requested' >= 3 /\ StepIsComplete(1) /\ StepIsComplete(2)
      BY <3>1, <3>3, StepShown, FormTypes
    <3>7. FormTypeOK' /\ ChosenOK'
      BY <1>1, <1>3, <2>1, <2>2, <3>1, <3>2 DEF FormInv, FormTypeOK, ChosenOK, Chosen
    <3>8. RequestsOK' /\ SentOK'
      BY <1>1, <1>4, <3>2, <3>4, <3>5 DEF FormInv, RequestsOK, SentOK, Answered, Saving
    <3>9. CompletedOK' /\ PreviewOK'
      BY <1>1, <2>1, <2>3, <3>3, <3>4, <3>6 DEF CompletedOK, PreviewOK, ServerDone, DoneStatuses
    <3> QED
      BY <1>4, <3>7, <3>8, <3>9 DEF FormInv
  <2> QED
    BY <1>2, <1>6, <2>4, <2>5, <2>6
<1> QED
  BY <1>5, <1>6

\* The page is filled again from what the server keeps.
LEMMA ReloadInv ==
  ASSUME FormInv, Reload
  PROVE  FormInv'
<1>1. sent' = NoRequest /\ notice' = notice
  BY DEF Reload
<1>2. CASE ~addressed
  BY <1>1, <1>2, NewIntakeInv DEF Reload
<1>3. CASE addressed
  <2>1. /\ orphan' \in {orphan, sent}
        /\ values' = FromDraft(server.draft)
        /\ current' = [server EXCEPT !.draft = NoAnswers]
        /\ shownPreview' = IF server.status = "draft" THEN NoAnswers ELSE server.draft
        /\ requested' \in 1 .. 5 /\ (server.status # "draft" => requested' = 5)
        /\ UNCHANGED <<addressed, server, chosen>>
    BY <1>3 DEF Reload
  <2>2. /\ server \in Intents /\ server.draft \in Answers \cup {NoAnswers}
        /\ server.status = "none" => server.draft = NoAnswers
        /\ ServerDone => server.draft \in Answers
        /\ NoIntent.draft = NoAnswers
    BY FormTypes, EmptyAnswers DEF FormInv, ServerOK
  <2>3. /\ values' \in Values
        /\ server.draft \in Answers => /\ values'.names = server.draft.names
                                       /\ values'.date = server.draft.date
        /\ server.draft = NoAnswers => values' = EmptyValues
    <3>1. CASE server.draft = NoAnswers
      BY <2>1, <3>1, EmptyAnswers, AnswerFields DEF FromDraft
    <3>2. CASE server.draft # NoAnswers
      BY <2>1, <2>2, <3>2, AnswerFields DEF FromDraft, Values
    <3> QED
      BY <3>1, <3>2
  <2>4. current' \in Intents /\ current'.status = server.status /\ current'.draft = NoAnswers
    BY <2>1, <2>2 DEF Intents
  <2>5. FormTypeOK'
    BY <1>1, <2>1, <2>2, <2>3, <2>4, EmptyAnswers DEF FormInv, FormTypeOK
  <2>6. ChosenOK'
    <3>1. server.draft # NoAnswers => Chosen(server.draft.names)
      BY DEF FormInv, ChosenOK
    <3>2. Chosen(values'.names)
      BY <2>2, <2>3, <3>1, EmptyAnswers DEF Chosen
    <3>3. \A r \in {sent, orphan, NoRequest} : r.op \in {"create", "patch", "complete"} => Chosen(r.body.names)
      BY EmptyAnswers DEF FormInv, ChosenOK
    <3> QED
      BY <1>1, <2>1, <3>1, <3>2, <3>3 DEF ChosenOK, Chosen
  <2>7. RequestsOK'
    BY <1>1, <2>1, EmptyAnswers DEF FormInv, RequestsOK, Answered, Saving
  <2>8. SentOK'
    BY <1>1, EmptyAnswers DEF SentOK, Saving
  <2>9. ServerOK'
    BY <2>1 DEF FormInv, ServerOK, ServerDone, NameComplete, Occurrences, CalculatedText
  <2>10. CompletedOK'
    <3> SUFFICES ASSUME Completed' PROVE CompletedOK'
      BY DEF CompletedOK
    <3>1. ServerDone /\ server.status # "draft" /\ server.status \in DoneStatuses
      BY <2>2, <2>4 DEF Completed, ServerDone, DoneStatuses, Intents, Statuses
    <3>2. /\ server.draft \in Answers /\ server.draft.date = "adult"
          /\ \A f \in Fields : NameComplete(server.draft.names[f])
          /\ values'.names = server.draft.names /\ values'.date = server.draft.date
      BY <2>2, <2>3, <3>1 DEF FormInv, ServerOK
    <3>3. Agrees(server.draft)'
      BY <2>1, <3>2 DEF Agrees, CalculatedText
    <3>4. StepIsComplete(1)' /\ StepIsComplete(2)'
      BY <3>2, StepNames DEF StepIsComplete, NameComplete, Occurrences, CalculatedText
    <3> QED
      BY <2>1, <3>1, <3>3, <3>4 DEF CompletedOK, ServerDone
  <2>11. PreviewOK'
    BY <2>1, <2>2, <2>4 DEF PreviewOK, Completed
  <2> QED
    BY <2>5, <2>6, <2>7, <2>8, <2>9, <2>10, <2>11 DEF FormInv
<1> QED
  BY <1>2, <1>3

LEMMA FormNextInv ==
  ASSUME FormInv, [FormNext]_formVars
  PROVE  FormInv'
<1>1. CASE \E f \in Fields : \/ TypeName(f) \/ TypeSpelling(f)
                             \/ \E p \in Occurrences(values.names[f]), c \in Classes : ChooseClass(f, p, c)
  BY <1>1, TypingInv, ChooseClassInv
<1>2. CASE Answer \/ Back \/ Continue
  BY <1>2, AnswerInv, BackInv, ContinueInv
<1>3. CASE StartOver
  BY <1>3, NewIntakeInv DEF StartOver, Saving
<1>4. CASE Serve \/ ServeOrphan \/ CheckoutOpens \/ NoticeChanges
  BY <1>4, ServeInv, ServeOrphanInv, CheckoutOpensInv, NoticeChangesInv
<1>5. CASE AnswerArrives \/ Refused \/ Lost \/ Reload
  BY <1>5, AnswerArrivesInv, GiveUpInv, ReloadInv
<1>6. CASE UNCHANGED formVars
  <2>1. /\ UNCHANGED <<values, requested, current, addressed, sent, orphan, shownPreview, server>>
        /\ UNCHANGED <<notice, chosen>>
    BY <1>6 DEF formVars
  <2>2. FormTypeOK' /\ ChosenOK'
    BY <2>1 DEF FormInv, FormTypeOK, ChosenOK, Chosen
  <2>3. RequestsOK' /\ ServerOK' /\ PreviewOK'
    BY <2>1 DEF FormInv, RequestsOK, Answered, Saving, ServerOK, ServerDone, NameComplete,
                Occurrences, CalculatedText, PreviewOK, Completed
  <2>4. SentOK' /\ CompletedOK'
    BY <2>1, SameStep DEF FormInv, SentOK, CompletedOK, Saving, Completed, ServerDone
  <2> QED
    BY <2>2, <2>3, <2>4 DEF FormInv
<1> QED
  BY <1>1, <1>2, <1>3, <1>4, <1>5, <1>6 DEF FormNext

\* Through every edit, lost answer, repeated or orphaned request and reload of the form, the
\* classes stored were chosen, and a completed page agrees with the server.
THEOREM FormInvariant == FormSpec => []FormInv
BY FormInitInv, FormNextInv, PTL DEF FormSpec

\* The preview that is offered for sale was calculated from the names, the classes and the
\* date the form shows, for any names and any number of edits (IntakeForm, intake-client).
THEOREM ReviewedHolds == FormSpec => []ReviewedIsCalculated
<1>1. FormInv => ReviewedIsCalculated
  <2> SUFFICES ASSUME FormInv, shownPreview # NoAnswers
               PROVE  /\ shownPreview.date = values.date
                      /\ \A f \in Fields :
                           /\ shownPreview.names[f].text = values.names[f].text
                           /\ CalculatedText(shownPreview.names[f]) = CalculatedText(values.names[f])
                           /\ \A p \in Occurrences(values.names[f]) :
                                shownPreview.names[f].ys[p] = values.names[f].ys[p]
    BY DEF ReviewedIsCalculated
  <2>1. Agrees(shownPreview)
    BY DEF FormInv, PreviewOK, CompletedOK
  <2> QED
    BY <2>1 DEF Agrees
<1> QED
  BY <1>1, FormInvariant, PTL

\* Whatever was lost or sent twice, a completed intake was answered in full and counts a Y
\* only as the customer chose (completeIntent, updateDraft, valuesToPatch).
THEOREM CompletedHolds == FormSpec => []CompletedWasAnswered
<1>1. FormInv => CompletedWasAnswered
  <2> SUFFICES ASSUME FormInv, server.status \notin {"none", "draft"}
               PROVE  /\ server.draft.date = "adult" /\ server.draft.consent > 0
                      /\ \A f \in Fields :
                           /\ NameComplete(server.draft.names[f])
                           /\ \A p \in Occurrences(server.draft.names[f]) :
                                <<f, p, server.draft.names[f].ys[p]>> \in chosen
    BY DEF CompletedWasAnswered
  <2>1. ServerDone
    BY FormTypes DEF ServerDone, DoneStatuses, Statuses
  <2>2. /\ server.draft \in Answers
        /\ server.draft.date = "adult" /\ server.draft.consent > 0
        /\ \A f \in Fields : NameComplete(server.draft.names[f])
    BY <2>1 DEF FormInv, ServerOK
  <2>3. Chosen(server.draft.names)
    BY <2>2, AnswerFields DEF FormInv, ChosenOK
  <2> QED
    BY <2>2, <2>3 DEF Chosen, NameComplete
<1> QED
  BY <1>1, FormInvariant, PTL
=============================================================================
