--------------------------- MODULE CheckoutPanel ----------------------------
(***************************************************************************)
(* The checkout panel of one report intent in one tab                      *)
(* (apps/web/src/checkout/checkout-panel.tsx over checkout-client.ts).     *)
(*                                                                         *)
(* A request is answered with the order's status at the moment the server  *)
(* serves it; answers arrive in any order, or not at all.  The hosted      *)
(* checkout covers the page while it is open.  The server's order is       *)
(* "remote": whatever PaymentStore may make of it, in one variable.        *)
(***************************************************************************)
EXTENDS Naturals

CONSTANT Requests   \* requests in flight

VARIABLES
  resumeExisting,  \* the property of the component: the intent was sold before
  remote,      \* the order's status on the server
  order,       \* the order the panel shows
  busy, error, canResume,
  success,     \* successSignal: the hosted checkout reported a payment
  proof,       \* pendingProof is set
  resumed,     \* resumedOnMount
  hosted,      \* how many hosted checkouts are open
  request,     \* requests in flight, with their answer
  overlapped   \* history: two requests for a checkout were in flight at once

panelVars == <<resumeExisting, remote, order, busy, error, canResume, success, proof,
               resumed, hosted, request, overlapped>>
shown == <<resumeExisting, order, busy, error, canResume, success, proof, resumed, hosted>>

OrderStatuses == {"none", "pending", "ambiguous", "failed", "paid", "expired", "refunded"}
IsPayable(status) == status \in {"pending", "failed"}

\* "script": create was answered with a checkout and its script is being loaded.
Idle == [op |-> "none", stage |-> "idle", answer |-> "none", checkout |-> FALSE]
RequestStates ==
  [op : {"none", "create", "status", "proof", "recheck"},
   stage : {"idle", "sent", "answered", "script"},
   answer : OrderStatuses, checkout : BOOLEAN]

PanelTypeOK ==
  /\ remote \in OrderStatuses /\ order \in OrderStatuses
  /\ resumeExisting \in BOOLEAN /\ busy \in BOOLEAN /\ error \in BOOLEAN
  /\ canResume \in BOOLEAN /\ success \in BOOLEAN /\ proof \in BOOLEAN
  /\ resumed \in BOOLEAN /\ overlapped \in BOOLEAN
  /\ hosted \in Nat
  /\ request \in [Requests -> RequestStates]

PanelInit ==
  /\ resumeExisting \in BOOLEAN
  /\ remote \in IF resumeExisting THEN OrderStatuses \ {"none"} ELSE {"none"}
  /\ order = "none"
  /\ busy = FALSE /\ error = FALSE /\ canResume = FALSE
  /\ success = FALSE /\ proof = FALSE /\ resumed = FALSE
  /\ hosted = 0 /\ overlapped = FALSE
  /\ request = [r \in Requests |-> Idle]

Send(r, op) ==
  /\ request[r] = Idle
  /\ request' = [request EXCEPT ![r] = [Idle EXCEPT !.op = op, !.stage = "sent"]]
Finish(r) == request' = [request EXCEPT ![r] = Idle]

\* The order after acceptStatus: a settled order is kept, and after a reported
\* payment an order that looks unpaid is shown as being verified.
Safe(status) ==
  IF success /\ status \in {"pending", "failed", "expired"} THEN "ambiguous" ELSE status
\* Mutant: the status is shown as it came.
AcceptStatus_Plain(status) ==
  /\ order' = IF order = "refunded" \/ (order = "paid" /\ status # "refunded")
              THEN order ELSE status
  /\ canResume' = (~success /\ IsPayable(status))
AcceptStatus(status) ==
  /\ order' = IF order = "refunded" \/ (order = "paid" /\ Safe(status) # "refunded")
              THEN order ELSE Safe(status)
  /\ canResume' = (~success /\ IsPayable(Safe(status)))

-----------------------------------------------------------------------------
(* The customer.                                                           *)

PayButton ==
  \/ order = "none" /\ (~resumeExisting \/ error)
  \/ IsPayable(order) /\ (canResume \/ order = "failed")
CheckButton == order \in {"ambiguous", "pending"}
Clickable == ~busy /\ hosted = 0

Creating == \E r \in Requests : request[r].op = "create"

\* Mutant: the handler's signal is not asked.
Begin_Again(r) ==
  /\ Send(r, "create")
  /\ overlapped' = (overlapped \/ Creating)
  /\ busy' = TRUE /\ error' = FALSE /\ canResume' = FALSE
\* begin() until its request.
Begin(r) ==
  /\ ~success
  /\ Send(r, "create")
  /\ overlapped' = (overlapped \/ Creating)
  /\ busy' = TRUE /\ error' = FALSE /\ canResume' = FALSE

ClickPay(r) ==
  /\ Clickable /\ PayButton
  /\ Begin(r)
  /\ UNCHANGED <<resumeExisting, remote, order, success, proof, resumed, hosted>>

ResumeOnMount(r) ==
  /\ resumeExisting /\ ~resumed
  /\ resumed' = TRUE
  /\ Begin(r)
  /\ UNCHANGED <<resumeExisting, remote, order, success, proof, hosted>>

\* refresh() until its request: a proof that was not confirmed is sent again.
Refresh(r) ==
  /\ Send(r, IF proof THEN "recheck" ELSE "status")
  /\ busy' = TRUE /\ error' = FALSE

ClickCheck(r) ==
  /\ Clickable /\ CheckButton
  /\ Refresh(r)
  /\ UNCHANGED <<resumeExisting, remote, order, canResume, success, proof, resumed,
                 hosted, overlapped>>

-----------------------------------------------------------------------------
(* The hosted checkout.                                                    *)

AttemptFails(r) ==
  /\ hosted > 0
  /\ Refresh(r)
  /\ UNCHANGED <<resumeExisting, remote, order, canResume, success, proof, resumed,
                 hosted, overlapped>>

Dismiss ==
  /\ hosted > 0
  /\ hosted' = hosted - 1
  /\ canResume' = ~success
  /\ UNCHANGED <<resumeExisting, remote, order, busy, error, success, proof, resumed,
                 request, overlapped>>

\* acceptProof() until its request; an incomplete result is not sent.
AttemptSucceeds(r) ==
  /\ hosted > 0
  /\ hosted' = hosted - 1
  /\ success' = TRUE
  /\ canResume' = FALSE
  /\ \/ /\ Send(r, "proof")
        /\ proof' = TRUE /\ busy' = TRUE
        /\ UNCHANGED order
     \/ /\ request[r] = Idle
        /\ order' = "ambiguous"
        /\ UNCHANGED <<proof, busy, request>>
  /\ UNCHANGED <<resumeExisting, remote, error, resumed, overlapped>>

-----------------------------------------------------------------------------
(* The server and the network.                                             *)

\* What the payment repository may make of an order: finality is monotone.
RemoteMoves ==
  /\ remote' \in CASE remote = "none" -> {}
                   [] remote = "paid" -> {"refunded"}
                   [] remote = "refunded" -> {}
                   [] OTHER -> OrderStatuses \ {"none", "refunded", remote}
  /\ UNCHANGED <<shown, request, overlapped>>

\* A request is served: create makes the order or keeps it, and offers a checkout
\* for a payable one only.
ServeRequest(r) ==
  /\ request[r].stage = "sent"
  /\ remote' = IF request[r].op = "create" /\ remote = "none" THEN "pending" ELSE remote
  /\ \E checkout \in {FALSE, request[r].op = "create" /\ IsPayable(remote')} :
       request' = [request EXCEPT ![r].stage = "answered", ![r].answer = remote',
                                  ![r].checkout = checkout]
  /\ UNCHANGED <<shown, overlapped>>

AnswerCreate(r) ==
  /\ request[r].op = "create" /\ request[r].stage = "answered"
  /\ order' = request[r].answer
  /\ IF request[r].checkout
     THEN /\ request' = [request EXCEPT ![r] = [Idle EXCEPT !.op = "create", !.stage = "script"]]
          /\ UNCHANGED busy
     ELSE Finish(r) /\ busy' = FALSE
  /\ UNCHANGED <<resumeExisting, remote, error, canResume, success, proof, resumed,
                 hosted, overlapped>>

OpenHosted(r) ==
  /\ request[r].stage = "script"
  /\ hosted' = hosted + 1
  /\ Finish(r)
  /\ busy' = FALSE
  /\ UNCHANGED <<resumeExisting, remote, order, error, canResume, success, proof,
                 resumed, overlapped>>

AnswerStatus(r) ==
  /\ request[r].op \in {"status", "proof", "recheck"} /\ request[r].stage = "answered"
  /\ AcceptStatus(request[r].answer)
  /\ Finish(r)
  /\ busy' = FALSE
  /\ UNCHANGED <<resumeExisting, remote, error, success, proof, resumed, hosted,
                 overlapped>>

\* A request is refused, times out or loses its answer, or the script cannot be loaded.
FailCreate(r) ==
  /\ request[r].op = "create"
  /\ error' = TRUE
  /\ canResume' = (request[r].stage = "script")
  /\ Finish(r)
  /\ busy' = FALSE
  /\ UNCHANGED <<resumeExisting, remote, order, success, proof, resumed, hosted,
                 overlapped>>

FailStatus(r) ==
  /\ request[r].op \in {"status", "recheck"}
  /\ error' = TRUE
  /\ Finish(r)
  /\ busy' = FALSE
  /\ UNCHANGED <<resumeExisting, remote, order, canResume, success, proof, resumed,
                 hosted, overlapped>>

\* Mutant: a lost proof leaves what is shown.
FailProof_Kept(r) ==
  /\ request[r].op = "proof"
  /\ error' = TRUE
  /\ Finish(r)
  /\ busy' = FALSE
  /\ UNCHANGED <<resumeExisting, remote, order, canResume, success, proof, resumed,
                 hosted, overlapped>>
\* A lost proof says nothing about the capture: the order is shown as being verified.
FailProof(r) ==
  /\ request[r].op = "proof"
  /\ order' = "ambiguous"
  /\ Finish(r)
  /\ busy' = FALSE
  /\ UNCHANGED <<resumeExisting, remote, error, canResume, success, proof, resumed,
                 hosted, overlapped>>

-----------------------------------------------------------------------------
PanelRequest(r) ==
  \/ ClickPay(r) \/ ResumeOnMount(r) \/ ClickCheck(r)
  \/ AttemptFails(r) \/ AttemptSucceeds(r)
  \/ ServeRequest(r)
  \/ AnswerCreate(r) \/ OpenHosted(r) \/ AnswerStatus(r)
  \/ FailCreate(r) \/ FailStatus(r) \/ FailProof(r)

PanelNext == Dismiss \/ RemoteMoves \/ \E r \in Requests : PanelRequest(r)

PanelSpec == PanelInit /\ [][PanelNext]_panelVars

\* Once a payment was reported the customer keeps checking, and now and then an
\* answer arrives.
PanelFairness ==
  /\ WF_panelVars(\E r \in Requests : ClickCheck(r))
  /\ \A r \in Requests :
       /\ SF_panelVars(ServeRequest(r))
       /\ WF_panelVars(AnswerCreate(r) \/ FailCreate(r) \/ OpenHosted(r))
       /\ SF_panelVars(AnswerStatus(r))
  /\ WF_panelVars(\E r \in Requests : AnswerStatus(r) \/ FailStatus(r) \/ FailProof(r))

FairPanelSpec == PanelSpec /\ PanelFairness

-----------------------------------------------------------------------------
(* Properties.  "overlapped" excepts the one way the code leaves to break  *)
(* them: a slow status answer sets busy back while a request for a         *)
(* checkout is in flight, and the enabled button sends a second one, which *)
(* does not look at successSignal again when it is answered.               *)

\* Once the hosted checkout reported a payment, no further one opens, in
\* whatever order status answers, proofs and checkouts arrive.
SuccessIsNotRepaid == [][success /\ ~overlapped => hosted' <= hosted]_panelVars

\* When nothing is under way and the order is not settled, the page has a button
\* that does something: check the payment, or pay when no payment was reported.
NoDeadEnd ==
  (/\ \A r \in Requests : request[r] = Idle
   /\ hosted = 0
   /\ order \notin {"paid", "refunded", "expired"}
   /\ ~overlapped /\ (resumeExisting => resumed))
  => ~busy /\ (CheckButton \/ (PayButton /\ ~success))

\* After a reported payment the panel ends up showing that the order is paid,
\* however often answers are lost or overtaken on the way.
PaidIsShown ==
  (success /\ remote = "paid") ~> (order \in {"paid", "refunded"} \/ overlapped)
=============================================================================
