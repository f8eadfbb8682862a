-------------------------- MODULE CheckoutHistory ---------------------------
(***************************************************************************)
(* CheckoutService with a history variable: the payments some request has  *)
(* already seen under way at the provider.  The code keeps no such set; a  *)
(* request that sees one records it only by marking the order ambiguous.   *)
(***************************************************************************)
EXTENDS CheckoutService

VARIABLE seenLive   \* the payments a fetch found neither failed nor captured

Underway(p) == remotePayment[p] \in {"created", "authorized"}

HistoryInit == ServiceInit /\ seenLive = {}

HistoryNext ==
  \/ /\ ServiceNext
     /\ UNCHANGED seenLive
  \/ \E c \in Calls :
       /\ FetchOrder(c)
       /\ seenLive' = seenLive \cup {p \in RemotePaymentsOf(call[c].order) : Underway(p)}

HistorySpec == HistoryInit /\ [][HistoryNext]_<<serviceVars, seenLive>>

\* docs/payments.md: "Attempted, unknown and merely authorized payments remain ambiguous;
\* delayed failures cannot clear uncertainty".  Once a request has seen a payment under
\* way and marked the order ambiguous, no other request makes it payable again while that
\* payment is still under way.
UncertaintyOutlivesAttempts ==
  [][\A i \in Intents :
       /\ orderStatus[i] = "ambiguous" /\ Payable(orderStatus'[i])
       /\ \A c \in Calls : ~At(c, "mark")
       =>
         \A p \in seenLive : remoteFor[p] = providerOrder[i] => ~Underway(p)]_<<serviceVars, seenLive>>
=============================================================================
