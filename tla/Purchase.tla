------------------------------ MODULE Purchase ------------------------------
(***************************************************************************)
(* What buying a report promises, without orders, events, retries or       *)
(* provider calls: money is charged, the first charge of an intent grants  *)
(* access and requests the report in the same step, and a refund returns   *)
(* one charge and revokes access in the same step.                         *)
(*                                                                         *)
(* PaymentStore implements this specification (ImplementsPurchase).        *)
(***************************************************************************)
CONSTANTS Intents, Payments, None

VARIABLES
  charged,    \* the payments ever captured for an intent
  access,     \* "none", "granted" or "revoked"
  requested,  \* the intents whose report was requested from the generator
  returned    \* the payment refunded for an intent, or None

purchaseVars == <<charged, access, requested, returned>>

PurchaseInit ==
  /\ charged = [i \in Intents |-> {}]
  /\ access = [i \in Intents |-> "none"]
  /\ requested = {}
  /\ returned = [i \in Intents |-> None]

Uncharged(p) == \A i \in Intents : p \notin charged[i]

\* A capture becomes known.  Only the first one of an intent delivers anything: a
\* later one is money without a second report, and does not reopen revoked access.
Charge(i, p) ==
  /\ Uncharged(p)
  /\ charged' = [charged EXCEPT ![i] = @ \cup {p}]
  /\ access' = [access EXCEPT ![i] = IF @ = "none" THEN "granted" ELSE @]
  /\ requested' = requested \cup {i}
  /\ UNCHANGED returned

Refund(i, p) ==
  /\ p \in charged[i]
  /\ access[i] = "granted"
  /\ access' = [access EXCEPT ![i] = "revoked"]
  /\ returned' = [returned EXCEPT ![i] = p]
  /\ UNCHANGED <<charged, requested>>

PurchaseNext == \E i \in Intents, p \in Payments : Charge(i, p) \/ Refund(i, p)

PurchaseSpec == PurchaseInit /\ [][PurchaseNext]_purchaseVars
=============================================================================
