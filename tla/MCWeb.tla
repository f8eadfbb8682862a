------------------------------- MODULE MCWeb --------------------------------
(***************************************************************************)
(* What stands between the customer and the payment module: the checkout   *)
(* panel of the page, and the rate limiter its requests pass first.  They  *)
(* share no variable; part says which one a behaviour is about, and the    *)
(* other stays in an initial state in which nothing can happen.            *)
(***************************************************************************)
EXTENDS CheckoutPanel, RateLimiter

VARIABLE part

webVars == <<part, panelVars, limiterVars>>

WebInit ==
  /\ part \in {"panel", "limiter"}
  /\ PanelInit /\ LimiterInit
  /\ part # "panel" => ~resumeExisting

WebNext ==
  \/ part = "panel" /\ PanelNext /\ UNCHANGED <<part, limiterVars>>
  \/ part = "limiter" /\ LimiterNext /\ UNCHANGED <<part, panelVars>>

WebSpec == WebInit /\ [][WebNext]_webVars /\ PanelFairness
=============================================================================
