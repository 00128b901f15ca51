--------------------------- MODULE MCDeliveryViews ---------------------------
(***************************************************************************)
(* Instances of DeliveryViews for TLC.  The initial state chooses between  *)
(* two workers and two recipients without callbacks; two requests of the   *)
(* provider at a time with all its callbacks, and one worker for one       *)
(* recipient; and the same with a single callback beside reviewers that    *)
(* read.                                                                   *)
(***************************************************************************)
EXTENDS MCDeliveryEngine, DeliveryViews

CONSTANT w1

VARIABLE part

DeliveriesInit == ViewInit /\ part \in {"worked", "called", "read"}

\* One callback, handled without a fault.
OneCallback ==
  /\ Cardinality(callbacks') <= 1
  /\ \A e \in EventId : reply'[e] # "retry"
  /\ Cardinality({h \in Handler : handling'[h] # NoCallback}) <= 1

\* Beside callbacks there is one chain, one worker and one fault.
OneChain ==
  /\ \A d \in Delivery : recipient[d] # r1 => deliveries'[d] = NoRow
  /\ \A w \in Worker \ {w1} : Held(w)' = {}
  /\ faults' <= 1

DeliveriesNext ==
  /\ UNCHANGED part
  /\ \/ part = "worked" /\ Next /\ UNCHANGED <<view, callbacks>>
     \/ part = "called" /\ Next /\ OneChain /\ UNCHANGED view
     \/ part = "read" /\ ViewNext /\ OneChain /\ OneCallback

DeliveriesSpec == DeliveriesInit /\ [][DeliveriesNext]_<<viewVars, part>>
=============================================================================
