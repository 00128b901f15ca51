-------------------------- MODULE DeliveryContract --------------------------
(***************************************************************************)
(* What the delivery engine promises the recipient of an alert, without    *)
(* workers, database rows, providers or callbacks.  Each planned delivery  *)
(* is tried a bounded number of times and ends in exactly one of two ways; *)
(* a fallback is tried only when every endpoint before it was given up.    *)
(***************************************************************************)
EXTENDS Naturals

CONSTANTS
  Delivery,      \* the planned deliveries
  lower,         \* [Delivery -> SUBSET Delivery]: what a delivery is the fallback of
  MaxAttempts    \* tries allowed per delivery

VARIABLES
  phase,         \* [Delivery -> Phase]
  tries          \* [Delivery -> Nat]: how often the delivery was started

cvars == <<phase, tries>>

Phase == {"unplanned", "waiting", "trying", "reached", "gaveUp"}

Init ==
  /\ phase = [d \in Delivery |-> "unplanned"]
  /\ tries = [d \in Delivery |-> 0]

Plan(d) ==
  /\ phase[d] = "unplanned"
  /\ phase' = [phase EXCEPT ![d] = "waiting"]
  /\ UNCHANGED tries

MayTry(d) ==
  /\ phase[d] \in {"waiting", "trying"}
  /\ tries[d] < MaxAttempts
  /\ \A e \in lower[d] : phase[e] = "gaveUp"

\* One poll starts several deliveries at once.
Try(S) ==
  /\ \A d \in S : MayTry(d)
  /\ phase' = [d \in Delivery |-> IF d \in S THEN "trying" ELSE phase[d]]
  /\ tries' = [d \in Delivery |-> IF d \in S THEN tries[d] + 1 ELSE tries[d]]

Settle(d, verdict) ==
  /\ phase[d] = "trying"
  /\ phase' = [phase EXCEPT ![d] = verdict]
  /\ UNCHANGED tries

Next ==
  \/ \E d \in Delivery : Plan(d)
  \/ \E S \in SUBSET Delivery : Try(S)
  \/ \E d \in Delivery, verdict \in {"reached", "gaveUp"} : Settle(d, verdict)

Spec == Init /\ [][Next]_cvars

=============================================================================
