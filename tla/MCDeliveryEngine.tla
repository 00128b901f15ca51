-------------------------- MODULE MCDeliveryEngine --------------------------
(***************************************************************************)
(* Instances of DeliveryEngine for TLC.                                    *)
(***************************************************************************)
EXTENDS DeliveryEngine, TLC

CONSTANTS r1, r2          \* recipients

\* Odd deliveries go to r1, even ones to r2.  1 and 3 are the primary and the
\* fallback of r1; r2 takes all its channels at once.
ChainRecipient == [d \in Delivery |-> IF d % 2 = 1 THEN r1 ELSE r2]
ChainTier      == [d \in Delivery |-> IF d = 3 THEN 1 ELSE 0]

WebhookSymmetry == Permutations(Handler) \cup Permutations(EventId)
=============================================================================
