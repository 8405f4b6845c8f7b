--------------------------- MODULE MCEpochService ---------------------------
(***************************************************************************)
(* Small instances of EpochService and GatewaySelection for TLC: the .cfg  *)
(* files give the other numbers.                                           *)
(***************************************************************************)
EXTENDS GatewaySelection

\* The first gateway never changes its stake; the second starts below the minimum,
\* has the same share twice and leaves at the end.
Stakes2 == [g \in Gateways |-> [b \in Blocks |-> IF g = 1 THEN 5 ELSE <<4, 6, 7, 9, 9>>[b]]]
Draining2 == [g \in Gateways |-> [b \in Blocks |-> g = 2 /\ b >= 4]]
=============================================================================
