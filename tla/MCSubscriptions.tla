--------------------------- MODULE MCSubscriptions ---------------------------
(***************************************************************************)
(* Small instances of Subscriptions for TLC.                               *)
(***************************************************************************)
EXTENDS Subscriptions, TLC

AllKinds == {"started", "params", "termination"}

\* No subscription is different from another; sound for the invariants of SubEvents.
SubSymmetry == Permutations(Subs)
=============================================================================
