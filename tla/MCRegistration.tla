---------------------------- MODULE MCRegistration ----------------------------
(***************************************************************************)
(* A small instance of Registration for TLC.                               *)
(***************************************************************************)
EXTENDS Registration

\* An export may ask for nothing, or for one chain.
SingleIds == {{}} \union {{c} : c \in Chains}
=============================================================================
