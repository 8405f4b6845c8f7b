---------------------------- MODULE MCConfirmEvent ----------------------------
(***************************************************************************)
(* Small instances of ConfirmEvent for TLC: the .cfg files give numbers.   *)
(***************************************************************************)
EXTENDS ConfirmEvent
=============================================================================
