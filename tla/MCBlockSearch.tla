---------------------------- MODULE MCBlockSearch ----------------------------
(***************************************************************************)
(* Small instances of BlockSearch for TLC: the .cfg files give numbers.    *)
(***************************************************************************)
EXTENDS BlockSearch
=============================================================================
