--------------------------- MODULE MCJobLifecycle ---------------------------
(***************************************************************************)
(* Small instances of JobLifecycle for TLC.                                *)
(***************************************************************************)
EXTENDS JobInvariant

\* Every job starts in cycle 1, in environment 1 (the one the code supports).
FirstCycle == [j \in JobIds |-> 1]
Env1 == [j \in JobIds |-> 1]

\* Every selection.
AllSelections == [JobIds -> [Attempts -> Gateways \union {NoGateway}]]
=============================================================================
