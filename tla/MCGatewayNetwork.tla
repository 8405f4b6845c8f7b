-------------------------- MODULE MCGatewayNetwork --------------------------
(***************************************************************************)
(* Small instances of GatewayNetwork for TLC.                              *)
(***************************************************************************)
EXTENDS GatewayNetwork

Selections == [Attempts -> Gateways \union {NoGateway}]
AllViews == [Gateways -> Selections]
=============================================================================
