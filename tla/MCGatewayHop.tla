---------------------------- MODULE MCGatewayHop ----------------------------
(* Instances of GatewayHop for TLC: every operation the adapters call. *)
EXTENDS GatewayHop

AllOperations == Catalog
=============================================================================
