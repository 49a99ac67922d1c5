-------------------------- MODULE MCRedemptionClient --------------------------
(* A small instance of RedemptionClient: two reward names. *)
EXTENDS RedemptionClient

CONSTANTS jig, honey
=============================================================================
