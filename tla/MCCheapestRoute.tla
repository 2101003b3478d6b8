--------------------------- MODULE MCCheapestRoute ---------------------------
(* CheapestRoute on the databases of MCRouteCost.                              *)
EXTENDS CheapestRoute, MCRouteCost
==============================================================================
