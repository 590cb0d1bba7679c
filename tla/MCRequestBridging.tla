--------------------------- MODULE MCRequestBridging ---------------------------
(* The token supply of each request is given by the set of Gear-supply ones. *)
EXTENDS RequestBridging

CONSTANT GearRequests

MCSupply == [m \in Requests |-> IF m \in GearRequests THEN "Gear" ELSE "Ethereum"]
================================================================================
