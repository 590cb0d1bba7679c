--------------------------- MODULE MCGearToEthRelayer ---------------------------
(* Blocks 1 to 3 are signed by set 1, block 4 by set 2.  Messages 1 and 2 are    *)
(* queued in block 2 and message 3 in block 4; message 2 is paid twice, message  *)
(* 3 before it is queued.  Ethereum brings the root of block 1, then 4 and 3.    *)
EXTENDS GearToEthRelayer, TLC

MCBlockOf == (1 :> 2) @@ (2 :> 2) @@ (3 :> 4)
MCSigner  == (1 :> 1) @@ (2 :> 1) @@ (3 :> 1) @@ (4 :> 2)
MCPaidIn  == (1 :> <<>>) @@ (2 :> <<2, 3>>) @@ (3 :> <<>>) @@ (4 :> <<2>>)
MCRootsIn == (1 :> <<1>>) @@ (2 :> <<4, 3>>)
================================================================================
