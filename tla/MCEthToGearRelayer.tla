--------------------------- MODULE MCEthToGearRelayer ---------------------------
(* Ethereum block 1 has slot 2 and transactions 1 (paid) and 2, block 2 has slot  *)
(* 4 and transaction 3 (paid).  The light client has no checkpoint at first, then *)
(* 3, 5 and 5.                                                                    *)
EXTENDS EthToGearRelayer, TLC

MCEventsIn     == (1 :> <<1, 2>>) @@ (2 :> <<3>>)
MCFeesIn       == (1 :> <<1>>) @@ (2 :> <<3>>)
MCSlotOf       == (1 :> 2) @@ (2 :> 2) @@ (3 :> 4)
MCCheckpointAt == (1 :> 0) @@ (2 :> 3) @@ (3 :> 5) @@ (4 :> 5)
================================================================================
