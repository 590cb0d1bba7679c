-------------------------- MODULE MCCheckpointRelayer --------------------------
(****************************************************************************)
(* Two slots per epoch and three epochs per period, as in MCLightClient.  The *)
(* light client is at slot 7, of period 1.  The beacon node knows period 2    *)
(* when the relayer starts, so that it must replay, later in two intervals    *)
(* of several batches each.  The node finalizes a block of period 3 before it *)
(* has an update of that period, then has one, and then finalizes past it.    *)
(* A relayer that starts at the end is three periods behind, and asks for two *)
(* updates at a time.                                                         *)
(****************************************************************************)
EXTENDS CheckpointRelayer, TLC

MCChain == {7, 8, 9, 11, 13, 14, 15, 16, 17, 18, 20, 22, 24}

U(fin, att, sig, next) == [fin |-> fin, att |-> att, sig |-> sig, next |-> next]

Best(b2, b3, b4) ==
    (0 :> None) @@ (1 :> U(9, 11, 11, TRUE)) @@ (2 :> b2) @@ (3 :> b3) @@ (4 :> b4)

B2 == U(13, 16, 17, TRUE)
B3 == U(18, 20, 21, TRUE)
B4 == U(24, 26, 27, TRUE)

MCBeacon ==
    << [finality |-> U(13, 16, 17, FALSE), best |-> Best(B2, None, None)],
       [finality |-> U(17, 18, 19, FALSE), best |-> Best(B2, None, None)],
       [finality |-> U(18, 20, 21, FALSE), best |-> Best(B2, None, None)],
       [finality |-> U(18, 20, 21, FALSE), best |-> Best(B2, B3, None)],
       [finality |-> U(20, 22, 23, FALSE), best |-> Best(B2, B3, None)],
       [finality |-> U(24, 26, 27, FALSE), best |-> Best(B2, B3, B4)] >>

MCUpdates ==
    {MCBeacon[i].finality : i \in DOMAIN MCBeacon} \cup {U(9, 11, 11, TRUE), B2, B3, B4}
================================================================================
