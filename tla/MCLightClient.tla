----------------------------- MODULE MCLightClient -----------------------------
(****************************************************************************)
(* Two slots per epoch and three epochs per period: periods begin at slots   *)
(* 6, 12 and 18.  The blocks at the epoch boundaries 10 and 12 are missing.  *)
(* Every update exists with and without the next committee; some are signed  *)
(* in a later period than the one that they finalize.                        *)
(****************************************************************************)
EXTENDS LightClient

CONSTANT FinalizedBlocks

MCChain == {6, 7, 8, 9, 11, 13, 14, 15, 16, 17, 18}

Signatures ==
    { [fin |-> 8,  att |-> 11, sig |-> 12],
      [fin |-> 9,  att |-> 11, sig |-> 13],
      [fin |-> 11, att |-> 15, sig |-> 16],
      [fin |-> 14, att |-> 16, sig |-> 17],
      [fin |-> 16, att |-> 17, sig |-> 18],
      [fin |-> 16, att |-> 20, sig |-> 21],
      [fin |-> 18, att |-> 20, sig |-> 21] }

MCUpdates ==
    { [fin |-> s.fin, att |-> s.att, sig |-> s.sig, next |-> b] :
        s \in {x \in Signatures : x.fin \in FinalizedBlocks}, b \in BOOLEAN }
================================================================================
