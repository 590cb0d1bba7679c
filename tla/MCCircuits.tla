------------------------------ MODULE MCCircuits -------------------------------
(****************************************************************************)
(* The circuits, checked in one run: every behaviour is one of one layer,    *)
(* the others rest in their initial states.                                  *)
(****************************************************************************)
EXTENDS NonNative, EdCurve, StorageInclusion, BlockFinality

CONSTANTS h1, h2, h3, h4, h5, f1, f2, outsider

VARIABLE layer

MCBasePoint == [x |-> 4, y |-> 8]

\* A leaf with a value as long as a digest, an empty value, a hashed value, a
\* branch with a value of its own and a value that looks like a node.
MCItems == {[key |-> <<1, 2, 3, 0>>, value |-> <<5, 6, 7>>],
            [key |-> <<1, 2, 3, 1>>, value |-> <<>>],
            [key |-> <<1, 2, 0, 0>>, value |-> <<1, 2, 3, 4>>],
            [key |-> <<1, 2>>, value |-> <<9>>],
            [key |-> <<3, 0, 0, 2>>, value |-> <<7, 0, 2, 12, 8, 8, 8>>]}
MCStorages == SUBSET MCItems \ {{}}
MCAddresses == {item.key : item \in MCItems} \cup {<<3, 2, 3, 0>>}

\* Two sets with a faulty member each; f1 and f2 also put a set of their own
\* forward, and a block that names it the next set.  The outsider is in no set.
MCSets == <<<<h1, h2, f1, h3>>, <<h3, f2, h4, h5>>>>
MCOtherSets == {<<f1, f2>>}
MCFaulty == {f1, f2, outsider}
MCBlocks == {[number |-> 1, set |-> 1, next |-> MCSets[2], root |-> <<1, 2, 3, 0>>],
             [number |-> 2, set |-> 2, next |-> MCSets[2], root |-> <<0, 3, 2, 1>>]}
MCOtherBlocks == {[number |-> 2, set |-> 1, next |-> <<f1, f2>>, root |-> <<2, 2, 2, 2>>]}

Init == /\ layer \in {"gates", "nonnative", "curve", "inclusion", "finality"}
        /\ GatesInit /\ NNInit /\ CurveInit /\ InclusionInit /\ FinalityInit
        /\ layer # "nonnative" => residue = 0

Next ==
    \/ layer = "gates" /\ GatesNext /\ UNCHANGED <<layer, nnVars, multiplied, inclusion, finality>>
    \/ layer = "nonnative" /\ NNNext /\ UNCHANGED <<layer, row, multiplied, inclusion, finality>>
    \/ layer = "curve" /\ CurveNext /\ UNCHANGED <<layer, row, nnVars, inclusion, finality>>
    \/ layer = "inclusion" /\ InclusionNext /\ UNCHANGED <<layer, row, nnVars, multiplied, finality>>
    \/ layer = "finality" /\ FinalityNext /\ UNCHANGED <<layer, row, nnVars, multiplied, inclusion>>

Spec == Init /\ [][Next]_<<layer, row, nnVars, multiplied, inclusion, finality>>
================================================================================
