------------------------------ MODULE GearClient -------------------------------
(****************************************************************************)
(* How the Gear client finds blocks of an authority set (gear-rpc-client):   *)
(* any block of the set, the first block of its era, and a finality proof    *)
(* signed by the set.  Every iteration of a loop awaits the node, which goes *)
(* on finalizing blocks meanwhile; finalized blocks never change.            *)
(*                                                                           *)
(* setAt is the node's storage: the set id stored by every block.  A set     *)
(* signs the blocks after the one that stores its id first, up to the one    *)
(* that stores the next id first.                                            *)
(****************************************************************************)
EXTENDS Integers, FiniteSetsExt

CONSTANTS APPROX_SESSION_DURATION_IN_BLOCKS,
          LastBlock,   \* bound: the last block that is finalized
          LastSetId    \* bound: the last set; the first is 1

ASSUME ClientAssumption == /\ APPROX_SESSION_DURATION_IN_BLOCKS \in Nat
                           /\ LastBlock \in Nat /\ LastSetId \in Nat

VARIABLES setAt,      \* CurrentSetId in the storage of every block
          finalized,  \* the latest finalized block
          task,       \* [name, set]: what is called and its argument
          cpc,        \* where the call is
          low, high,  \* the loop's block numbers
          step,       \* step of SearchBack
          found,      \* result of search_for_authority_set_block
          result      \* [block, set]: the result of the call and who signed

clientVars == <<setAt, finalized, task, cpc, low, high, step, found, result>>

None == -1

SetHistories ==
    {f \in [0 .. LastBlock -> 1 .. LastSetId] :
        f[0] = 1 /\ \A b \in 1 .. LastBlock : f[b] \in {f[b - 1], f[b - 1] + 1}}

Tasks == [name : {"era", "session"}, set : 0 .. LastSetId]

ClientInit ==
    /\ setAt \in SetHistories
    /\ finalized \in 1 .. LastBlock
    /\ task \in Tasks
    /\ cpc = "latest" /\ low = 0 /\ high = 0 /\ step = 0
    /\ found = None /\ result = [block |-> None, set |-> None]

\* u32::saturating_sub
SaturatingSub(a, b) == IF a > b THEN a - b ELSE 0

IsEraFirst(b) == b > 0 /\ setAt[b] # setAt[b - 1]

\* signed_by_authority_set_id
SignedBy(b) == IF setAt[b - 1] # setAt[b] THEN setAt[b - 1] ELSE setAt[b]

Finalize ==
    /\ finalized < LastBlock /\ cpc # "done"
    /\ finalized' = finalized + 1
    /\ UNCHANGED <<setAt, task, cpc, low, high, step, found, result>>

--------------------------------------------------------------------------------
\* search_for_authority_set_block returns: what its caller does next.
Found(b) ==
    /\ found' = b
    /\ step' = 0
    /\ IF task.name = "era"
       THEN /\ high' = b
            /\ low' = SaturatingSub(b, APPROX_SESSION_DURATION_IN_BLOCKS)
            /\ cpc' = "era_back"
       ELSE low' = 0 /\ high' = 0 /\ cpc' = "prove"

SearchLatest ==
    /\ cpc = "latest"
    /\ IF setAt[finalized] = task.set THEN Found(finalized)
       ELSE /\ cpc' = "search_back" /\ high' = finalized
            /\ step' = APPROX_SESSION_DURATION_IN_BLOCKS
            /\ UNCHANGED <<low, found>>
    /\ UNCHANGED <<setAt, finalized, task, result>>

\* State::SearchBack.  Past the last block a larger step makes no difference.
SearchBack ==
    /\ cpc = "search_back"
    /\ LET next == SaturatingSub(high, step)
       IN CASE setAt[next] = task.set -> Found(next)
            [] setAt[next] > task.set ->
                 /\ high' = next
                 /\ step' = IF step > LastBlock THEN step ELSE step * 2
                 /\ UNCHANGED <<cpc, low, found>>
            [] OTHER -> /\ cpc' = "binary_search" /\ low' = next
                        /\ step' = 0
                        /\ UNCHANGED <<high, found>>
    /\ UNCHANGED <<setAt, finalized, task, result>>

\* Mutant of Narrowed: the halves are exchanged.
NarrowedSwapped(mid) ==
    IF setAt[mid] > task.set THEN low' = mid /\ high' = high ELSE high' = mid /\ low' = low

\* State::BinarySearch: the half that is searched next.
Narrowed(mid) ==
    IF setAt[mid] > task.set THEN high' = mid /\ low' = low ELSE low' = mid /\ high' = high

BinarySearch ==
    /\ cpc = "binary_search"
    /\ LET mid == (low + high) \div 2
       IN IF setAt[mid] = task.set THEN Found(mid)
          ELSE Narrowed(mid) /\ UNCHANGED <<cpc, step, found>>
    /\ UNCHANGED <<setAt, finalized, task, result>>

--------------------------------------------------------------------------------
\* find_era_first_block: back to a block of an earlier set.
EraBack ==
    /\ cpc = "era_back"
    /\ IF setAt[low] < task.set THEN cpc' = "era_bisect" /\ low' = low
       ELSE low' = SaturatingSub(low, APPROX_SESSION_DURATION_IN_BLOCKS) /\ cpc' = cpc
    /\ UNCHANGED <<setAt, finalized, task, high, step, found, result>>

\* Mutant of StartsEra: the block before is of the set too.
StartsEraInside(mid) == mid > 0 /\ setAt[mid - 1] = task.set

\* The parent of mid is of the set before.
StartsEra(mid) == mid > 0 /\ setAt[mid - 1] + 1 = task.set

\* find_era_first_block: the bisection.
EraBisect ==
    /\ cpc = "era_bisect"
    /\ LET mid == (high + low) \div 2
       IN IF setAt[mid] = task.set
          THEN /\ high' = mid /\ low' = low
               /\ IF StartsEra(mid)
                  THEN cpc' = "done" /\ result' = [block |-> mid, set |-> SignedBy(mid)]
                  ELSE UNCHANGED <<cpc, result>>
          ELSE low' = mid /\ UNCHANGED <<high, cpc, result>>
    /\ UNCHANGED <<setAt, finalized, task, step, found>>

\* fetch_finality_proof: grandpa_proveFinality answers with a justification
\* of a block not before the given one, by the set that signs that one; then
\* produce_finality_proof, whose own searches are for a set that exists.
ProveSession ==
    /\ cpc = "prove" /\ found > 0
    /\ \E b \in found .. finalized :
         /\ SignedBy(b) = SignedBy(found)
         /\ result' = [block |-> b, set |-> SignedBy(b)]
    /\ cpc' = "done"
    /\ UNCHANGED <<setAt, finalized, task, low, high, step, found>>

\* Block 0 has no parent to ask for its set: the call fails.
ProveFails ==
    /\ cpc = "prove" /\ found = 0
    /\ cpc' = "done"
    /\ UNCHANGED <<setAt, finalized, task, low, high, step, found, result>>

Client == SearchLatest \/ SearchBack \/ BinarySearch \/ EraBack \/ EraBisect
          \/ ProveSession \/ ProveFails

ClientNext == Finalize \/ Client

ClientSpec == ClientInit /\ [][ClientNext]_clientVars

ClientFairness == WF_clientVars(Client)

--------------------------------------------------------------------------------
(****************************************************************************)
(* Properties.                                                               *)
(****************************************************************************)
\* What a call returns is right although the searches look at a few blocks
\* only: the first block of the era, the one the previous set signs last, or
\* a proof by the asked set, unless the search stopped at the block that
\* stores the set's id first, which the previous set signs.
SearchFinds ==
    (cpc = "done" /\ result.block # None) =>
        IF task.name = "era"
        THEN /\ setAt[result.block] = task.set
             /\ result.block = Min({b \in 0 .. LastBlock : setAt[b] = task.set})
             /\ result.set = task.set - 1
        ELSE result.set = (IF IsEraFirst(found) THEN task.set - 1 ELSE task.set)

\* The search has no end for a set that is not there yet, or is before the
\* first; neither has the search for an era's first block if it is the chain's
\* first, or if the block found for the set already is the era's first.
NoEnd ==
    \/ task.set \notin setAt[0] .. setAt[finalized]
    \/ task.name = "era" /\ found # None /\ (setAt[0] = task.set \/ IsEraFirst(found))

\* Every other call comes to an end (find_era_first_block,
\* search_for_authority_set_block).
SearchEnds == cpc = "latest" ~> (cpc = "done" \/ NoEnd)
================================================================================
