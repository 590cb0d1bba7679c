--------------------------- MODULE BlockFinality ---------------------------
(***************************************************************************)
(* The proof that a Gear block is final and what is built on it: the chain *)
(* of validator signatures (prover/src/block_finality), the chain of       *)
(* authority set changes (latest_validator_set), the final proof           *)
(* (final_proof) and its passage through the gnark wrapper, the relayer    *)
(* and the Relayer contract.                                               *)
(*                                                                         *)
(* A validator set is the sequence of its keys; its hash is represented by *)
(* the sequence itself (no collisions).  Sizes are counted in keys: the    *)
(* set is padded to MaxValidators keys and hashed KeysPerBlock at a time.  *)
(* The proofs are composed freely, by anybody, out of every signature that *)
(* exists; an honest key signs only what GRANDPA lets it sign.             *)
(***************************************************************************)
EXTENDS Integers, SequencesExt, Powers

CONSTANTS
  AuthoritySets,   \* from set ids to sequences of keys; the chain's history
  OtherSets,       \* other sequences of keys somebody may put forward
  Faulty,          \* keys that sign anything, in a set or outside of all
  ZeroKey,         \* the key of zero bytes, for which there is no signature
  Blocks,          \* the final blocks [number, set, next, root]
  OtherBlocks,     \* blocks that are not final, of the same shape
  Genesis,         \* the set id of GenesisConfig
  MaxValidators, KeysPerBlock,
  RootLimbs, CompressionFactor, InputBits,
  NumberBits       \* bits of a block number in the contract: 256

VARIABLE finality

Members(set) == {set[i] : i \in DOMAIN set}

\* GRANDPA's assumption: less than a third of every set is faulty.
ASSUME FaultyAssumption ==
  \A id \in DOMAIN AuthoritySets :
     /\ IsInjective(AuthoritySets[id])
     /\ 3 * Cardinality({i \in DOMAIN AuthoritySets[id] : AuthoritySets[id][i] \in Faulty})
          < Len(AuthoritySets[id])
     /\ ZeroKey \notin Members(AuthoritySets[id]) \cup Faulty

\* The storage of a final block names the set that follows the block's own.
ASSUME HistoryAssumption ==
  /\ DOMAIN AuthoritySets \subseteq Int
  /\ Genesis \in DOMAIN AuthoritySets
  /\ \A block \in Blocks :
       block.set + 1 \in DOMAIN AuthoritySets => block.next = AuthoritySets[block.set + 1]

\* A root is RootLimbs values of 32 bits and a block number one; they fill one
\* public input and a part of a second one.
ASSUME InputsAssumption ==
  /\ InputBits \in Nat \ {0} /\ NumberBits \in Nat /\ InputBits <= NumberBits
  /\ CompressionFactor \in Nat \ {0} /\ RootLimbs \in Nat
  /\ CompressionFactor <= RootLimbs /\ RootLimbs < 2 * CompressionFactor
  /\ \A block \in Blocks \cup OtherBlocks :
       /\ block.number \in 0 .. Pow(2, InputBits) - 1
       /\ block.root \in [1 .. RootLimbs -> 0 .. Pow(2, InputBits) - 1]

KnownSets == {AuthoritySets[id] : id \in DOMAIN AuthoritySets} \cup OtherSets

ASSUME SetsAssumption ==
  /\ MaxValidators \in Nat
  /\ \A set \in KnownSets : set \in Seq(Members(set))

(***************************************************************************)
(* Signatures.                                                             *)
(***************************************************************************)
\* GrandpaMessageTarget, without the round.
Votes ==
  [vote : {"prevote", "precommit"}, block : Blocks \cup OtherBlocks,
   number : {b.number : b \in Blocks \cup OtherBlocks}, setId : DOMAIN AuthoritySets]

\* The votes an honest member of the set casts: it may prevote for a block
\* that is not finalized later, but precommits only for final blocks.
Casts(key, message) ==
  /\ key \in Members(AuthoritySets[message.setId])
  /\ message.number = message.block.number
  /\ message.block.set = message.setId
  /\ message.vote = "precommit" => message.block \in Blocks

Signed(key, message) == key \in Faulty \/ (key # ZeroKey /\ Casts(key, message))

\* ValidatorSetHash::prove: the padding is zero in the blocks that are hashed,
\* the prover's choice after them.
PaddedSet(set, pad) ==
  LET hashed == KeysPerBlock * ((Len(set) + KeysPerBlock - 1) \div KeysPerBlock)
  IN [i \in 0 .. MaxValidators - 1 |->
        IF i < Len(set) THEN set[i + 1] ELSE IF i < hashed THEN ZeroKey ELSE pad]

\* What the comment on GenericBlake2Target promises: all of the padding is zero.
ZeroPadded(set, pad) ==
  \A i \in Len(set) .. MaxValidators - 1 : PaddedSet(set, pad)[i] = ZeroKey

(***************************************************************************)
(* Chains of signatures.                                                   *)
(***************************************************************************)
NoSigns == [latest |-> -1, count |-> 0]

\* Mutant of InOrder: a validator may be counted again.
InOrderOrEqual(latest, idx) == idx - latest >= 0

\* validator_idx - latest_validator_idx - 1 passes the range check.
InOrder(latest, idx) == idx - latest - 1 >= 0

\* IndexedValidatorSign and one layer of SignComposition.
Composable(set, pad, message, latest, idx) ==
  /\ idx \in 0 .. MaxValidators - 1
  /\ InOrder(latest, idx)
  /\ Signed(PaddedSet(set, pad)[idx], message)

Enough(count, size) == 3 * count - 2 * size - 1 >= 0

\* prove_initial: the first signature.  One composition is under way at a
\* time: abandoning one is the same as never having started it.
SignInitial ==
  \E set \in KnownSets, pad \in Faulty \cup {ZeroKey}, message \in Votes,
     idx \in 0 .. MaxValidators - 1 :
       /\ finality.gathered = <<>>
       /\ <<finality.signs, finality.final, finality.proof>> = <<{}, {}, {}>>
       /\ Composable(set, pad, message, NoSigns.latest, idx)
       /\ finality' = [finality EXCEPT
            !.signs = {[set |-> set, message |-> message, latest |-> idx,
                        count |-> NoSigns.count + 1, zeroPadded |-> ZeroPadded(set, pad)]}]

\* prove_recursive: the same hash, count and message; the padding of this
\* layer may differ.  zeroPadded records whether all layers had zero padding;
\* nothing in the circuits looks at it.
SignRecursive ==
  \E signs \in finality.signs, pad \in Faulty \cup {ZeroKey}, idx \in 0 .. MaxValidators - 1 :
       /\ Composable(signs.set, pad, signs.message, signs.latest, idx)
       /\ finality' = [finality EXCEPT
            !.signs = {[signs EXCEPT !.latest = idx, !.count = @ + 1,
                                     !.zeroPadded = @ /\ ZeroPadded(signs.set, pad)]}]

\* The end of ValidatorSignsChain::prove and of BlockFinality::prove.
ProveFinality ==
  \E signs \in finality.signs :
     /\ Enough(signs.count, Len(signs.set))
     /\ signs.message.vote = "precommit"
     /\ finality' = [finality EXCEPT
          !.signs = {},
          !.final = {[set |-> signs.set, message |-> signs.message,
                      zeroPadded |-> signs.zeroPadded]}]

(***************************************************************************)
(* Chains of authority set changes.                                        *)
(***************************************************************************)
\* NextValidatorSet::prove: the next set is in the storage of the final block.
NextSet(final) ==
  [id |-> final.message.setId, set |-> final.set, next |-> final.message.block.next]

\* LatestValidatorSet::prove_genesis, with any genesis.
ProveGenesis ==
  \E final \in finality.final :
     LET change == NextSet(final)
     IN finality' = [finality EXCEPT
          !.final = {},
          !.latest = {[genesisId |-> change.id, genesisSet |-> change.set,
                       id |-> change.id + 1, set |-> change.next,
                       zeroPadded |-> final.zeroPadded]}]

\* The proof is about the set that the previous one arrived at.
Continues(latest, id, set) == latest.id = id /\ latest.set = set

\* LatestValidatorSet::prove_recursive.
ProveChange ==
  \E final \in finality.final, latest \in finality.latest :
     LET change == NextSet(final)
     IN /\ Continues(latest, change.id, change.set)
        /\ finality' = [finality EXCEPT
             !.final = {},
             !.latest = {[latest EXCEPT !.id = change.id + 1, !.set = change.next,
                                        !.zeroPadded = @ /\ final.zeroPadded]}]

(***************************************************************************)
(* The final proof and its public inputs.                                  *)
(***************************************************************************)
InputBase == Pow(2, InputBits)

\* The number that limbs make up, the highest first.
BigEndian(limbs) ==
  LET value[i \in 0 .. Len(limbs)] == IF i = 0 THEN 0 ELSE value[i - 1] * InputBase + limbs[i]
  IN value[Len(limbs)]

\* compressPublicInputs: CompressionFactor inputs make one, the last is padded.
Compress(inputs) ==
  [i \in 1 .. (Len(inputs) + CompressionFactor - 1) \div CompressionFactor |->
     BigEndian([j \in 1 .. CompressionFactor |->
                  LET index == (i - 1) * CompressionFactor + j
                  IN IF index <= Len(inputs) THEN inputs[index] ELSE 0])]

\* pad_pi: the limbs of a public input, the highest first.
InputLimbs(input) ==
  [j \in 1 .. CompressionFactor |->
     (input \div Pow(InputBase, CompressionFactor - j)) % InputBase]

\* The limbs of the root that the second public input holds.
Rest == RootLimbs - CompressionFactor

\* FinalProof::from_proof_and_public_inputs.
FromPublicInputs(inputs) ==
  LET first == InputLimbs(inputs[1])
      second == InputLimbs(inputs[2])
  IN [root |-> first \o SubSeq(second, 1, Rest), number |-> second[Rest + 1]]

\* Relayer._buildPublicInputs.
BuildPublicInputs(number, root) ==
  LET value == BigEndian(root)
  IN <<(value \div Pow(InputBase, Rest)) % Pow(InputBase, CompressionFactor),
       (number % InputBase) * Pow(InputBase, CompressionFactor - Rest - 1)
         + (value % Pow(InputBase, Rest)) * Pow(InputBase, CompressionFactor - Rest)>>

\* The gnark circuit: its public inputs are those of the proof it verifies,
\* compressed; prove computes them the same way for the witness.
Wrapped(inputs) == Compress(inputs)

\* MessageSent::prove: the root is in the storage of the final block.
MessageSent(final) ==
  [id |-> final.message.setId, set |-> final.set,
   root |-> final.message.block.root, number |-> final.message.number]

\* GenesisConfig, a constant of the circuit.
FromGenesis(latest) ==
  latest.genesisId = Genesis /\ latest.genesisSet = AuthoritySets[Genesis]

\* FinalProof::prove, then the wrapper's proof.
ProveMessageSent ==
  \E final \in finality.final, latest \in finality.latest :
     LET sent == MessageSent(final) IN
     /\ Continues(latest, sent.id, sent.set)
     /\ FromGenesis(latest)
     /\ finality' = [finality EXCEPT
          !.final = {},
          !.proof = {[inputs |-> Wrapped(Append(sent.root, sent.number)),
                      zeroPadded |-> final.zeroPadded /\ latest.zeroPadded]}]

(***************************************************************************)
(* BlockFinality::prove, run on pre-commits gathered from a node.          *)
(***************************************************************************)
\* The free composition of proofs and this prover are explored apart.
Composing == <<finality.signs, finality.final, finality.latest, finality.proof>> # <<{}, {}, {}, {}>>

HonestMessage(block) ==
  [vote |-> "precommit", block |-> block, number |-> block.number, setId |-> block.set]

\* One more pre-commit of a justification: keys outside of the set may be
\* among them, and a second vote of a faulty member.
Gather ==
  \E block \in Blocks, key \in Faulty \cup Members(AuthoritySets[Genesis]) :
     /\ ~Composing
     /\ Len(finality.gathered) < MaxValidators
     /\ finality.outcome = "none"
     /\ block.set = Genesis
     /\ Signed(key, HonestMessage(block))
     /\ key \in Members(finality.gathered) => key \in Faulty
     /\ finality' = [finality EXCEPT !.gathered = Append(@, key)]

Position(set, key) == CHOOSE j \in DOMAIN set : set[j] = key

\* The element of a set of numbers with n - 1 smaller ones.
Nth(numbers, n) ==
  CHOOSE i \in numbers : Cardinality({k \in numbers : k < i}) = n - 1

\* processed_validator_count: the votes that are kept.
Wanted(set) == (2 * Len(set)) \div 3 + 1

\* filter_map(position) and take(processed_validator_count).
Processed(set, preCommits) ==
  LET found == {i \in DOMAIN preCommits : preCommits[i] \in Members(set)}
      count == IF Cardinality(found) < Wanted(set) THEN Cardinality(found) ELSE Wanted(set)
  IN [n \in 1 .. count |->
        Position(set, preCommits[Nth(found, n)]) - 1]

\* Mutant of Arranged: the pre-commits in the order of the justification.
ArrangedAsGiven(indices) == indices

\* sort_by(validator_idx), which is stable.
SortedBefore(indices, k, i) == indices[k] < indices[i] \/ (indices[k] = indices[i] /\ k < i)

Arranged(indices) ==
  [n \in DOMAIN indices |->
     indices[CHOOSE i \in DOMAIN indices :
               Cardinality({k \in DOMAIN indices : SortedBefore(indices, k, i)}) = n - 1]]

\* The layers of SignComposition over the sorted pre-commits.
ChainAccepts(indices) ==
  \A i \in DOMAIN indices :
     InOrder(IF i = 1 THEN NoSigns.latest ELSE indices[i - 1], indices[i])

BlockFinalityProves(set, preCommits) ==
  LET processed == Processed(set, preCommits)
  IN /\ Len(processed) = Wanted(set)
     /\ ChainAccepts(Arranged(processed))
     /\ Enough(Len(processed), Len(set))

RunProver ==
  /\ finality.outcome = "none"
  /\ finality.gathered # <<>>
  /\ finality' = [finality EXCEPT
       !.outcome = IF BlockFinalityProves(AuthoritySets[Genesis], finality.gathered) THEN "proof" ELSE "panic"]

(***************************************************************************)
(* Specification.                                                          *)
(***************************************************************************)
FinalityInit ==
  finality = [signs |-> {}, final |-> {}, latest |-> {}, proof |-> {},
              gathered |-> <<>>, outcome |-> "none"]

FinalityNext ==
  \/ SignInitial
  \/ SignRecursive
  \/ ProveFinality
  \/ ProveGenesis
  \/ ProveChange
  \/ ProveMessageSent
  \/ Gather
  \/ RunProver

FinalitySpec == FinalityInit /\ [][FinalityNext]_finality

(***************************************************************************)
(* Properties.                                                             *)
(***************************************************************************)
\* What the Relayer contract can be made to store with a proof: every uint256
\* and root whose public inputs are the proof's.
ContractNumbers == 0 .. Pow(2, NumberBits) - 1

Storable(proof) ==
  {pair \in ContractNumbers \X [1 .. RootLimbs -> 0 .. InputBase - 1] :
     BuildPublicInputs(pair[1], pair[2]) = proof.inputs}

\* A final proof lets the contract store exactly one root, the one that the
\* relayer reads back from the public inputs, under the numbers that agree
\* with the one the relayer reads in the bits that a public input keeps, and
\* under all of them.  The root is that of a final block with the number that
\* the relayer reads, provided that the padding of the validator sets was
\* zero: no choice of signatures, sets, genesis or order of proofs leads
\* elsewhere (FinalProof::prove, Relayer.sol submitMerkleRoot).
FinalProofGenuine ==
  \A proof \in finality.proof :
     LET parsed == FromPublicInputs(proof.inputs)
     IN /\ Storable(proof) = {n \in ContractNumbers : n % InputBase = parsed.number}
                                 \X {parsed.root}
        /\ proof.zeroPadded =>
             \E block \in Blocks : block.number = parsed.number /\ block.root = parsed.root

\* A final proof whose validator sets were padded with zero has the public
\* inputs of a final block: no padding is counted as a validator, starting
\* from the genesis set every set of the chain is the one of the chain's
\* history, and more than two thirds of it contain an honest member that
\* precommitted (FinalProof::prove, LatestValidatorSet::prove_recursive,
\* ValidatorSignsChain::prove).
ProofsAreOfFinalBlocks ==
  \A proof \in finality.proof : proof.zeroPadded =>
     \E block \in Blocks : proof.inputs = Wrapped(Append(block.root, block.number))

\* "It's guaranteed that padding of data will be zeroed and asserted to be
\* equal 0" (prover/src/common/generic_blake2.rs:38), read for the validator
\* sets out of which signatures are counted.  The assertion ends with the last
\* block that is hashed.
PaddingIsZero == \A signs \in finality.signs : signs.zeroPadded

\* The prover succeeds on every justification in which more than two thirds
\* of the set vote once, whatever the order of the pre-commits, and never
\* without the votes of more than two thirds (BlockFinality::prove).
DistinctPreCommitsSuffice ==
  LET set == AuthoritySets[Genesis]
      voters == Members(set) \cap Members(finality.gathered)
      distinct == \A i, j \in DOMAIN finality.gathered :
                     finality.gathered[i] = finality.gathered[j] => i = j
      enough == 3 * Cardinality(voters) > 2 * Len(set)
  IN /\ finality.outcome = "proof" => enough
     /\ (finality.outcome = "panic" /\ distinct) => ~enough

=============================================================================
