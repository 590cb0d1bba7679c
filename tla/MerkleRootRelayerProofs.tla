------------------------ MODULE MerkleRootRelayerProofs ------------------------
(****************************************************************************)
(* For every chain, argument and number of retries: the relayer loses no era *)
(* that it counts as sealed, seals only finalized eras whose set is proven,  *)
(* and its proof storage is a chain from the genesis set that never passes   *)
(* the finalized head.                                                       *)
(*                                                                           *)
(* The values that the loop read before an await stay valid while the chains *)
(* advance (SeenInv), and a transaction that Ethereum reports as finalized   *)
(* has put its root there (TxInv).                                           *)
(****************************************************************************)
EXTENDS MerkleRootRelayer, TLAPS

\* The values that the current step read still hold of the chains.
SeenInv ==
    /\ pc = "prove_sets" => proven # {} /\ LatestProven < seen /\ seen <= SetId[head]
    /\ pc = "sealing" => seen <= SetId[head]
    /\ pc = "prove" => seen \in 1..head

\* A finalized transaction has stored its root.
TxInv ==
    /\ \A e \in Eras : sealed[e] = "finalized" => SealBlock(e) \in relayed
    /\ submitted # None /\ submitted.tx = "finalized" => submitted.block \in relayed

\* The inductive invariant.
IInv ==
    /\ TypeOK
    /\ SeenInv
    /\ TxInv
    /\ SealedErasCovered
    /\ ProofsFormChain
    /\ SealsEndedEras
    /\ FinalizedRootIsRelayed

--------------------------------------------------------------------------------
(* The chain of blocks and the chain of proofs *)

\* The era after one that ends within the bound has a first block.
LEMMA SealBlockType ==
    ASSUME NEW e \in Eras
    PROVE  SealBlock(e) \in Blocks \ {0} /\ SetId[SealBlock(e)] = e + 1
<1>1. e + 1 \in 1..SetId[LastBlock]
  BY ChainAssumption DEF Eras, Blocks
<1>2. \E b \in Blocks \ {0} : SetId[b] = e + 1 /\ SetId[b - 1] + 1 = e + 1
  BY <1>1, ChainAssumption
<1>3. QED
  BY <1>2 DEF SealBlock, EraFirstBlock

\* A parent block is a block, and its set is not later.
LEMMA SignedByType ==
    ASSUME NEW b \in Blocks \ {0}
    PROVE  SignedBy(b) \in Nat /\ SignedBy(b) <= SetId[b]
<1>1. b - 1 \in Blocks /\ b - 1 <= b
  BY ChainAssumption DEF Blocks
<1>2. QED
  BY <1>1, ChainAssumption DEF SignedBy

\* An era that precedes a set in the storage of the head has ended before the head.
LEMMA SealBlockFinalized ==
    ASSUME NEW h \in Blocks, NEW e \in Nat, e + 1 <= SetId[h]
    PROVE  e \in Eras /\ SealBlock(e) \in Blocks \ {0} /\ SealBlock(e) <= h
<1>1. LastBlock \in Blocks /\ h <= LastBlock /\ SetId[LastBlock] \in Nat /\ SetId[h] \in Nat
  BY ChainAssumption DEF Blocks
<1>2. SetId[h] <= SetId[LastBlock]
  BY <1>1, ChainAssumption
<1>3. e \in Eras
  BY <1>1, <1>2 DEF Eras
<1>4. SealBlock(e) \in Blocks \ {0} /\ SetId[SealBlock(e)] = e + 1
  BY <1>3, SealBlockType
<1>5. \E b \in Blocks \ {0} : SetId[b] = e + 1 /\ SetId[b - 1] + 1 = e + 1
  <2>1. e + 1 \in 1..SetId[LastBlock]
    BY <1>1, <1>2
  <2>2. QED
    BY <2>1, ChainAssumption
<1>6. SetId[SealBlock(e) - 1] + 1 = e + 1
  BY <1>5 DEF SealBlock, EraFirstBlock
<1>7. SealBlock(e) <= h
  <2>1. SUFFICES ASSUME h < SealBlock(e) PROVE FALSE
    BY <1>4, <1>1 DEF Blocks
  <2>2. SealBlock(e) - 1 \in Blocks /\ h <= SealBlock(e) - 1
    <3>1. LastBlock \in Nat
      BY ChainAssumption
    <3>2. QED
      BY <1>4, <2>1, <3>1 DEF Blocks
  <2>3. SetId[h] <= SetId[SealBlock(e) - 1] /\ SetId[SealBlock(e) - 1] \in Nat
    BY <2>2, ChainAssumption
  <2>4. QED
    BY <2>3, <1>6, <1>1
<1>8. QED
  BY <1>3, <1>4, <1>7

\* The genesis set is a natural number.
LEMMA GenesisType == Genesis \in Nat
BY GenesisAssumption

\* The latest set of a chain of proofs is its last one.
LEMMA ChainMax ==
    ASSUME NEW k \in Nat, k >= Genesis + 1
    PROVE  Max(Genesis + 1 .. k) = k
<1>1. k \in Genesis + 1 .. k /\ \A y \in Genesis + 1 .. k : k >= y
  BY GenesisType
<1>2. \A x \in Genesis + 1 .. k : (\A y \in Genesis + 1 .. k : x >= y) => x = k
  BY <1>1, GenesisType
<1>3. QED
  BY <1>1, <1>2 DEF Max

\* The counter of iterations stays within its bound.
LEMMA AttemptsStep ==
    ASSUME attempts \in 1..MAX_RETRIES
    PROVE  Min({attempts + 1, MAX_RETRIES}) \in 1..MAX_RETRIES
<1>1. CASE attempts + 1 <= MAX_RETRIES
  <2>1. \A x \in {attempts + 1, MAX_RETRIES} :
            (\A y \in {attempts + 1, MAX_RETRIES} : x <= y) => x \in 1..MAX_RETRIES
    BY <1>1, ArgsAssumption
  <2>2. \A y \in {attempts + 1, MAX_RETRIES} : attempts + 1 <= y
    BY <1>1, ArgsAssumption
  <2>3. QED
    BY <2>1, <2>2 DEF Min
<1>2. CASE ~(attempts + 1 <= MAX_RETRIES)
  <2>1. MAX_RETRIES <= attempts + 1 /\ MAX_RETRIES \in Nat
    BY <1>2, ArgsAssumption
  <2>2. \A x \in {attempts + 1, MAX_RETRIES} :
            (\A y \in {attempts + 1, MAX_RETRIES} : x <= y) => x = MAX_RETRIES
    BY <2>1, ArgsAssumption
  <2>3. QED
    BY <2>1, <2>2, ArgsAssumption DEF Min
<1>3. QED
  BY <1>1, <1>2

\* Eras::new starts from a natural number.
LEMMA LastSealedType ==
    ASSUME head \in Blocks, NEW arg \in StartArgs
    PROVE  LastSealed(arg) \in Nat
<1>1. SetId[head] \in Nat
  BY ChainAssumption
<1>2. Max({SetId[head], 2}) \in {SetId[head], 2} /\ Max({SetId[head], 2}) >= 2
  <2>1. \E x \in {SetId[head], 2} : \A y \in {SetId[head], 2} : x >= y
    BY <1>1
  <2>2. QED
    BY <2>1, <1>1 DEF Max
<1>3. QED
  BY <1>1, <1>2, ArgsAssumption DEF LastSealed

\* What a step that leaves the eras alone keeps of them.
LEMMA ErasKept ==
    ASSUME IInv, UNCHANGED <<last_sealed, sealed, base>>, relayed \subseteq relayed',
           proven \subseteq proven', head' \in Nat, head <= head'
    PROVE  /\ SealedErasCovered' /\ SealsEndedEras'
           /\ \A e \in Eras : sealed'[e] = "finalized" => SealBlock(e) \in relayed'
<1>1. \A e \in Eras : SealBlock(e) \in Nat
  BY SealBlockType DEF Blocks
<1>2. SealsEndedEras'
  <2>1. ASSUME NEW e \in Eras, sealed'[e] # "none"
        PROVE  e \in proven' /\ SealBlock(e) <= head'
    <3>1. e \in proven /\ SealBlock(e) <= head
      BY <2>1 DEF IInv, SealsEndedEras
    <3>2. head \in Nat
      BY DEF IInv, TypeOK, Blocks
    <3>3. QED
      BY <1>1, <3>1, <3>2
  <2>2. QED
    BY <2>1 DEF SealsEndedEras
<1>3. QED
  BY <1>1, <1>2 DEF IInv, SealedErasCovered, Delivered, TxInv, SealBlock, EraFirstBlock

--------------------------------------------------------------------------------
(* The main loop *)

\* A step that leaves chains, proofs and eras alone only has to keep what it read
\* and the submitted root right.
LEMMA LoopStep ==
    ASSUME IInv, UNCHANGED <<chains, proofs, eras>>,
           pc' \in Steps \cup {"exited"}, seen' \in Nat, attempts' \in 1..MAX_RETRIES,
           SeenInv',
           \/ UNCHANGED submitted
           \/ /\ submitted' \in Submitted
              /\ submitted'.tx = "finalized" \/ submitted'.finalized =>
                     submitted'.block \in relayed
    PROVE  IInv'
<1> USE DEF chains, proofs, eras
<1>1. TypeOK'
  BY DEF IInv, TypeOK, Blocks, Eras
<1>2. SealedErasCovered' /\ SealsEndedEras' /\ TxInv'
  <2>1. head' \in Nat /\ head <= head'
    BY DEF IInv, TypeOK, Blocks
  <2>2. /\ SealedErasCovered' /\ SealsEndedEras'
        /\ \A e \in Eras : sealed'[e] = "finalized" => SealBlock(e) \in relayed'
    BY <2>1, ErasKept
  <2>3. submitted' # None /\ submitted'.tx = "finalized" => submitted'.block \in relayed'
    BY DEF IInv, TxInv
  <2>4. QED
    BY <2>2, <2>3 DEF TxInv, SealBlock, EraFirstBlock
<1>3. ProofsFormChain' /\ FinalizedRootIsRelayed'
  BY DEF IInv, ProofsFormChain, FinalizedRootIsRelayed
<1>4. QED
  BY <1>1, <1>2, <1>3 DEF IInv

\* The steps that only move on.
LEMMA MoveStep ==
    ASSUME IInv,
           InSync \/ StartProving \/ TrySeal \/ Sealed \/ ErasProcessed \/ SkipRoot
                  \/ StartRoot \/ MainLoopError \/ Crash
    PROVE  IInv'
<1>1. /\ UNCHANGED <<chains, proofs, eras, submitted>>
      /\ pc' \in Steps \cup {"exited"}
  BY DEF InSync, StartProving, TrySeal, Sealed, ErasProcessed, SkipRoot, StartRoot,
         MainLoopError, RetryOrExit, Crash, Steps
<1>2. /\ head \in Blocks \ {0} /\ head \in Nat /\ head' = head /\ proven' = proven
      /\ seen \in Nat /\ attempts \in 1..MAX_RETRIES
  BY <1>1 DEF IInv, TypeOK, Blocks, chains, proofs
<1>3. /\ SetId[head] \in Nat
      /\ SetId[LastBlock] \in Nat
      /\ SignedBy(head) \in Nat
      /\ SignedBy(head) <= SetId[head]
  BY <1>2, ChainAssumption, SignedByType DEF Blocks
<1>4. attempts' \in 1..MAX_RETRIES
  BY <1>2, AttemptsStep DEF InSync, StartProving, TrySeal, Sealed, ErasProcessed, SkipRoot,
         StartRoot, MainLoopError, RetryOrExit, Crash
<1>5. seen' \in Nat
  BY <1>2, <1>3 DEF InSync, StartProving, TrySeal, Sealed, ErasProcessed, SkipRoot,
         StartRoot, MainLoopError, RetryOrExit, Crash
<1>6. SeenInv'
  <2>1. CASE StartProving
    <3>1. LatestProven' = LatestProven
      BY <1>2 DEF LatestProven
    <3>2. proven' # {} /\ LatestProven' < seen' /\ seen' = SetId[head] /\ pc' = "prove_sets"
      BY <2>1, <1>2, <3>1 DEF StartProving
    <3>3. seen' <= SetId[head']
      BY <3>2, <1>2, <1>3
    <3>4. QED
      BY <3>2, <3>3 DEF SeenInv
  <2>2. CASE TrySeal
    BY <2>2, <1>2, <1>3 DEF TrySeal, SeenInv
  <2>3. CASE StartRoot
    BY <2>3, <1>2 DEF StartRoot, SeenInv, Blocks
  <2>4. CASE InSync \/ Sealed \/ ErasProcessed \/ SkipRoot \/ MainLoopError \/ Crash
    <3>1. pc' \notin {"prove_sets", "sealing", "prove"}
      BY <2>4 DEF InSync, Sealed, ErasProcessed, SkipRoot, MainLoopError, RetryOrExit, Crash
    <3>2. QED
      BY <3>1 DEF SeenInv
  <2>5. QED
    BY <2>1, <2>2, <2>3, <2>4
<1>7. QED
  BY <1>1, <1>4, <1>5, <1>6, LoopStep

\* A root is submitted for a finalized block of the session that was read.
LEMMA SubmitRootStep ==
    ASSUME IInv, SubmitRoot
    PROVE  IInv'
<1>1. PICK b \in FinalityBlocks(seen) :
          submitted' = [block |-> b, tx |-> "pending", finalized |-> FALSE]
  BY DEF SubmitRoot
<1>2. b \in Blocks
  <2>1. seen \in 1..head /\ head \in Blocks /\ LastBlock \in Nat
    BY ChainAssumption DEF SubmitRoot, IInv, SeenInv, TypeOK
  <2>2. QED
    BY <1>1, <2>1 DEF FinalityBlocks, Blocks
<1>3. submitted' \in Submitted
  BY <1>1, <1>2 DEF Submitted, TxStatus
<1>4. submitted'.tx = "pending" /\ submitted'.finalized = FALSE
  BY <1>1
<1>5. /\ UNCHANGED <<chains, proofs, eras, seen, attempts>>
      /\ pc' = "finalize_root"
  BY DEF SubmitRoot
<1>6. seen' \in Nat /\ attempts' \in 1..MAX_RETRIES
  BY <1>5 DEF IInv, TypeOK
<1>7. SeenInv'
  BY <1>5 DEF SeenInv
<1>8. QED
  BY <1>3, <1>4, <1>5, <1>6, <1>7, LoopStep DEF Steps

\* The submitted root counts as finalized only when it is relayed.
LEMMA TryFinalizeRootStep ==
    ASSUME IInv, TryFinalizeRoot
    PROVE  IInv'
<1>1. /\ UNCHANGED <<chains, proofs, eras, seen>>
      /\ pc' = "sync"
      /\ submitted' = AfterFinalizeRoot
      /\ attempts' = Min({attempts + 1, MAX_RETRIES})
  BY DEF TryFinalizeRoot
<1>2. seen' \in Nat /\ attempts' \in 1..MAX_RETRIES
  BY <1>1, AttemptsStep DEF IInv, TypeOK
<1>3. SeenInv'
  BY <1>1 DEF SeenInv
<1>4. \/ UNCHANGED submitted
      \/ /\ submitted' \in Submitted
         /\ submitted'.tx = "finalized" \/ submitted'.finalized =>
                submitted'.block \in relayed
  <2>1. CASE submitted = None \/ submitted.finalized
    BY <1>1, <2>1 DEF AfterFinalizeRoot
  <2>2. CASE submitted # None /\ ~submitted.finalized
    <3>1. submitted \in Submitted /\ submitted.tx \in {"finalized", "pending", "failed"}
      BY <2>2 DEF IInv, TypeOK, Submitted, TxStatus, TryFinalizeRoot
    <3>2. CASE submitted.tx = "pending"
      BY <1>1, <2>2, <3>2 DEF AfterFinalizeRoot
    <3>3. CASE submitted.tx = "finalized"
      <4>1. submitted' = [submitted EXCEPT !.finalized = TRUE]
        BY <1>1, <2>2, <3>3 DEF AfterFinalizeRoot
      <4>2. submitted.block \in relayed
        BY <2>2, <3>3 DEF IInv, TxInv
      <4>3. QED
        BY <3>1, <4>1, <4>2 DEF Submitted
    <3>4. CASE submitted.tx = "failed"
      <4>1. CASE submitted.block \in relayed
        <5>1. submitted' = [submitted EXCEPT !.finalized = TRUE]
          BY <1>1, <2>2, <3>4, <4>1 DEF AfterFinalizeRoot
        <5>2. QED
          BY <3>1, <4>1, <5>1 DEF Submitted
      <4>2. CASE submitted.block \notin relayed
        <5>1. submitted' = [submitted EXCEPT !.tx = "pending"]
          BY <1>1, <2>2, <3>4, <4>2 DEF AfterFinalizeRoot
        <5>2. QED
          BY <2>2, <3>1, <5>1 DEF Submitted, TxStatus
      <4>3. QED
        BY <4>1, <4>2
    <3>5. QED
      BY <3>1, <3>2, <3>3, <3>4
  <2>3. QED
    BY <2>1, <2>2
<1>5. QED
  BY <1>1, <1>2, <1>3, <1>4, LoopStep DEF Steps

--------------------------------------------------------------------------------
(* The proof storage *)

\* The storage before a set is proven, and after it.
LEMMA UpdatedIsChain ==
    ASSUME IInv, pc = "prove_sets"
    PROVE  \E k \in Genesis + 1 .. SetId[head] :
               /\ proven = Genesis + 1 .. k
               /\ LatestProven = k
               /\ k + 1 \in Genesis + 1 .. SetId[head]
               /\ Updated = Genesis + 1 .. k + 1
<1>1. SetId[head] \in Nat /\ seen \in Nat
  BY ChainAssumption DEF IInv, TypeOK
<1>2. PICK k \in Genesis + 1 .. SetId[head] : proven = Genesis + 1 .. k
  BY DEF IInv, ProofsFormChain, SeenInv
<1>3. k \in Nat /\ k >= Genesis + 1
  BY <1>1, <1>2, GenesisType
<1>4. LatestProven = k
  BY <1>2, <1>3, ChainMax DEF LatestProven
<1>5. k + 1 \in Genesis + 1 .. SetId[head]
  BY <1>1, <1>3, <1>4, GenesisType DEF IInv, SeenInv
<1>6. Updated = Genesis + 1 .. k + 1
  BY <1>2, <1>3, <1>4, GenesisType DEF Updated
<1>7. QED
  BY <1>2, <1>4, <1>5, <1>6

\* A step that only adds proofs keeps everything that is not about the proofs.
LEMMA ProofStep ==
    ASSUME IInv, UNCHANGED <<chains, seen, eras, submitted>>,
           pc' \in Steps \cup {"exited"}, attempts' \in 1..MAX_RETRIES,
           proven \subseteq proven', ProofsFormChain', SeenInv'
    PROVE  IInv'
<1> USE DEF chains, eras
<1>1. TypeOK'
  <2>1. SetId[head] \in Nat /\ head \in Blocks
    BY ChainAssumption DEF IInv, TypeOK
  <2>2. proven' \subseteq Nat /\ saved' \subseteq Nat
    BY <2>1, GenesisType DEF ProofsFormChain
  <2>3. QED
    BY <2>2 DEF IInv, TypeOK, Blocks, Eras
<1>2. SealedErasCovered' /\ SealsEndedEras' /\ TxInv'
  <2>1. head' \in Nat /\ head <= head'
    BY DEF IInv, TypeOK, Blocks
  <2>2. /\ SealedErasCovered' /\ SealsEndedEras'
        /\ \A e \in Eras : sealed'[e] = "finalized" => SealBlock(e) \in relayed'
    BY <2>1, ErasKept
  <2>3. QED
    BY <2>2 DEF IInv, TxInv, SealBlock, EraFirstBlock
<1>3. FinalizedRootIsRelayed'
  BY DEF IInv, FinalizedRootIsRelayed
<1>4. QED
  BY <1>1, <1>2, <1>3 DEF IInv

LEMMA ProveGenesisStep ==
    ASSUME IInv, ProveGenesis
    PROVE  IInv'
<1>1. /\ UNCHANGED <<chains, pc, seen, attempts, eras, submitted>>
      /\ proven = {} /\ pc = "sync" /\ SetId[head] > Genesis
      /\ proven' = {Genesis + 1} /\ saved' = {Genesis + 1} /\ head' = head
  BY DEF ProveGenesis, chains
<1>2. SetId[head] \in Nat
  BY ChainAssumption DEF IInv, TypeOK
<1>3. Genesis + 1 \in Genesis + 1 .. SetId[head] /\ {Genesis + 1} = Genesis + 1 .. Genesis + 1
  BY <1>1, <1>2, GenesisType
<1>4. ProofsFormChain'
  BY <1>1, <1>3 DEF ProofsFormChain
<1>5. SeenInv'
  BY <1>1 DEF SeenInv
<1>6. pc' \in Steps \cup {"exited"} /\ attempts' \in 1..MAX_RETRIES
  BY <1>1 DEF IInv, TypeOK
<1>7. QED
  BY <1>1, <1>4, <1>5, <1>6, ProofStep

\* A chain of proofs that ends at set n or before.
Chain(S, n) == S = {} \/ \E i \in Genesis + 1 .. n : S = Genesis + 1 .. i

\* A chain to which the first proofs of another chain are added is a chain.
LEMMA PrefixSaved ==
    ASSUME NEW n \in Nat, NEW j \in Genesis + 1 .. n, NEW S, Chain(S, n),
           NEW k \in Genesis + 1 .. j
    PROVE  Chain(S \cup {p \in Genesis + 1 .. j : p < k}, n)
<1> DEFINE T == S \cup {p \in Genesis + 1 .. j : p < k}
<1>1. {p \in Genesis + 1 .. j : p < k} = Genesis + 1 .. k - 1
  BY GenesisType
<1>2. k \in Nat /\ k >= Genesis + 1 /\ k <= n
  BY GenesisType
<1>3. CASE S = {}
  <2>1. T = Genesis + 1 .. k - 1
    BY <1>1, <1>3
  <2>2. k = Genesis + 1 => T = {}
    BY <2>1, GenesisType
  <2>3. k # Genesis + 1 => k - 1 \in Genesis + 1 .. n
    BY <1>2, GenesisType
  <2>4. T = {} \/ \E i \in Genesis + 1 .. n : T = Genesis + 1 .. i
    BY <2>1, <2>2, <2>3
  <2>5. QED
    BY <2>4 DEF Chain
<1>4. CASE \E i \in Genesis + 1 .. n : S = Genesis + 1 .. i
  <2>1. PICK i \in Genesis + 1 .. n : S = Genesis + 1 .. i
    BY <1>4
  <2>2. i >= k - 1 => T = Genesis + 1 .. i
    BY <1>1, <1>2, <2>1, GenesisType
  <2>3. i < k - 1 => T = Genesis + 1 .. k - 1 /\ k - 1 \in Genesis + 1 .. n
    BY <1>1, <1>2, <2>1, GenesisType
  <2>4. T = {} \/ \E l \in Genesis + 1 .. n : T = Genesis + 1 .. l
    BY <1>2, <2>1, <2>2, <2>3, GenesisType
  <2>5. QED
    BY <2>4 DEF Chain
<1>5. QED
  BY <1>3, <1>4 DEF Chain

LEMMA ProveSetStep ==
    ASSUME IInv, ProveValidatorSetChange \/ SaveError
    PROVE  IInv'
<1>1. /\ UNCHANGED <<chains, seen, eras, submitted>>
      /\ pc = "prove_sets" /\ head' = head /\ seen' = seen
      /\ proven' = Updated
      /\ \/ saved' = Updated
         \/ \E k \in Updated : saved' = saved \cup {p \in Updated : p < k}
  BY DEF ProveValidatorSetChange, SaveError, RetryOrExit, chains
<1>2. PICK k \in Genesis + 1 .. SetId[head] :
          /\ proven = Genesis + 1 .. k
          /\ LatestProven = k
          /\ k + 1 \in Genesis + 1 .. SetId[head]
          /\ Updated = Genesis + 1 .. k + 1
  BY <1>1, UpdatedIsChain
<1>3. /\ SetId[head] \in Nat /\ k \in Nat /\ k >= Genesis + 1
      /\ seen \in Nat /\ k < seen /\ seen <= SetId[head]
  <2>1. SetId[head] \in Nat /\ seen \in Nat
    BY ChainAssumption DEF IInv, TypeOK
  <2>2. QED
    BY <1>1, <1>2, <2>1, GenesisType DEF IInv, SeenInv
<1>4. ProofsFormChain'
  <2>1. Chain(saved, SetId[head])
    BY DEF IInv, ProofsFormChain, Chain
  <2>2. Chain(saved', SetId[head])
    <3>1. CASE saved' = Updated
      BY <3>1, <1>2 DEF Chain
    <3>2. CASE \E m \in Updated : saved' = saved \cup {p \in Updated : p < m}
      <4>1. PICK m \in Genesis + 1 .. k + 1 :
                saved' = saved \cup {p \in Genesis + 1 .. k + 1 : p < m}
        BY <3>2, <1>2
      <4>2. Chain(saved \cup {p \in Genesis + 1 .. k + 1 : p < m}, SetId[head])
        BY <2>1, <1>2, <1>3, PrefixSaved
      <4>3. QED
        BY <4>1, <4>2
    <3>3. QED
      BY <1>1, <3>1, <3>2
  <2>3. QED
    BY <1>1, <1>2, <2>2 DEF ProofsFormChain, Chain
<1>5. SeenInv'
  <2>1. CASE pc' = "prove_sets"
    <3>1. k + 1 # seen
      BY <2>1, <1>2 DEF ProveValidatorSetChange, SaveError, RetryOrExit
    <3>2. proven' = Genesis + 1 .. k + 1 /\ proven' # {}
      BY <1>1, <1>2, <1>3, GenesisType
    <3>3. Max(proven') = k + 1
      BY <3>2, <1>3, ChainMax, GenesisType
    <3>4. LatestProven' = k + 1
      BY <3>3 DEF LatestProven
    <3>5. LatestProven' < seen' /\ seen' <= SetId[head']
      BY <1>1, <1>3, <3>1, <3>4
    <3>6. QED
      BY <2>1, <3>2, <3>5 DEF SeenInv
  <2>2. CASE pc' # "prove_sets"
    <3>1. pc' \notin {"sealing", "prove"}
      BY <2>2 DEF ProveValidatorSetChange, SaveError, RetryOrExit
    <3>2. QED
      BY <2>2, <3>1 DEF SeenInv
  <2>3. QED
    BY <2>1, <2>2
<1>6. pc' \in Steps \cup {"exited"} /\ attempts' \in 1..MAX_RETRIES
  <2>1. attempts \in 1..MAX_RETRIES
    BY DEF IInv, TypeOK
  <2>2. QED
    BY <2>1, AttemptsStep DEF ProveValidatorSetChange, SaveError, RetryOrExit, Steps
<1>7. proven \subseteq proven'
  BY <1>1, <1>2, <1>3, GenesisType
<1>8. QED
  BY <1>1, <1>4, <1>5, <1>6, <1>7, ProofStep

--------------------------------------------------------------------------------
(* The eras *)

\* A step of Eras::process leaves everything else alone.
LEMMA EraStep ==
    ASSUME IInv, UNCHANGED <<chains, proofs, pc, attempts, submitted, base>>,
           last_sealed' \in Nat, seen' \in Nat, sealed' \in [Eras -> EraStatus],
           SeenInv', SealedErasCovered', SealsEndedEras',
           \A e \in Eras : sealed'[e] = "finalized" => SealBlock(e) \in relayed
    PROVE  IInv'
<1> USE DEF chains, proofs
<1>1. TypeOK'
  BY DEF IInv, TypeOK, Blocks, Eras
<1>2. TxInv'
  BY DEF IInv, TxInv, SealBlock, EraFirstBlock
<1>3. ProofsFormChain' /\ FinalizedRootIsRelayed'
  BY DEF IInv, ProofsFormChain, FinalizedRootIsRelayed
<1>4. QED
  BY <1>1, <1>2, <1>3 DEF IInv

\* The era that try_seal comes to has ended before the finalized head.
LEMMA EraToSeal ==
    ASSUME IInv, pc = "sealing", MoreToSeal
    PROVE  /\ last_sealed + 1 \in Eras
           /\ SealBlock(last_sealed + 1) \in Blocks
           /\ SealBlock(last_sealed + 1) <= head
<1>1. /\ head \in Blocks /\ SetId[head] \in Nat /\ last_sealed \in Nat /\ seen \in Nat
      /\ seen <= SetId[head]
  BY ChainAssumption DEF IInv, TypeOK, SeenInv
<1>2. (last_sealed + 1) + 1 <= SetId[head] /\ last_sealed + 1 \in Nat
  BY <1>1 DEF MoreToSeal
<1>3. QED
  BY <1>1, <1>2, SealBlockFinalized

LEMMA SkipEraStep ==
    ASSUME IInv, SkipEra
    PROVE  IInv'
<1>1. /\ UNCHANGED <<chains, proofs, pc, seen, attempts, sealed, submitted, base>>
      /\ pc = "sealing" /\ last_sealed' = last_sealed + 1
      /\ Delivered(last_sealed + 1)
  BY DEF SkipEra, Delivered
<1>2. last_sealed \in Nat /\ seen \in Nat /\ sealed \in [Eras -> EraStatus] /\ base \in Nat
  BY DEF IInv, TypeOK
<1>3. SeenInv'
  BY <1>1 DEF IInv, SeenInv, chains
<1>4. SealedErasCovered'
  <2>1. ASSUME NEW e \in Eras, base < e, e <= last_sealed + 1
        PROVE  Delivered(e) \/ sealed[e] # "none"
    <3>1. e \in Nat
      BY ChainAssumption DEF Eras
    <3>2. CASE e = last_sealed + 1
      BY <1>1, <3>2
    <3>3. CASE e <= last_sealed
      BY <2>1, <3>3 DEF IInv, SealedErasCovered
    <3>4. QED
      BY <2>1, <3>1, <3>2, <3>3, <1>2
  <2>2. QED
    BY <2>1, <1>1 DEF SealedErasCovered, Delivered, chains
<1>5. SealsEndedEras'
  BY <1>1 DEF IInv, SealsEndedEras, chains, proofs
<1>6. QED
  BY <1>1, <1>2, <1>3, <1>4, <1>5, EraStep DEF IInv, TxInv

LEMMA SealEraStep ==
    ASSUME IInv, SealEra
    PROVE  IInv'
<1> DEFINE f == last_sealed + 1
<1>1. /\ UNCHANGED <<chains, proofs, pc, seen, attempts, submitted, base>>
      /\ pc = "sealing" /\ last_sealed' = f /\ f \in proven
      /\ sealed' = [sealed EXCEPT ![f] = "pending"]
  BY DEF SealEra
<1>2. last_sealed \in Nat /\ seen \in Nat /\ sealed \in [Eras -> EraStatus] /\ base \in Nat
  BY DEF IInv, TypeOK
<1>3. f \in Eras /\ SealBlock(f) <= head
  BY EraToSeal DEF SealEra
<1>4. SeenInv'
  BY <1>1 DEF IInv, SeenInv, chains
<1>5. SealedErasCovered'
  <2>1. ASSUME NEW e \in Eras, base < e, e <= f
        PROVE  Delivered(e) \/ sealed'[e] # "none"
    <3>1. e \in Nat
      BY ChainAssumption DEF Eras
    <3>2. CASE e = f
      BY <1>1, <1>2, <1>3, <3>2
    <3>3. CASE e <= last_sealed
      <4>1. e # f
        BY <3>1, <3>3, <1>2
      <4>2. sealed'[e] = sealed[e]
        BY <4>1, <1>1, <1>2
      <4>3. QED
        BY <2>1, <3>3, <4>2 DEF IInv, SealedErasCovered
    <3>4. QED
      BY <2>1, <3>1, <3>2, <3>3, <1>2
  <2>2. QED
    BY <2>1, <1>1 DEF SealedErasCovered, Delivered, chains
<1>6. SealsEndedEras'
  BY <1>1, <1>2, <1>3 DEF IInv, SealsEndedEras, chains, proofs
<1>7. sealed' \in [Eras -> EraStatus]
  BY <1>1, <1>2 DEF EraStatus, TxStatus
<1>8. \A e \in Eras : sealed'[e] = "finalized" => SealBlock(e) \in relayed
  BY <1>1, <1>2 DEF IInv, TxInv
<1>9. last_sealed' \in Nat /\ seen' \in Nat
  BY <1>1, <1>2
<1>10. QED
  BY <1>1, <1>4, <1>5, <1>6, <1>7, <1>8, <1>9, EraStep

LEMMA TryFinalizeEraStep ==
    ASSUME IInv, TryFinalizeEra
    PROVE  IInv'
<1>1. PICK f \in Unvisited :
          /\ sealed[f] # "dropped"
          /\ sealed' = [sealed EXCEPT ![f] = StatusAfterVisit(f)]
          /\ seen' = f
  BY DEF TryFinalizeEra
<1>2. /\ UNCHANGED <<chains, proofs, pc, attempts, last_sealed, submitted, base>>
      /\ pc = "finalize"
  BY DEF TryFinalizeEra
<1>3. /\ last_sealed \in Nat /\ sealed \in [Eras -> EraStatus]
      /\ f \in Eras /\ f \in Nat /\ sealed[f] # "none"
  BY <1>1 DEF IInv, TypeOK, Unvisited, Eras
<1>4. StatusAfterVisit(f) \in {"none", "pending"}
  BY DEF StatusAfterVisit
<1>5. FinalizedEra(f) => SealBlock(f) \in relayed
  BY <1>3 DEF FinalizedEra, IInv, TxInv
<1>6. \A e \in Eras : e # f => sealed'[e] = sealed[e]
  BY <1>1, <1>3
<1>7. sealed'[f] = StatusAfterVisit(f)
  BY <1>1, <1>3
<1>8. SealedErasCovered'
  <2>1. ASSUME NEW e \in Eras, base < e, e <= last_sealed
        PROVE  Delivered(e) \/ sealed'[e] # "none"
    <3>1. CASE e = f
      BY <3>1, <1>5, <1>7 DEF StatusAfterVisit, Delivered
    <3>2. CASE e # f
      BY <2>1, <3>2, <1>6 DEF IInv, SealedErasCovered
    <3>3. QED
      BY <3>1, <3>2
  <2>2. QED
    BY <2>1, <1>2 DEF SealedErasCovered, Delivered, chains
<1>9. SealsEndedEras'
  BY <1>2, <1>3, <1>6 DEF IInv, SealsEndedEras, chains, proofs
<1>10. sealed' \in [Eras -> EraStatus]
  BY <1>1, <1>3, <1>4 DEF EraStatus, TxStatus
<1>11. \A e \in Eras : sealed'[e] = "finalized" => SealBlock(e) \in relayed
  BY <1>4, <1>6, <1>7 DEF IInv, TxInv
<1>12. SeenInv'
  BY <1>2 DEF SeenInv
<1>13. QED
  BY <1>1, <1>2, <1>3, <1>8, <1>9, <1>10, <1>11, <1>12, EraStep

--------------------------------------------------------------------------------
(* The chains *)

\* What was read stays right when the head advances and blocks are relayed.
LEMMA ChainStep ==
    ASSUME IInv, UNCHANGED <<proofs, pc, seen, attempts, last_sealed, base>>,
           head' \in Blocks, head <= head',
           relayed \subseteq relayed', relayed' \subseteq Blocks
    PROVE  /\ SeenInv' /\ ProofsFormChain'
           /\ head' \in Blocks \ {0}
<1> USE DEF proofs
<1>1. /\ head \in Blocks \ {0} /\ head \in Nat /\ head' \in Nat /\ seen \in Nat
      /\ SetId[head] \in Nat /\ SetId[head'] \in Nat
  BY ChainAssumption DEF IInv, TypeOK, Blocks
<1>2. SetId[head] <= SetId[head']
  BY <1>1, ChainAssumption
<1>3. head' \in Blocks \ {0}
  BY <1>1 DEF Blocks
<1>4. LatestProven' = LatestProven
  BY DEF LatestProven
<1>5. SeenInv'
  BY <1>1, <1>2, <1>4 DEF IInv, SeenInv
<1>6. \A k \in Genesis + 1 .. SetId[head] : k \in Genesis + 1 .. SetId[head']
  BY <1>1, <1>2, GenesisType
<1>7. ProofsFormChain'
  BY <1>6 DEF IInv, ProofsFormChain
<1>8. QED
  BY <1>3, <1>5, <1>7

LEMMA FinalizeBlockStep ==
    ASSUME IInv, FinalizeBlock
    PROVE  IInv'
<1>1. /\ UNCHANGED <<relayed, proofs, pc, seen, attempts, eras, submitted>>
      /\ head' = head + 1 /\ head < LastBlock
  BY DEF FinalizeBlock
<1>2. head' \in Blocks /\ head <= head' /\ head' \in Nat
  BY <1>1, ChainAssumption DEF IInv, TypeOK, Blocks
<1>3. SeenInv' /\ ProofsFormChain' /\ head' \in Blocks \ {0}
  BY <1>1, <1>2, ChainStep DEF IInv, TypeOK, eras
<1>4. /\ SealedErasCovered' /\ SealsEndedEras'
      /\ \A e \in Eras : sealed'[e] = "finalized" => SealBlock(e) \in relayed'
  BY <1>1, <1>2, ErasKept DEF eras, proofs
<1>5. TypeOK' /\ TxInv' /\ FinalizedRootIsRelayed'
  BY <1>1, <1>3, <1>4 DEF IInv, TypeOK, TxInv, FinalizedRootIsRelayed, proofs, eras,
                          SealBlock, EraFirstBlock
<1>6. QED
  BY <1>3, <1>4, <1>5 DEF IInv

LEMMA OthersRelayStep ==
    ASSUME IInv, NEW b \in Blocks \ {0}, OthersRelay(b)
    PROVE  IInv'
<1>1. /\ UNCHANGED <<head, proofs, pc, seen, attempts, eras, submitted>>
      /\ relayed' = relayed \cup {b}
  BY DEF OthersRelay
<1>2. head' \in Blocks /\ head <= head' /\ head' \in Nat /\ relayed' \subseteq Blocks
  BY <1>1 DEF IInv, TypeOK, Blocks
<1>3. SeenInv' /\ ProofsFormChain' /\ head' \in Blocks \ {0}
  BY <1>1, <1>2, ChainStep DEF eras
<1>4. /\ SealedErasCovered' /\ SealsEndedEras'
      /\ \A e \in Eras : sealed'[e] = "finalized" => SealBlock(e) \in relayed'
  BY <1>1, <1>2, ErasKept DEF eras, proofs
<1>5. TypeOK' /\ TxInv' /\ FinalizedRootIsRelayed'
  BY <1>1, <1>2, <1>3, <1>4 DEF IInv, TypeOK, TxInv, FinalizedRootIsRelayed, proofs, eras,
                                SealBlock, EraFirstBlock
<1>6. QED
  BY <1>3, <1>4, <1>5 DEF IInv

LEMMA EraTxStep ==
    ASSUME IInv, NEW f \in Eras, NEW s \in Resolved, EraTx(f, s)
    PROVE  IInv'
<1>1. /\ UNCHANGED <<head, proofs, pc, seen, attempts, last_sealed, submitted, base>>
      /\ sealed[f] = "pending"
      /\ sealed' = [sealed EXCEPT ![f] = s]
      /\ relayed' = IF s = "finalized" THEN relayed \cup {SealBlock(f)} ELSE relayed
  BY DEF EraTx
<1>2. /\ head' \in Blocks /\ head <= head' /\ head' \in Nat
      /\ relayed' \subseteq Blocks /\ relayed \subseteq relayed'
  <2>1. head' \in Blocks /\ head <= head' /\ head' \in Nat
    BY <1>1 DEF IInv, TypeOK, Blocks
  <2>2. SealBlock(f) \in Blocks /\ relayed \subseteq Blocks
    BY SealBlockType DEF IInv, TypeOK
  <2>3. QED
    BY <1>1, <2>1, <2>2
<1>3. SeenInv' /\ ProofsFormChain' /\ head' \in Blocks \ {0}
  BY <1>1, <1>2, ChainStep
<1>4. /\ sealed' \in [Eras -> EraStatus]
      /\ sealed'[f] = s /\ s # "none"
      /\ \A e \in Eras : e # f => sealed'[e] = sealed[e]
  BY <1>1 DEF IInv, TypeOK, EraStatus, TxStatus, Resolved
<1>5. SealedErasCovered'
  BY <1>1, <1>2, <1>4 DEF IInv, SealedErasCovered, Delivered, SealBlock, EraFirstBlock
<1>6. SealsEndedEras'
  BY <1>1, <1>4 DEF IInv, SealsEndedEras, proofs, SealBlock, EraFirstBlock
<1>7. \A e \in Eras : sealed'[e] = "finalized" => SealBlock(e) \in relayed'
  BY <1>1, <1>2, <1>4 DEF IInv, TxInv
<1>8. TypeOK' /\ TxInv' /\ FinalizedRootIsRelayed'
  <2>1. TypeOK'
    BY <1>1, <1>2, <1>3, <1>4 DEF IInv, TypeOK, proofs
  <2>2. TxInv' /\ FinalizedRootIsRelayed'
    BY <1>1, <1>2, <1>7 DEF IInv, TxInv, FinalizedRootIsRelayed, SealBlock, EraFirstBlock
  <2>3. QED
    BY <2>1, <2>2
<1>9. QED
  BY <1>3, <1>5, <1>6, <1>8 DEF IInv

LEMMA RootTxStep ==
    ASSUME IInv, NEW s \in Resolved, RootTx(s)
    PROVE  IInv'
<1>1. /\ UNCHANGED <<head, proofs, pc, seen, attempts, eras>>
      /\ submitted # None /\ submitted.tx = "pending"
      /\ submitted' = [submitted EXCEPT !.tx = s]
      /\ relayed' = IF s = "finalized" THEN relayed \cup {submitted.block} ELSE relayed
  BY DEF RootTx
<1>2. submitted \in Submitted
  BY <1>1 DEF IInv, TypeOK
<1>3. /\ head' \in Blocks /\ head <= head' /\ head' \in Nat
      /\ relayed' \subseteq Blocks /\ relayed \subseteq relayed'
  BY <1>1, <1>2 DEF IInv, TypeOK, Blocks, Submitted
<1>4. SeenInv' /\ ProofsFormChain' /\ head' \in Blocks \ {0}
  BY <1>1, <1>3, ChainStep DEF eras
<1>5. /\ SealedErasCovered' /\ SealsEndedEras'
      /\ \A e \in Eras : sealed'[e] = "finalized" => SealBlock(e) \in relayed'
  BY <1>1, <1>3, ErasKept DEF eras, proofs
<1>6. /\ submitted' \in Submitted /\ submitted'.tx = s
      /\ submitted'.block = submitted.block /\ submitted'.finalized = submitted.finalized
  BY <1>1, <1>2 DEF Submitted, TxStatus, Resolved
<1>7. TypeOK'
  BY <1>1, <1>3, <1>4, <1>6 DEF IInv, TypeOK, proofs, eras
<1>8. TxInv' /\ FinalizedRootIsRelayed'
  <2>1. submitted'.tx = "finalized" => submitted'.block \in relayed'
    BY <1>1, <1>6
  <2>2. submitted'.finalized => submitted'.block \in relayed'
    BY <1>1, <1>3, <1>6 DEF IInv, FinalizedRootIsRelayed
  <2>3. QED
    BY <1>5, <2>1, <2>2 DEF TxInv, FinalizedRootIsRelayed, SealBlock, EraFirstBlock
<1>9. QED
  BY <1>4, <1>5, <1>7, <1>8 DEF IInv

\* A process that starts watches nothing and has the saved proofs.
LEMMA RestartStep ==
    ASSUME IInv, NEW arg \in StartArgs, Restart(arg)
    PROVE  IInv'
<1>1. /\ UNCHANGED <<chains, saved>> /\ proven' = saved
      /\ pc' = "sync" /\ seen' = 0 /\ attempts' = 1
      /\ last_sealed' = LastSealed(arg) /\ base' = LastSealed(arg)
      /\ sealed' = [e \in Eras |-> "none"] /\ submitted' = None
  BY DEF Restart
<1>2. head \in Blocks /\ LastSealed(arg) \in Nat
  BY LastSealedType DEF IInv, TypeOK
<1>3. TypeOK'
  BY <1>1, <1>2, ArgsAssumption DEF IInv, TypeOK, Steps, chains, EraStatus
<1>4. SeenInv'
  BY <1>1 DEF SeenInv
<1>5. \A e \in Eras : sealed'[e] = "none" /\ e \in Nat
  BY <1>1 DEF Eras
<1>6. SealedErasCovered'
  BY <1>1, <1>2, <1>5 DEF SealedErasCovered
<1>7. TxInv' /\ SealsEndedEras' /\ FinalizedRootIsRelayed'
  BY <1>1, <1>5 DEF TxInv, SealsEndedEras, FinalizedRootIsRelayed
<1>8. ProofsFormChain'
  BY <1>1 DEF IInv, ProofsFormChain, chains
<1>9. QED
  BY <1>3, <1>4, <1>6, <1>7, <1>8 DEF IInv

--------------------------------------------------------------------------------
\* The relayer starts in the inductive invariant and every step keeps it.
THEOREM Invariance == Spec => []IInv
<1>1. Init => IInv
  <2>1. SUFFICES ASSUME Init PROVE IInv
    OBVIOUS
  <2>2. head \in Blocks \ {0}
    BY <2>1, ChainAssumption DEF Init
  <2>3. last_sealed \in Nat /\ base = last_sealed
    BY <2>1, <2>2, LastSealedType DEF Init
  <2>4. TypeOK
    BY <2>1, <2>2, <2>3, ArgsAssumption DEF Init, TypeOK, Steps, EraStatus
  <2>5. \A e \in Eras : sealed[e] = "none" /\ e \in Nat
    BY <2>1 DEF Init, Eras
  <2>6. SealedErasCovered
    BY <2>3, <2>5 DEF SealedErasCovered
  <2>7. SeenInv /\ TxInv /\ ProofsFormChain /\ SealsEndedEras /\ FinalizedRootIsRelayed
    BY <2>1, <2>5 DEF Init, SeenInv, TxInv, ProofsFormChain, SealsEndedEras,
                      FinalizedRootIsRelayed
  <2>8. QED
    BY <2>4, <2>6, <2>7 DEF IInv
<1>2. IInv /\ [Next]_vars => IInv'
  <2>1. SUFFICES ASSUME IInv, [Next]_vars
                 PROVE  IInv'
    OBVIOUS
  <2>2. CASE MainLoop
    BY <2>1, <2>2, MoveStep, ProveGenesisStep, ProveSetStep, SkipEraStep, SealEraStep,
       TryFinalizeEraStep, SubmitRootStep, TryFinalizeRootStep DEF MainLoop
  <2>3. CASE SaveError \/ Crash
    BY <2>1, <2>3, ProveSetStep, MoveStep
  <2>4. CASE \E arg \in StartArgs : Restart(arg)
    BY <2>1, <2>4, RestartStep
  <2>5. CASE FinalizeBlock
    BY <2>1, <2>5, FinalizeBlockStep
  <2>6. CASE \E e \in Eras, s \in Resolved : EraTx(e, s)
    BY <2>1, <2>6, EraTxStep
  <2>7. CASE \E s \in Resolved : RootTx(s)
    BY <2>1, <2>7, RootTxStep
  <2>8. CASE \E b \in Blocks \ {0} : OthersRelay(b)
    BY <2>1, <2>8, OthersRelayStep
  <2>9. CASE UNCHANGED vars
    <3>1. /\ UNCHANGED <<chains, proofs, eras, submitted>>
          /\ UNCHANGED <<pc, seen, attempts, head, proven>>
      BY <2>9 DEF vars, chains, proofs, eras
    <3>2. SeenInv'
      BY <2>1, <3>1 DEF IInv, SeenInv, LatestProven
    <3>3. QED
      BY <2>1, <3>1, <3>2, LoopStep DEF IInv, TypeOK
  <2>10. QED
    BY <2>1, <2>2, <2>3, <2>4, <2>5, <2>6, <2>7, <2>8, <2>9 DEF Next
<1>3. QED
  BY <1>1, <1>2, PTL DEF Spec

\* Every variable of the relayer keeps its type.
THEOREM TypeCorrect == Spec => []TypeOK
<1>1. IInv => TypeOK
  BY DEF IInv
<1>2. QED
  BY <1>1, Invariance, PTL

\* No era that the relayer counts as sealed is lost.
THEOREM NoSealedEraIsLost == Spec => []SealedErasCovered
<1>1. IInv => SealedErasCovered
  BY DEF IInv
<1>2. QED
  BY <1>1, Invariance, PTL

\* The proof storage is a chain, so sync_authority_set_id does not panic.
THEOREM ProofStorageIsChain == Spec => []ProofsFormChain
<1>1. IInv => ProofsFormChain
  BY DEF IInv
<1>2. QED
  BY <1>1, Invariance, PTL

\* seal_era works on finalized blocks, with the proof of the set that signed them.
THEOREM OnlyEndedErasAreSealed == Spec => []SealsEndedEras
<1>1. IInv => SealsEndedEras
  BY DEF IInv
<1>2. QED
  BY <1>1, Invariance, PTL

\* A root is no longer watched only when it is on Ethereum.
THEOREM UnwatchedRootsAreRelayed == Spec => []FinalizedRootIsRelayed
<1>1. IInv => FinalizedRootIsRelayed
  BY DEF IInv
<1>2. QED
  BY <1>1, Invariance, PTL
================================================================================
