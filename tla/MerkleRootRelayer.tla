--------------------------- MODULE MerkleRootRelayer ---------------------------
(****************************************************************************)
(* The Gear -> Ethereum protocol relayer: the main loop that proves every    *)
(* authority set, seals every era that ended by relaying the queue's Merkle  *)
(* root at the era's last signed block, and relays the root of the latest    *)
(* finalized block.                                                          *)
(*                                                                           *)
(* The loop suspends at every call of a node or of the prover, and both      *)
(* chains advance meanwhile, so it is split where it reads a chain; seen is  *)
(* the value read last.  Every call may fail, which ends the iteration.  The *)
(* process may stop at any point; only the saved proofs survive.             *)
(*                                                                           *)
(* A Gear block is its number.  The authority set in its storage and the     *)
(* root of its message queue are constants of the chain; head tells how much *)
(* of it is finalized.  On Ethereum a block counts as relayed once the       *)
(* finalized state of the Relayer contract holds its root.                   *)
(****************************************************************************)
EXTENDS Naturals, FiniteSetsExt

CONSTANTS LastBlock,    \* bound: the last Gear block that is ever finalized
          SetId,        \* authority_set_id: the set in the storage of a block
          QueueRoot,    \* fetch_queue_merkle_root: the queue's root, 0 if empty
          FirstHead,    \* the finalized block when the relayer first starts
          Genesis,      \* genesis_config.authority_set_id
          StartArgs,    \* values of the --start-authority-set-id argument
          None,         \* no value
          MAX_RETRIES   \* common::MAX_RETRIES

Blocks == 0..LastBlock
\* The authority sets whose era ends within the bound.
Eras == {e \in 0..SetId[LastBlock] : e < SetId[LastBlock]}

\* The set of the first block is 0, that of any other its parent's or the next one.
ASSUME ChainAssumption ==
    /\ LastBlock \in Nat
    /\ SetId \in [Blocks -> Nat]
    /\ SetId[0] = 0
    /\ \A b, c \in Blocks : b <= c => SetId[b] <= SetId[c]
    /\ \A e \in 1..SetId[LastBlock] :
         \E b \in Blocks \ {0} : SetId[b] = e /\ SetId[b - 1] + 1 = e
    /\ QueueRoot \in [Blocks -> Nat]
    /\ FirstHead \in Blocks \ {0}
ASSUME GenesisAssumption == Genesis \in Nat /\ Genesis <= SetId[FirstHead]
ASSUME ArgsAssumption == /\ StartArgs \subseteq Nat \cup {None}
                         /\ None \notin Nat
                         /\ MAX_RETRIES \in Nat \ {0}

VARIABLES head,         \* latest finalized Gear block
          relayed,      \* Gear blocks whose root is in the finalized Ethereum state
          proven,       \* proof storage: authority sets with a proof
          saved,        \* proof files: the sets that survive a restart
          pc,           \* the step of the main loop, "exited" if none runs
          seen,         \* what the step has read and works with
          attempts,     \* iterations of the loop, saturating at MAX_RETRIES
          last_sealed,  \* Eras::last_sealed
          sealed,       \* Eras::sealed_not_finalized: the transaction of an era
          submitted,    \* latest_submitted_merkle_root
          base          \* history: last_sealed when the process started

vars == <<head, relayed, proven, saved, pc, seen, attempts, last_sealed, sealed,
          submitted, base>>

chains == <<head, relayed>>
proofs == <<proven, saved>>
eras   == <<last_sealed, sealed, base>>

(****************************************************************************)
(* What get_tx_status answers for a transaction, and "dropped" for one that  *)
(* the node no longer knows, for which it fails.  Eras are pushed in         *)
(* ascending order and each once, so the vector of eras that await           *)
(* finalization is a function of the era, "none" where it has no entry.      *)
(****************************************************************************)
TxStatus  == {"pending", "failed", "finalized", "dropped"}
EraStatus == TxStatus \cup {"none"}

\* SubmittedMerkleRoot; the proof is that of the block.
Submitted == [block : Blocks, tx : TxStatus, finalized : BOOLEAN]

Steps == {"sync", "prove_sets", "seal", "sealing", "finalize", "submit", "prove",
          "finalize_root"}

\* signed_by_authority_set_id: a block that changes the set is signed by the old one.
SignedBy(b) == IF SetId[b - 1] # SetId[b] THEN SetId[b - 1] ELSE SetId[b]

\* find_era_first_block: what its search looks for.
EraFirstBlock(e) ==
    CHOOSE b \in Blocks \ {0} : SetId[b] = e /\ SetId[b - 1] + 1 = e

\* The block that seals an era: the last that its authority set signs.
SealBlock(e) == EraFirstBlock(e + 1)

\* The last set that the storage has a proof for.
LatestProven == Max(proven)

\* The era of a finalized block is over once a block is signed by a later set.
Ended(e) == e < SignedBy(head)

--------------------------------------------------------------------------------
\* Eras::new: the argument, or the set before the current one.
LastSealed(arg) ==
    IF arg # None THEN arg ELSE Max({SetId[head], 2}) - 1

Init ==
    /\ head = FirstHead
    /\ relayed = {}
    /\ proven = {}
    /\ saved = {}
    /\ pc = "sync"
    /\ seen = 0
    /\ attempts = 1
    /\ \E arg \in StartArgs : last_sealed = LastSealed(arg)
    /\ sealed = [e \in Eras |-> "none"]
    /\ submitted = None
    /\ base = last_sealed

\* The process is started again, with any argument, and loads the saved proofs.
Restart(arg) ==
    /\ pc = "exited"
    /\ proven' = saved
    /\ pc' = "sync"
    /\ seen' = 0
    /\ attempts' = 1
    /\ last_sealed' = LastSealed(arg)
    /\ sealed' = [e \in Eras |-> "none"]
    /\ submitted' = None
    /\ base' = last_sealed'
    /\ UNCHANGED <<chains, saved>>

--------------------------------------------------------------------------------
(* sync_authority_set_completely *)

\* Nothing to prove: the sets are proven, or the network is still at genesis.
InSync ==
    /\ pc = "sync"
    /\ IF proven = {} THEN SetId[head] <= Genesis ELSE LatestProven = SetId[head]
    /\ pc' = "seal"
    /\ UNCHANGED <<chains, proofs, seen, attempts, eras, submitted>>

\* prove_genesis and ProofStorage::init.
ProveGenesis ==
    /\ pc = "sync"
    /\ proven = {}
    /\ SetId[head] > Genesis
    /\ proven' = {Genesis + 1}
    /\ saved' = proven'
    /\ UNCHANGED <<chains, pc, seen, attempts, eras, submitted>>

\* The storage is behind: prove every set up to the one just read.
StartProving ==
    /\ pc = "sync"
    /\ proven # {}
    /\ LatestProven < SetId[head]
    /\ pc' = "prove_sets"
    /\ seen' = SetId[head]
    /\ UNCHANGED <<chains, proofs, attempts, eras, submitted>>

\* ProofStorage::update: the proof of the set after the last one.
Updated == proven \cup {LatestProven + 1}

\* prove_validator_set_change and ProofStorage::update.
ProveValidatorSetChange ==
    /\ pc = "prove_sets"
    /\ proven' = Updated
    /\ saved' = proven'
    /\ pc' = IF LatestProven + 1 = seen THEN "sync" ELSE "prove_sets"
    /\ UNCHANGED <<chains, seen, attempts, eras, submitted>>

--------------------------------------------------------------------------------
(* Eras::process *)

\* try_seal: read the set that signed the finalized head.
TrySeal ==
    /\ pc = "seal"
    /\ pc' = "sealing"
    /\ seen' = SignedBy(head)
    /\ UNCHANGED <<chains, proofs, attempts, eras, submitted>>

\* Mutant of MoreToSeal: the era that is going on is sealed as well.
MoreToSealOffByOne == last_sealed + 1 <= seen

\* The condition of the loop in try_seal.
MoreToSeal == last_sealed + 2 <= seen

\* seal_era has nothing to do: the queue is empty or the root already relayed.
SkipEra ==
    LET e == last_sealed + 1 IN
    /\ pc = "sealing"
    /\ MoreToSeal
    /\ QueueRoot[SealBlock(e)] = 0 \/ SealBlock(e) \in relayed
    /\ last_sealed' = e
    /\ UNCHANGED <<chains, proofs, pc, seen, attempts, sealed, submitted, base>>

\* seal_era: prove the root and submit it.
SealEra ==
    LET e == last_sealed + 1 IN
    /\ pc = "sealing"
    /\ MoreToSeal
    /\ QueueRoot[SealBlock(e)] # 0
    /\ SealBlock(e) \notin relayed
    /\ e \in proven
    /\ sealed' = [sealed EXCEPT ![e] = "pending"]
    /\ last_sealed' = e
    /\ UNCHANGED <<chains, proofs, pc, seen, attempts, submitted, base>>

\* Every era before the one that was read is sealed.
Sealed ==
    /\ pc = "sealing"
    /\ ~MoreToSeal
    /\ pc' = "finalize"
    /\ seen' = SetId[LastBlock]
    /\ UNCHANGED <<chains, proofs, attempts, eras, submitted>>

\* The eras that try_finalize has not visited, which it does from the last one.
Unvisited == {e \in Eras : e < seen /\ sealed[e] # "none"}

\* Mutant of FinalizedEra: a failed transaction is taken for relayed by someone.
FinalizedEraOnFailure(e) == sealed[e] \in {"finalized", "failed"}

\* SealedNotFinalizedEra::try_finalize = Ok(true).
FinalizedEra(e) ==
    \/ sealed[e] = "finalized"
    \/ sealed[e] = "failed" /\ SealBlock(e) \in relayed

\* Mutant of StatusAfterVisit: a failed transaction is left alone.
StatusAfterVisitNoRetry(e) == IF FinalizedEra(e) THEN "none" ELSE sealed[e]

\* Forget a finalized era, wait for a transaction, send a failed one again.
StatusAfterVisit(e) == IF FinalizedEra(e) THEN "none" ELSE "pending"

\* One round of the loop in Eras::try_finalize; an unknown transaction is an error.
TryFinalizeEra ==
    /\ pc = "finalize"
    /\ \E e \in Unvisited :
         /\ \A d \in Unvisited : d <= e
         /\ sealed[e] # "dropped"
         /\ sealed' = [sealed EXCEPT ![e] = StatusAfterVisit(e)]
         /\ seen' = e
    /\ UNCHANGED <<chains, proofs, pc, attempts, last_sealed, submitted, base>>

ErasProcessed ==
    /\ pc = "finalize"
    /\ Unvisited = {}
    /\ pc' = "submit"
    /\ UNCHANGED <<chains, proofs, seen, attempts, eras, submitted>>

--------------------------------------------------------------------------------
(* submit_merkle_root and try_finalize_submitted_merkle_root *)

\* The queue of the head is empty or its root was the last one submitted.
NothingNew ==
    \/ QueueRoot[head] = 0
    \/ submitted # None /\ QueueRoot[submitted.block] = QueueRoot[head]

SkipRoot ==
    /\ pc = "submit"
    /\ NothingNew
    /\ pc' = "finalize_root"
    /\ UNCHANGED <<chains, proofs, seen, attempts, eras, submitted>>

\* The proof of the set that signed the head is there: prove the root.
StartRoot ==
    /\ pc = "submit"
    /\ ~NothingNew
    /\ SignedBy(head) \in proven
    /\ pc' = "prove"
    /\ seen' = head
    /\ UNCHANGED <<chains, proofs, attempts, eras, submitted>>

\* fetch_finality_proof: a finalized block from b to the end of b's session.
FinalityBlocks(b) == {c \in b..head : SignedBy(c) = SignedBy(b)}

\* prove_final picks the block; its root replaces the last one submitted.
SubmitRoot ==
    /\ pc = "prove"
    /\ \E b \in FinalityBlocks(seen) :
         submitted' = [block |-> b, tx |-> "pending", finalized |-> FALSE]
    /\ pc' = "finalize_root"
    /\ UNCHANGED <<chains, proofs, seen, attempts, eras>>

\* Mutant of AfterFinalizeRoot: a failed transaction is taken for a finalized one.
AfterFinalizeRootUnchecked ==
    IF submitted # None /\ submitted.tx \in {"finalized", "failed"}
    THEN [submitted EXCEPT !.finalized = TRUE]
    ELSE submitted

\* submitted after try_finalize_submitted_merkle_root.
AfterFinalizeRoot ==
    IF submitted = None \/ submitted.finalized THEN submitted
    ELSE CASE submitted.tx = "finalized" -> [submitted EXCEPT !.finalized = TRUE]
           [] submitted.tx = "pending" -> submitted
           [] submitted.tx = "failed" ->
                IF submitted.block \in relayed THEN [submitted EXCEPT !.finalized = TRUE]
                                               ELSE [submitted EXCEPT !.tx = "pending"]

\* The last step of an iteration, and the start of the next one.
TryFinalizeRoot ==
    /\ pc = "finalize_root"
    /\ submitted # None => submitted.finalized \/ submitted.tx # "dropped"
    /\ submitted' = AfterFinalizeRoot
    /\ pc' = "sync"
    /\ attempts' = Min({attempts + 1, MAX_RETRIES})
    /\ UNCHANGED <<chains, proofs, seen, eras>>

--------------------------------------------------------------------------------
(* Errors *)

\* run, after an error: exit when the iterations are used up, or start again.
RetryOrExit ==
    /\ pc' = IF attempts >= MAX_RETRIES THEN "exited" ELSE "sync"
    /\ attempts' = Min({attempts + 1, MAX_RETRIES})
    /\ UNCHANGED <<chains, seen, eras, submitted>>

\* A call fails, a proof is not in the storage, or a transaction is unknown.
MainLoopError ==
    /\ pc \in Steps
    /\ RetryOrExit
    /\ UNCHANGED proofs

\* ProofStorage::update keeps the proof, but save_state, which writes the files of
\* all proofs in ascending order, fails at that of set k.
SaveError ==
    /\ pc = "prove_sets"
    /\ proven' = Updated
    /\ \E k \in Updated : saved' = saved \cup {p \in Updated : p < k}
    /\ RetryOrExit

\* The process panics, is killed, or does not get its connection back.
Crash ==
    /\ pc \in Steps
    /\ pc' = "exited"
    /\ UNCHANGED <<chains, proofs, seen, attempts, eras, submitted>>

--------------------------------------------------------------------------------
(* The chains *)

\* Gear finalizes a block.
FinalizeBlock ==
    /\ head < LastBlock
    /\ head' = head + 1
    /\ UNCHANGED <<relayed, proofs, pc, seen, attempts, eras, submitted>>

\* The transaction of an era is finalized, fails, or disappears from the node.
EraTx(e, status) ==
    /\ sealed[e] = "pending"
    /\ sealed' = [sealed EXCEPT ![e] = status]
    /\ relayed' = IF status = "finalized" THEN relayed \cup {SealBlock(e)} ELSE relayed
    /\ UNCHANGED <<head, proofs, pc, seen, attempts, last_sealed, submitted, base>>

\* The same for the transaction of the latest submitted root.
RootTx(status) ==
    /\ submitted # None
    /\ submitted.tx = "pending"
    /\ submitted' = [submitted EXCEPT !.tx = status]
    /\ relayed' = IF status = "finalized" THEN relayed \cup {submitted.block} ELSE relayed
    /\ UNCHANGED <<head, proofs, pc, seen, attempts, eras>>

\* Another relayer, or a transaction that this one has lost track of.
OthersRelay(b) ==
    /\ b <= head
    /\ QueueRoot[b] # 0
    /\ relayed' = relayed \cup {b}
    /\ UNCHANGED <<head, proofs, pc, seen, attempts, eras, submitted>>

Resolved == {"finalized", "failed", "dropped"}

MainLoop ==
    \/ InSync \/ ProveGenesis \/ StartProving \/ ProveValidatorSetChange
    \/ TrySeal \/ SkipEra \/ SealEra \/ Sealed
    \/ TryFinalizeEra \/ ErasProcessed
    \/ SkipRoot \/ StartRoot \/ SubmitRoot \/ TryFinalizeRoot
    \/ MainLoopError

Next ==
    \/ MainLoop
    \/ SaveError
    \/ Crash
    \/ \E arg \in StartArgs : Restart(arg)
    \/ FinalizeBlock
    \/ \E e \in Eras, s \in Resolved : EraTx(e, s)
    \/ \E s \in Resolved : RootTx(s)
    \/ \E b \in Blocks \ {0} : OthersRelay(b)

Spec == Init /\ [][Next]_vars

\* A running process keeps running, and Ethereum does not fail the transactions
\* of an era forever.
FairSpec ==
    /\ Spec
    /\ WF_vars(MainLoop)
    /\ \A e \in Eras : SF_vars(EraTx(e, "finalized"))

--------------------------------------------------------------------------------
TypeOK ==
    /\ head \in Blocks \ {0}
    /\ relayed \subseteq Blocks
    /\ proven \subseteq Nat
    /\ saved \subseteq Nat
    /\ pc \in Steps \cup {"exited"}
    /\ seen \in Nat
    /\ attempts \in 1..MAX_RETRIES
    /\ last_sealed \in Nat
    /\ sealed \in [Eras -> EraStatus]
    /\ submitted \in Submitted \cup {None}
    /\ base \in Nat

\* The root of an era that ended needs no work: there is none, or it is relayed.
Delivered(e) == QueueRoot[SealBlock(e)] = 0 \/ SealBlock(e) \in relayed

\* An era that counts as sealed since the process started is not lost: its root is
\* delivered or its transaction is still watched (Eras::try_seal advances
\* last_sealed only after seal_era, and try_finalize forgets an era only when its
\* root is in the finalized state).
SealedErasCovered ==
    \A e \in Eras :
        base < e /\ e <= last_sealed => Delivered(e) \/ sealed[e] # "none"

\* The proofs form a chain from the genesis set that never passes the finalized
\* head, in memory and in the files, so sync_authority_set_id does not panic with
\* "Invalid state of proof storage", also after a restart and a save that failed halfway.
ProofsFormChain ==
    \A P \in {proven, saved} :
        P = {} \/ \E k \in Genesis + 1 .. SetId[head] : P = Genesis + 1 .. k

\* An era is sealed only with the proof of the set that signed its last block and
\* once that block is finalized; find_era_first_block would not end before.
SealsEndedEras ==
    \A e \in Eras : sealed[e] # "none" => e \in proven /\ SealBlock(e) <= head

\* A submitted root that try_finalize_submitted_merkle_root stops watching is in
\* the finalized state of Ethereum, whoever brought it there.
FinalizedRootIsRelayed ==
    submitted # None /\ submitted.finalized => submitted.block \in relayed

\* An era that ended is delivered in the end by the loop of run, over failed
\* transactions and errors, unless the process exits.
EndedErasRelayed ==
    \A e \in Eras :
        base < e /\ Ended(e) ~> Delivered(e) \/ pc = "exited"
================================================================================
