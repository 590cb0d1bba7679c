# TLA+ models of Gear Bridges

This directory holds TLA+ specifications of the parts of Gear Bridges that keep
state and interleave, TLC configurations that check them on small instances, and
proofs, checked by TLAPS, that hold for every value of the constants.
`PROJECT.json` maps every definition to the source lines that it models.

## The system

Tokens and messages travel both ways between a Gear chain (Vara) and Ethereum.

| component | state | operations | interacts with |
|---|---|---|---|
| `vft-manager` program, Gear → Ethereum (`request_bridging/`) | `MSG_TRACKER`: a status per request; `is_paused` | `request_bridging`, reply hooks, critical hook, `handle_request_bridging_interrupted_transfer`, `pause`, `unpause` | VFT programs, bridge built-in actor, by asynchronous messages |
| `vft-manager` program, Ethereum → Gear (`submit_receipt/`) | `TRANSACTIONS`: processed receipts, of limited number | `submit_receipt`, its reply hook | `historical-proxy` (caller), VFT programs |
| `vft-manager` administration | token map, addresses, fee, admins | setters, `upgrade`, `update_vfts` | VFT programs |
| `checkpoint-light-client` program | finalized header, two sync committees, ring buffer of checkpoints, running replay | `init`, `SyncUpdate.process`, `ReplayBack.start`, `ReplayBack.process`, `CheckpointFor.get` | BLS built-in actor, protocol relayer |
| `eth-events-*`, `historical-proxy` programs | light client address; endpoints by slot | proof of receipt inclusion; redirect | light client, `vft-manager` |
| `bridging-payment` (program and contract) | fee, owner | collect the fee, forward the request | managers |
| `proof-storage` program, relayer's proof storage | chain of authority-set proofs | init, update, read, resend | protocol relayer |
| `Relayer`, `MessageQueue`, `ERC20Manager`, `ProxyUpdater`, `ProxyContract` contracts | roots by block, emergency stop, processed nonces, token balances and supply types, governance, proxy slots | `submitMerkleRoot`, `processMessage`, `requestBridging`, governance messages, calls of a proxy's admin | each other, in one transaction |
| Gear → Ethereum protocol relayer (`relay_merkle_roots.rs`, `kill_switch.rs`) | sealed eras, submitted root, retry counter | sync authority sets, seal eras, submit and finalize roots | Gear node, prover, `Relayer` contract |
| Ethereum → Gear protocol relayer (`ethereum_checkpoints/`) | last update applied | send sync updates, replay checkpoints | beacon node, light client |
| token relayers (`message_relayer/`) | queues between listeners, accumulators and senders | relay paid messages | both chains |
| Gear, Ethereum and beacon clients | connections with session numbers | searches for blocks of an authority set, storage proofs, polling of transactions | nodes, relayers |
| prover, circuits, `gnark-wrapper`, plonk verifier | none | gates, arithmetic, curves, parsers, chains of recursive proofs | protocol relayer, `Relayer` |
| indexer, frontend, tools | none of the bridge's | presentation, deployment | |

What is hard, and what makes each component correct:

* A Gear program is interrupted at every `await`. The manager checks, calls a
  token program and records the result in a reply hook, in another execution.
  Replies may time out and still arrive; gas may run out after any of them.
  Correct means: no deposit is stranded, no refund without a deposit, no refund of
  what was bridged, no receipt paid twice.
* The light client verifies against committees that it read before four awaits.
  Correct means: committees belong to the stored header, and the checkpoints are
  sorted, without gaps, and found.
* Ethereum transactions are atomic, but anyone may send them, repeatedly and in any
  order. Correct means: only proven messages take effect, once, the balances add up,
  the emergency stop is final, and a proxy changes only as its admin asks.
* The relayers retry, restart and depend on the latest finalized blocks of two
  chains. Correct means: every root and every paid message is delivered in the end,
  once, with a proof that the other side accepts, and a wrong root is answered.
* The circuits are checked by a verifier that sees only their constraints. Correct
  means: whatever values fill the witness, what is accepted is true, and what an
  honest prover computes is accepted.

## Modules

| module | models | checked by | proved in |
|---|---|---|---|
| `RequestBridging` | `vft-manager`, Gear → Ethereum | `MCRequestBridging`, `MCRefundOnce` | `RequestBridgingProofs` |
| `Bridge` | what a request promises (abstract) | through `RequestBridging` | `RequestBridgingProofs` |
| `SubmitReceipt` | `vft-manager`, Ethereum → Gear | `MCServices`, `MCPaidOnce` | `ServicesProofs` |
| `EthereumContracts` | the five contracts, composed | `MCEthereumContracts` | `EthereumContractsProofs` |
| `LightClient` | `checkpoint-light-client` | `MCLightClient` | `LightClientProofs` |
| `CheckpointRelayer` | Ethereum → Gear protocol relayer, composed with `LightClient` | `MCCheckpointRelayer` | `LightClientProofs` |
| `MerkleRootRelayer` | Gear → Ethereum protocol relayer, its main loop | `MCMerkleRootRelayer` | `MerkleRootRelayerProofs` |
| `GearToEthRelayer` | Gear → Ethereum token relayer | `MCGearToEthRelayer` | `GearToEthRelayerProofs` |
| `EthToGearRelayer` | Ethereum → Gear token relayer | `MCEthToGearRelayer` | `EthToGearRelayerProofs` |
| `KillSwitch`, with `ApiProvider` | kill switch, its archiver, the provider of connections | `MCServices` | `ServicesProofs` |
| `ProofStorage` | the `proof-storage` program and the relayer's storage on it | `MCServices` | `ServicesProofs` |
| `VftManagerAdmin` | roles, token map, `update_vfts`, `upgrade` | `MCServices` | `ServicesProofs` |
| `HistoricalProxy` | `historical-proxy` and the `eth-events` programs | `MCServices` | `ServicesProofs` |
| `GearClient` | the searches of the Gear client | `MCServices` | `ServicesProofs` |
| `U32Gates`, with `Powers` | gates of `plonky2_u32` | `MCCircuits` | `CircuitsProofs` |
| `BigUint`, `NonNative` | big integers, arithmetic modulo another prime | `MCCircuits` | `CircuitsProofs` |
| `EdCurve` | Edwards curve, scalar multiplication, EdDSA | `MCCircuits` | |
| `StorageInclusion` | trie proofs: the client that collects them, the circuits that parse them | `MCCircuits` | |
| `BlockFinality` | chains of signatures and of authority sets, final proof, public inputs | `MCCircuits`, `MCPaddingIsZero` | `CircuitsProofs` |

`MCServices` and `MCCircuits` check modules that share no state side by side: a
behaviour picks one module and the others stay in their initial states.

### RequestBridging

`tracker` is the status map; `pc` says at which `await` an execution is suspended;
`depositCall`, `bridgeCall` and `returnCall` are the calls to the token program and
the built-in actor: sent, processed with the reply on its way, replied. An
execution is split at its awaits: `RequestBridging`, `SendToBridgeBuiltin`,
`CompleteBridging`, `ReturnTokens`, `RefundAfterFailure`, `Finish` are the happy and the
failing continuations, `RefundAfterTimeout` and the `...Fails` actions the exits by a
timeout or a panic, `OutOfGasAtBuiltin` with `CriticalHook` the exhausted gas. A reply hook
(`DepositReply`, `BridgeReply`, `ReturnReply`) is an action of its own, because the
program runs it when the reply arrives, before or after the waiting execution gave
up. `HandleInterruptedTransfer` may be called by anyone at any time. The token program
and the built-in actor (`VftDeposit`, `BuiltinQueue`, `VftReturn`) are external: they succeed,
refuse or fail.

History variables: `succeeded` (requests that replied Ok), `timedOut` (requests whose
reply from the built-in actor timed out), `overlapped` (requests recovered while
they were being served).

### Bridge, and the refinement

`Bridge` is the promise without the program: a ledger of what was deposited, queued,
refunded and confirmed. Its two excuses are explicit: a request is late once the
program stopped waiting for the built-in actor, and contested once a recovery was
called while it was served. `Ledger == INSTANCE Bridge WITH ...` reads the ledger off the
calls that were performed; `ImplementsBridge == Ledger!Spec`. It covers what were separate
properties before: no refund without a deposit, none after a confirmation, one
unless contested, and bridged and refunded only when late.

### SubmitReceipt

A receipt's key is the pair (slot, transaction index); only its order matters, so
it is a natural number. `submit_receipt` checks and sends, `VftPayout` is the token program,
`HandleReply` the hook that records and evicts, `HandleReplyPanics` its failing form.
`raced` records that a submission was accepted while the call of another was
outstanding.

### EthereumContracts

One action is one transaction that does not revert. The plonk verifier accepts the
public inputs of `Provable` pairs, with the block number reduced modulo `BLOCK_WRAP` as
the code reduces it to 32 bits; a Merkle proof accepts the leaves of the root.
`requested` and `delivered` are the emitted events. A proxy is changed by a governance message
while `ProxyUpdater` is its admin. After a handover its new admin calls `ProxyContract`
directly (`UpgradeByAdmin`, `ChangeAdminByAdmin`), whether or not the relayer is stopped, and may
hand it back; `ProxyFollowsItsAdmin` says that nothing else changes a proxy.

### LightClient

A block, its header and its hash are its slot; the committee of a period is the
period. An update says which block it finalizes, which header attests it, when it
was signed and whether it brings the next committee. `SyncUpdate` and `ReplayBackStart`
are the executions up to the await, `ApplySyncUpdate` and `ApplyReplayBackStart` what they
write afterwards: `verify` only depends on what was read, so its result is computed
at the start. `ReplayBackProcess` handles a batch of headers. `Fail` is an error of the
BLS built-in actor or exhausted gas. A header that is not the parent of the last
one ends a batch in the code, so a wrong batch behaves as a shorter one.

History variables: `raced` (a verification was applied after the header had moved),
`skipped` (the header entered a period without its committee), `mixed` (`SyncUpdate` ran
during a replay).

### MerkleRootRelayer

`pc` is the step of the main loop: sync the authority sets (`InSync`, `ProveGenesis`,
`StartProving`, `ProveValidatorSetChange`), seal the eras that ended (`TrySeal`, `SkipEra`,
`SealEra`, `Sealed`), visit the transactions of sealed eras (`TryFinalizeEra`,
`ErasProcessed`), submit the root of the head (`SkipRoot`, `StartRoot`, `SubmitRoot`) and
watch its transaction (`TryFinalizeRoot`). The loop awaits a node or the prover between
what it reads and what it does, and both chains advance meanwhile: it is split there
and `seen` keeps what was read. Eras are pushed in ascending order, each once, so the
vector of eras awaiting finalization is a function of the era. `MainLoopError` is the
failure of any call; `attempts` counts iterations and, as in the code, is never reset,
so the loop survives errors only in its first `MAX_RETRIES - 1` iterations and exits at
the first one after that. `SaveError` is a proof kept in memory while writing the files of
all proofs failed at one of them, `Crash` a stop at any point, `Restart` a new process that has only the files.
An era whose proof is not in the storage (the genesis set's) cannot be sealed: only
`MainLoopError` is left, as in the code.

External: Gear finalizes blocks (`FinalizeBlock`), Ethereum finalizes, fails or forgets
transactions (`EraTx`, `RootTx`), and somebody else may relay a root (`OthersRelay`). A
finality proof may be for any later block of the same session. `base` is a history
variable: `last_sealed` when the process started.

### CheckpointRelayer

Extends `LightClient` and replaces its free environment by the relayer: the calls to the
program are `LightClient`'s actions, sent one at a time and awaited. `Receive` is the task
that polls the beacon node and fills the channel, `Work` the relayer's steps (first
update, replay, main loop), `ReplayStep` the batches of a replay, with the slot ranges
computed as `SlotsBatchIter` does and missing slots dropped; a batch that does not connect to
the program's last header (`Connected`) is taken without effect. `CallFails` and `Interrupted` end the
process, `Restart` starts another, which finds a replay in progress in the program.

`relayer` is the execution in the program that serves the current process. A process that
ends while its call waits for the BLS built-in actor leaves the call behind: the program
still applies it, or fails, at any later time (`AbandonedCallEnds`), while the next process
calls beside it. Both may have been verified from the same header, and then the second one
that is applied is stale and `raced` is set. Calls of one account are taken in the order
in which they were sent, so nothing else is overtaken.
`Beacon[i]` is what the node answers at time i; it returns at most
`MAX_REQUEST_LIGHT_CLIENT_UPDATES` updates at once.

`CannotResume` is an exit that the code has and nothing leaves again. A replay that was
interrupted in its last interval stays in the program. When the relayer starts again
and is close enough to the head, it sends an ordinary sync update, which passes the
replay's header without ending the replay. Once the relayer is started at
`MAX_EPOCHS_GAP` epochs or more behind, it resumes that replay, no batch leads back from
it to the checkpoints, and every later start ends in the same way. `LightClientFollows`
promises nothing once `mixed` recorded the update during the replay, nor once a stale
verification was applied: without this excuse TLC finds the overtaken call.

### GearToEthRelayer and EthToGearRelayer

Every task and every channel between tasks is a variable or an action; a task that
takes an item and then fails loses the item, restarts its loop from its own start
(`RestartBlock`), and ends at `MAX_RETRIES`; the channel it writes then closes and the
tasks behind it end. `mode` is the form of the relayer: paid, all messages, or
manual. In `GearToEthRelayer` the accumulator is modelled with its two bounded sorted
vectors (`Find`, `Drain`, `AddRoot`), the pop of the oldest root and the panic when an older one
is inserted into a full vector. In `EthToGearRelayer`, `waiting` is the vector that the sender
walks from its end, `forgotten` the checkpoint that it knew before an error; `FeesIn` are the
transactions that also paid the fee, the only ones the paid relayer takes up.

A message leaves `GearToEthRelayer` once as long as the extractor of payments runs. After
it has ended (`Repeats`), the Gear block listener cannot send a block to it, but has
already sent the block to the extractor of messages; it does not advance
`current_block` and sends the same block again. A second payment of a message in that
block then releases the message a second time, so `RelayedOnce` excludes this. On
Ethereum the nonce is processed once all the same.
External: both chains, whose contents are constants and whose heads advance, and
other relayers.

### KillSwitch and ApiProvider

`Loop` is one step of the main loop (fetch a range, compare its events one by one,
prove, submit, wait for the transaction), `Archive` the task that stores
justifications, `Provide` the provider of connections, which answers requests of an old
session with the connection it has. Errors count towards the end of the process;
`Crash` and `Restart` keep only the archive. `late` is a history variable: wrong roots whose
justification was not archived when their Ethereum block became final.

### ProofStorage

The program (`Refused`, the handler), the queue of its messages, the cache and the sending
task of `GearProofStorage` with pending and submitted messages, and the events it reads.
The condition of the resend is the code's: a message is resent while its timeout has
*not* passed. The program refuses what is out of order or second in a block, so
proofs stay readable although messages are sent twice.

### VftManagerAdmin

`update_vfts` and `upgrade` are split at each awaited reply. `update_vfts` iterates over the live
map, so whether it meets an entry that changed meanwhile is a choice of the model.
Nothing in the code keeps a second `update_vfts` or `upgrade` from being called while one runs, so
`update` and `upgrade` are functions of the message id. A transfer that another upgrade has
already made is refused and ends the call.
`disturbed` and `arrived` record that the map changed, or tokens came, during an operation.

### HistoricalProxy

A redirect is three actions: choose the endpoint and call `eth-events`, which checks the
proof against the light client (`CheckProofs`), call the client, take its reply. Users
submit any block and any set of headers, made-up ones included, and any receipt under any
index: of another block, of a failed transaction, or of none. `ReceiptProven` is the trie proof:
the block's receipts root commits to that receipt under that index.

### GearClient

One iteration of a search loop is one step; `Finalize` interleaves. `NoEnd` describes the
calls that the code does not end: a set that is not finalized yet, and a search for an
era's first block that starts from that very block (the loop only looks below it).

### The circuits

The circuits are scaled down and keep the relations that the code relies on: a word
of 2 bits and a field of B² − B + 1 elements for 32 bits and Goldilocks, a modulus of
5, a complete Edwards curve over 13 elements with a subgroup of order 5, bytes of 4
bits, digests of 3 bytes, two sets of four validators. A row, chain or proof is filled
either by the generator (what `run_once` computes) or by any values: soundness
quantifies over the second, completeness over the first. What a lower layer is shown
to do, the next one uses: `BigUint` takes rows to compute what `AcceptedRowsCorrect` says,
`EdCurve` works on residues. Hashes are injective on the instance. A signature's points and
public key are encodings (`PointCompress`), which the native code decompresses and the circuit
takes as the encoding of a witness (`Decompresses`).

Observations about the code that the models carry: the addition generator
leaves a sum equal to the modulus unreduced (`RejectedOnlyUnreduced` is what remains true);
the parser of compact integers excludes mode 4, which does not exist, so that mode 3 is read as
four bytes; and `curve_scalar_mul_windowed_part` returns n·p + 2^bits·q_init, where its comment
says n·p + q_init, which the two halves of `curve_windowed_mul_mt.rs` rely on. Two more bear on
what the proofs of the circuits mean:

* `GenericBlake2` asserts that the padding is zero in the blocks that it hashes, not in the rest of
  the data, although its comment promises it for all. A set that ends before the last
  possible block can therefore be followed by keys of the prover's choice, and
  `IndexedValidatorSign` does not compare the index with the number of validators. The run
  `padding_is_zero` shows a signature counted over such a set. `zeroPadded` records it, and what
  `FinalProofGenuine` says about final blocks it says for zero padding only; that a proof fixes
  the root it stores does not depend on it.
* `point_decompress` of the signature circuit asserts neither that its witness is on the curve
  nor that its coordinates are reduced. `MultiplicationsAgree` compares circuit and native check
  for witnesses that are reduced points of the curve, among them what the generator fills in,
  and makes no claim about others.

`submitMerkleRoot` takes a `uint256` and the public inputs keep 32 bits of it: a proof stores its
root under every number that agrees in those bits, which `FinalProofGenuine` states.
`Storable` ranges over numbers of `NumberBits` bits, more than `InputBits`, for this reason.

## Runs

| run | result | shows |
|---|---|---|
| `request_bridging` | pass | `NoStuckFunds`, `ImplementsBridge`, and under fairness `EventuallySettled` |
| `refund_once` | violation of `RefundOnce` | the recovery entry point accepts the status of a refund in flight and refunds again |
| `paid_once` | violation of `PaidOnce` | two submissions of one receipt in flight together are both paid |
| `ethereum_contracts` | pass | `DeliveredAreProven`, `LedgerMatchesEvents`, `StopIsFinal` |
| `light_client` | pass | `CommitteesMatchUnlessDisturbed`, `LookupIsExact`, `NoGapBetweenCheckpoints` |
| `checkpoint_relayer` | pass | `EntersPeriodsWithCommittee`, and under fairness `LightClientFollows` |
| `merkle_root_relayer` | pass | `SealedErasCovered`, `SealsEndedEras`, `FinalizedRootIsRelayed`, and under fairness `EndedErasRelayed` |
| `gear_to_eth_relayer` | pass | `RelayedUnderCoveringRoot`, `NoCoveredMessageWaits`, `RelayedOnce`, and under fairness `MessagesRelayed` |
| `eth_to_gear_relayer` | pass | `EventsAccounted`, and under fairness `EventsProcessed` |
| `services` | pass | `WrongRootsNotPassed`, `KillSwitchFires`, `ProofsReadable`, `PaidOnceUnlessRaced`, `RefusedStaysRefused`, `TokenMapsAgree`, `UpgradeLeavesNothing`, `DeliveredAreCanonical`, `SearchFinds`, `SearchEnds` |
| `circuits` | pass | `AcceptedRowsCorrect`, `GeneratedRowsAccepted`, `ChainComputesResidue`, `RejectedOnlyUnreduced`, `MultiplicationsAgree`, `InclusionSound`, `ClientProofAccepted`, `FinalProofGenuine`, `DistinctPreCommitsSuffice` |
| `padding_is_zero` | violation of `PaddingIsZero` | the padding behind the hashed blocks of a validator set is the prover's choice |

Properties that are only proved, and not repeated by a run: `NoRefundWithoutDeposit`,
`SuccessIsFinal`, `BridgedAndRefundedOnlyAfterTimeout`, `RefundOnceUnlessOverlapped`, `HistoryBounded`,
`OnlyPaidAreRemembered`, `RootsAreProven`, `RootNeverReplaced`, `ProxyFollowsItsAdmin`, `ProofsFormChain`,
`ProvedByCheckpoint`, `ProofsAreOfFinalBlocks`.

Where the code leaves the good case, the property says so and the condition is
a variable that the actions set: `CommitteesMatch` fails without `raced`, `skipped`, `mixed`
(an update that enters a period without its next committee leaves committees that
verify nothing any more); relaying with `--start-authority-set-id` n starts with the
era after n, since n counts as the last sealed one; `MessagesRelayed` and `EventsProcessed`
except what a failed extractor lost, an evicted root, an ended task, or a checkpoint
forgotten after an error.

Bounds, and why they are enough:

* `request_bridging`: one request of a Gear-supply token, whose calls have the larger
  set of replies, and two recoveries. Requests share nothing but `is_paused`, so a
  second one adds no new interleaving of a tracker entry; two recoveries are what
  is needed for a recovery to race the request and another recovery.
* `ethereum_contracts`: block numbers wrap at 4, so blocks 1 and 5 share their public
  inputs; a block with two provable roots raises the stop; a zero root; tokens of
  both supplies; two governances, a handover to an admin that changes the proxy and may give
  it back; messages in more than one tree, and two that share a nonce.
* `light_client`: two slots per epoch and three epochs per period, blocks missing at
  two epoch boundaries, four finalized blocks over three periods, two executions
  at a time, batches of at most `MAX_BATCH` = 2 headers, a ring buffer of three, which
  wraps. `MAX_EPOCHS_GAP` is 3, so both the direct update and the replay are taken.
* `merkle_root_relayer`: seven blocks, four authority sets that change at blocks 2, 4
  and 5, empty queues at some of them, two iterations before an error is final, started
  without an argument or with 0. So two eras are pending together, one is skipped,
  a set changes between two reads, and the process exits and restarts in every step.
* `checkpoint_relayer`: the sizes of `light_client`; the program is at slot 7 of period 1
  and the beacon node gives six answers. It knows period 2 at first, so the relayer
  starts with a replay, of two intervals of several batches if it starts later; it
  finalizes a block of period 3 before it has that period's update, with it and past
  it; a relayer that starts at the end is three periods behind and gets two updates
  at a time. Two calls fail, in any step, so a replay is interrupted, passed and
  found again. Three executions in the program: two that ended processes left and
  the current one.
* `gear_to_eth_relayer`: three messages in two blocks of two authority sets, one paid
  twice and one paid before it is queued, roots of blocks 1, 4 and 3 in this order,
  accumulators of size 2, one failing call (`MaxFailures`) anywhere, two attempts.
* `eth_to_gear_relayer`: three transactions in two Ethereum blocks, one of an
  unsupported token, a light client that has no checkpoint at first and gets two;
  one failing call, three attempts, so that the rejected resubmission also happens.
* `services`: three Ethereum and Gear blocks with two wrong roots, one of which may be
  archived in time; three authority sets and three messages to the program; a history
  of two with four submissions of four receipts, so that it fills, evicts twice, and an
  evicted receipt is submitted again; two tokens replaced or exchanged, two calls of an
  admin, which may overlap; a chain of three blocks with an empty slot and two made-up
  blocks, four receipts, one of a failed transaction and one that no block has, under two
  indices; all chains of nine blocks with at most three
  sets, which covers every position of an era's first block in the search.
* `circuits`: every input of every gate; all chains of two operations; every point and
  scalar; signatures over every encoding of `CoordinateBits` + 1 bits, canonical or not, with
  the scalars of `VerifyScalars`, zero and one beyond the order of the group among them; every
  storage made of five items that differ in length, prefix and kind,
  with block numbers of all three compact lengths and branches of up to `MaxBranchBlocks`
  hash blocks (5 in the code; genuine ones are shorter in both); sets with one faulty member of
  four each, and a set of faulty members only; contract numbers of four bits over inputs
  of two.

Systems that may really stop (a chain that advances no more, a relayer whose tasks
have ended, a proof that is composed) do not check deadlock.

Fairness. `EventuallySettled` assumes weak fairness of the message queue: sent messages
are processed, replies delivered and suspended executions woken, as the Gear runtime
does; recovery calls, pausing and failures are not assumed to happen.
`LightClientFollows` assumes that the receiver polls and the relayer goes on, that an operator
restarts it, and that the beacon chain finalizes; nothing keeps a call from failing
a bounded number of times. `MessagesRelayed` and `EventsProcessed` assume that the runtime polls
the tasks (weak fairness of `Work`, which contains no failure), and the second that Gear
finalizes blocks, since a checkpoint is read once per block. `KillSwitchFires` assumes that the
main loop and the provider are scheduled, and `SearchEnds` that the node answers.
`EndedErasRelayed` assumes weak fairness of the main loop, which is a task that is polled
while the process runs (an error of a call is among its steps, so success is not
assumed), and strong fairness of an era's transaction being finalized: Ethereum does
not fail or lose it forever. It promises nothing once the process exits.

## Proofs

Each proof module extends its component, strengthens the properties to an inductive
invariant `IInv`, shows that `Init` implies it and every action keeps it, one lemma
per action, and derives the listed theorems. Nothing is assumed but the named
`ASSUME`s on the constants, which TLC evaluates in the runs.

* `RequestBridgingProofs`: `IInv` ties together, for each request, the status, the point
  of suspension and the three calls (`TaskInv`, `StatusInv`), who may have sent a refund
  (`RefundInv`) and, without overlap, that at most one was not refused (`OneRefundInv`).
  The five safety properties follow from it and are not inductive alone: a hook acts
  on the status only, so what a status says about the outstanding calls is needed.
  `RefinesBridge` maps every step to a step of the ledger or a stutter. `IInv` gives the
  guards of the ledger's actions; the ledger counts refunds, so the set of tasks that
  refunded has to be finite, which is an invariant of its own (`RefundsFinite`).
* `EthereumContractsProofs`: stored roots are proven, delivered messages are leaves of
  proven roots and exactly the delivered nonces are marked; the action properties
  follow from the guards that test the stop, the stored root and the proxy's admin:
  `ProxyObeysItsAdmin` names, for every change of a proxy, the proven message or the admin's call.
  `LedgerAddsUp` is about sums over the delivered messages: the fold chooses its elements
  in an order of its own, so the proof first shows that adding one message to a finite
  set adds its amount to the fold, whatever the order.
* `LightClientProofs`, committees: a pending verification, or one kept by a replay, that
  carries a committee carries the one after the finalized period, and that period
  follows the one it was verified from. So whatever is written keeps header and
  committees in step, unless one of the three disturbances was recorded.
* `LightClientProofs`, checkpoints (`CheckpointInv`): without a stale verification the stored
  slots ascend to the finalized header, the buffer's start is where the oldest one
  is, and a replay's slots descend from the header that it will finalize. `LookupsAreExact`
  follows for the search in the two parts of the rotated buffer. `NoGaps` has a hypothesis on
  the chain, `EpochsHaveBlocks`: the gap limit is at least 3 and there is a block within
  every `SLOTS_PER_EPOCH` slots. Without it the code promises nothing: the headers between
  two checkpoints do not exist.
* `LightClientProofs`, relayer (`RInv`): as long as no stale verification was applied, three things
  hold. Every update that the relayer holds was answered by the beacon node: it brings a
  committee, or its period was seen with a finality update ahead of the best one
  (`UpdatesInv`, `Known`, `Witness`). Every call that waits in the program, of the current process
  or of an ended one, writes the committee after the period that it enters from the header at
  which it was verified, or there is such a witness (`CallsInv`, `Brings`). And what a replay will
  write was verified at the stored header or at an earlier one (`BehindInv`). So a step that moves
  the header into another period brings that period's committee or had a witness; the order
  of the checkpoints and of a replay's headers comes from `CheckpointInv`. Once `raced` is set
  nothing is claimed, which is also what makes the invariant hold beside abandoned calls.
* `MerkleRootRelayerProofs`: what was read before an await stays valid while the chains
  advance (`SeenInv`: a set to prove is not passed and not beyond the head, an era to
  seal has ended), and a transaction known as finalized has its root in Ethereum's
  state (`TxInv`). With these the four safety properties are inductive, for every
  chain of authority sets in which a set is followed by the next.
* `GearToEthRelayerProofs`: `RootInv` follows a root from Ethereum's block through the
  channels into the accumulator, `PaidInv` a nonce from its payment, and `OnceInv` says that
  a message, or the block that still holds it, is in one place of the pipeline at a
  time. The accumulator keeps no message that a root in it covers because both `Find`
  and `Drain` run whenever one side grows.
* `EthToGearRelayerProofs`: every event of a block that was read is in a channel, in the
  sender's vector, processed, or recorded as lost or unsupported (`EventsAccounted`); the sender's
  index stays within the vector (`SenderInv`), so it removes what it has submitted; and
  the checkpoints on their way only trail the program's (`CheckpointInv`), so nothing is
  submitted before its checkpoint.
* `ServicesProofs`: the history of receipts is a set of paid keys, it stays finite and
  bounded, and a paid key that is not in it is smaller than all that are, while the
  history is full (`ReceiptInv`); `update_vfts` keeps both the old pair of maps and the pair it builds inverse
  (`TokenInv`); `upgrade` knows of every token either that it is moved or that it comes later;
  what a search has found is a block of the asked set; the wrong roots
  of the kill switch's current range are still to be compared, or their justification
  was not archived in time, so no error or restart passes one it could act on; the headers
  that `eth-events` accepts lead from a block of the light client down to the claimed one
  by induction along the chain (a fold over finite sets), and the receipt is the block's own; and the program's map of
  proofs is an interval of set ids whose recorded blocks identify them.
* `CircuitsProofs`, gates: for any number of limbs, limb width, chunk width and number of
  copies, every row that the constraints accept is correct and every row that a
  generator fills is accepted. `GatesInv` says that the row, however it was filled,
  holds values of the field in all its wires and, if a generator filled it, is accepted;
  the work is in the lemmas: limbs in their range are the digits of one number, so the recombined sum
  is an equation of integers below the field order and not only of residues (this is
  where `B * CarryBase <= P` is needed, and, for a product, the check that the combined
  output is canonical); in a comparison the most significant chunk that differs
  decides, and the field's inverses make the test for equality of two chunks exact.
* `CircuitsProofs`, finality: a chain of signatures counts no more than the positions,
  up to its last index, whose keys signed (`SignsInv`, the order check makes each index
  count once, and with zero padding only members have one); more than two thirds of a set of the history contain a key that is not
  faulty, which precommits only for final blocks (`FinalInv`); and the storage of a final
  block leads to the next set of the history (`LatestInv`). The chain starts at the genesis
  constant, so the induction is along the chain of proofs. `FinalProofsAreGenuine` adds
  that the public inputs determine the root and the number modulo 2^32: each input is a number
  whose digits to the base 2^32 are the packed values, and digits are unique. `ProverNeedsTwoThirds` shows
  that the prover never gets a proof without the votes of more than two thirds of the set, and
  always gets one from such votes if no pre-commit is repeated (`OutcomeInv`): the prover sorts
  what it takes, the rank of an element places it, and the indices ascend strictly exactly
  when they are distinct.
* `CircuitsProofs`, arithmetic modulo another prime: for any order of the other field, any
  word and any length of a chain. Each operation on limbs is shown to compute on
  values (`AddIs`, `SubIs`, `MulIs`, `CmpIs`, `ConnectIs`, `DivRemIs`): carries move up the columns, the
  value of a product is the sum of its rows, and a comparison of limbs is one of
  values. Then the constraints of each row are an equation of integers, from which soundness
  (the limbs stand for the residue, for every witness) and completeness (what the generator writes
  satisfies it when the operands are reduced) follow. `sub_biguint` drops its last borrow: that a
  subtraction with a borrow cannot satisfy its row is a case of its own in `SubNonnativeIs`.
  `NNInv` keeps the operand an element in its limbs, which bounds the values that the next row reads.

Loops and folds are proved where a least counterexample among the naturals gives the
induction; the models write them as recursive functions, whose existence is a lemma
(`RecursionIn`).

What is assumed of the constants is what the code or the chain guarantees: balances
and amounts are natural numbers (`uint256`; overflow reverts), finality of both chains
only advances, an update that the beacon node returns for a period brings a committee
and does not finalize past the finality update, a chain has finitely many messages, less
than a third of an authority set is faulty and a final block names the set after its
own, a root and a block number fill one public input and a part of a second one, the
widths of words, limbs and chunks are related as in the code's gates and stay below the
order of the field, every element of a field but zero has an inverse, and a placeholder such as `None` is not a value of the kind it stands for.

Only model-checked:

* liveness: `EventuallySettled`, `LightClientFollows`, `EndedErasRelayed`, `MessagesRelayed`, `EventsProcessed`,
  `KillSwitchFires`, `SearchEnds`;
* `MultiplicationsAgree`: that several ways to multiply a point agree for every curve rests on
  the associativity of its addition, an identity of polynomials that the provers do not
  find; TLC checks it for every point and scalar of the instance;
* `InclusionSound` and `ClientProofAccepted`: `StorageInclusion` builds and parses tries with recursive operators,
  about which nothing can be proved here.

## Not modelled, and the plan

Left out for good:

* the plonk verifier, hash functions, field arithmetic, the plonky2 and gnark back ends
  and the constants of Poseidon: cryptography, or code without a decision to check. Recursion
  is assumed to be ideal: a proof that a circuit verifies was made by the circuit that the
  code builds for it. For the cyclic proofs this includes that the verifier data among their
  public inputs are the circuit's own, which `ValidatorSignsChain::prove`, `FinalProof::prove` and the
  chains of trie nodes do not compare with anything;
* the ECDSA curve code of `plonky2_ecdsa`, which the bridge does not use, beyond the big
  integers that both curves share;
* `bridging-payment` (program and contract): a comparison with the fee and an event; the
  token relayers see its events as constants;
* the token programs, beyond what the manager observes of them;
* RPC wrappers of the clients, indexer, frontend, deployment tools and metrics.

Left out of `MerkleRootRelayer`: a file torn in the middle of a write. Left out of
`EthToGearRelayer`: how the sender composes a proof from beacon headers; it is proved or
failed.

Planned: the composition of a receipt proof (slot search, headers up to the checkpoint,
with the checkpoints of `LightClient` advancing meanwhile) in front of `HistoricalProxy`.
