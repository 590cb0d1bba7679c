---------------------------- MODULE EthToGearRelayer ----------------------------
(****************************************************************************)
(* The Ethereum -> Gear token relayer: tasks connected by channels.          *)
(*                                                                           *)
(*   eth_listener  -> events      -> sender                                  *)
(*   gear_listener -> checkpoints ---^                                       *)
(*                                                                           *)
(* The sender keeps a transaction until the light client has a checkpoint    *)
(* for its slot, proves it and submits it through the historical proxy to    *)
(* vft-manager, which takes every transaction once, whoever submits it.      *)
(* What the blocks of both chains hold is constant; the heads tell how much  *)
(* of it is finalized.                                                       *)
(****************************************************************************)
EXTENDS Naturals, Sequences, SequencesExt

CONSTANTS Txs,                \* transactions that deposit
          Unsupported,        \* deposits of a token that vft-manager does not map
          EventsIn,           \* deposits of an Ethereum block
          FeesIn,             \* those that also paid the relayer's fee
          SlotOf,             \* slot of a transaction's block
          CheckpointAt,       \* the light client's last checkpoint at a Gear block, or 0
          LastGear, LastEth,  \* bounds: the last finalized blocks
          Modes,              \* which of the relayers runs
          MAX_RETRIES,        \* common::MAX_RETRIES
          MaxFailures         \* bound: calls that fail

GearBlocks == 1..LastGear
EthBlocks  == 1..LastEth

ASSUME ChainAssumption ==
    /\ Unsupported \subseteq Txs
    /\ LastGear \in Nat \ {0} /\ LastEth \in Nat \ {0}
    /\ EventsIn \in [EthBlocks -> Seq(Txs)] /\ FeesIn \in [EthBlocks -> Seq(Txs)]
    /\ \A e \in EthBlocks : ToSet(FeesIn[e]) \subseteq ToSet(EventsIn[e])
    /\ SlotOf \in [Txs -> Nat \ {0}]
    /\ CheckpointAt \in [GearBlocks -> Nat]
    /\ \A b, c \in GearBlocks : b <= c => CheckpointAt[b] <= CheckpointAt[c]
    /\ Modes \subseteq {"paid", "all", "manual"}
    /\ MAX_RETRIES \in Nat \ {0}

VARIABLES mode,               \* paid_token_transfers, all_token_transfers or manual
          gear_head, eth_head,
          gear_next, eth_next,            \* current_block of the listeners
          gear_blocks, eth_blocks,        \* channels of block numbers
          latest_checkpoint,  \* CheckpointsExtractor, 0 for None
          events, checkpoints,            \* channels into the sender
          waiting,            \* MessageSender.waiting_checkpoint
          latest,             \* latest_checkpoint_slot of run_inner, 0 for None
          cursor,             \* the index that the submitting loop has come to
          processed,          \* transactions that vft-manager has processed
          running, attempts, failures,
          lost,               \* history: transactions whose block an extractor dropped
          forgotten           \* history: the checkpoint known before the last error

chains    == <<mode, gear_head, eth_head>>
listeners == <<gear_next, eth_next, gear_blocks, eth_blocks>>
channels  == <<events, checkpoints>>
sender    == <<waiting, latest, cursor>>
tasks     == <<running, attempts, failures>>
history   == <<lost, forgotten>>
vars == <<chains, listeners, latest_checkpoint, channels, sender, processed, tasks, history>>

Tasks(m) ==
    {"gear_listener", "checkpoints", "sender"}
        \cup (IF m = "manual" THEN {} ELSE {"eth_listener", "events"})

\* The tasks that give up after MAX_RETRIES failures.
Counting == {"eth_listener", "events", "sender"}

\* The paid relayer follows FeePaid events, the other one deposits.
Found(e) == IF mode = "paid" THEN FeesIn[e] ELSE EventsIn[e]

\* The relayer starts at the finalized heads; the manual one with a given transaction.
Init ==
    /\ mode \in Modes
    /\ gear_head = 1 /\ eth_head = 1
    /\ gear_next = 1 /\ eth_next = 1
    /\ gear_blocks = <<>> /\ eth_blocks = <<>>
    /\ latest_checkpoint = 0
    /\ IF mode = "manual" THEN \E t \in Txs : events = <<t>> ELSE events = <<>>
    /\ checkpoints = <<>>
    /\ waiting = <<>> /\ latest = 0 /\ cursor = 0
    /\ processed = {}
    /\ running = Tasks(mode)
    /\ attempts = [t \in Counting |-> 0]
    /\ failures = 0
    /\ lost = {} /\ forgotten = 0

--------------------------------------------------------------------------------
(* Failures *)

\* A task counts an error, then reconnects and goes on, or ends.
Retry(t) ==
    /\ attempts' = IF t \in Counting THEN [attempts EXCEPT ![t] = @ + 1] ELSE attempts
    /\ \/ running' = running \ {t}
       \/ /\ t \in Counting => attempts[t] + 1 < MAX_RETRIES
          /\ UNCHANGED running

\* A call to a node fails.
CallFails(t) ==
    /\ t \in running
    /\ failures < MaxFailures
    /\ failures' = failures + 1
    /\ Retry(t)

Stop(t) == running' = running \ {t} /\ UNCHANGED <<attempts, failures>>

--------------------------------------------------------------------------------
(* BlockListener of Gear and of Ethereum *)

Blocks(first, last) == [i \in 1..(last + 1 - first) |-> first + i - 1]

GearListener ==
    /\ {"gear_listener", "checkpoints"} \subseteq running
    /\ gear_next <= gear_head
    /\ gear_blocks' = gear_blocks \o Blocks(gear_next, gear_head)
    /\ gear_next' = gear_head + 1
    /\ UNCHANGED <<chains, eth_next, eth_blocks, latest_checkpoint, channels, sender,
                   processed, tasks, history>>

GearListenerFails ==
    /\ CallFails("gear_listener")
    /\ UNCHANGED <<chains, listeners, latest_checkpoint, channels, sender, processed, history>>

EthListener ==
    /\ {"eth_listener", "events"} \subseteq running
    /\ eth_next <= eth_head
    /\ eth_blocks' = eth_blocks \o Blocks(eth_next, eth_head)
    /\ eth_next' = eth_head + 1
    /\ UNCHANGED <<chains, gear_next, gear_blocks, latest_checkpoint, channels, sender,
                   processed, tasks, history>>

\* Mutant of RestartBlock: the listener goes on after the finalized head.
RestartBlockAtHead == eth_head + 1

\* run_inner starts again with its own current_block.
RestartBlock == 1

\* Every block that was listened to comes again.
EthListenerFails ==
    /\ CallFails("eth_listener")
    /\ eth_next' = RestartBlock
    /\ UNCHANGED <<chains, gear_next, gear_blocks, eth_blocks, latest_checkpoint, channels,
                   sender, processed, history>>

--------------------------------------------------------------------------------
(* DepositEventExtractor, MessagePaidEventExtractor, CheckpointsExtractor *)

\* An event for a sender that has ended is an error.
ExtractEvents ==
    /\ "events" \in running
    /\ eth_blocks # <<>>
    /\ "sender" \in running \/ Found(Head(eth_blocks)) = <<>>
    /\ events' = events \o Found(Head(eth_blocks))
    /\ eth_blocks' = Tail(eth_blocks)
    /\ UNCHANGED <<chains, gear_next, eth_next, gear_blocks, latest_checkpoint, checkpoints,
                   sender, processed, tasks, history>>

\* The events or the slot cannot be fetched: the block is gone from the channel.
ExtractEventsFails ==
    /\ CallFails("events")
    /\ eth_blocks # <<>>
    /\ eth_blocks' = Tail(eth_blocks)
    /\ lost' = lost \cup ToSet(Found(Head(eth_blocks)))
    /\ UNCHANGED <<chains, gear_next, eth_next, gear_blocks, latest_checkpoint, channels,
                   sender, processed, forgotten>>

\* Only a checkpoint newer than the last one is sent on.
ExtractCheckpoint ==
    LET found == CheckpointAt[Head(gear_blocks)] IN
    /\ "checkpoints" \in running
    /\ gear_blocks # <<>>
    /\ "sender" \in running \/ found <= latest_checkpoint
    /\ checkpoints' = IF found > latest_checkpoint THEN Append(checkpoints, found)
                                                   ELSE checkpoints
    /\ latest_checkpoint' = IF found > latest_checkpoint THEN found ELSE latest_checkpoint
    /\ gear_blocks' = Tail(gear_blocks)
    /\ UNCHANGED <<chains, gear_next, eth_next, eth_blocks, events, sender, processed, tasks,
                   history>>

ExtractCheckpointFails ==
    /\ CallFails("checkpoints")
    /\ gear_blocks # <<>>
    /\ gear_blocks' = Tail(gear_blocks)
    /\ UNCHANGED <<chains, gear_next, eth_next, eth_blocks, latest_checkpoint, channels,
                   sender, processed, history>>

--------------------------------------------------------------------------------
(* MessageSender *)

\* The transactions that the loop, which goes down from n, has yet to submit.
Due(n) == {i \in 1..n : SlotOf[waiting[i]] <= latest}

Current == CHOOSE i \in Due(cursor) : \A j \in Due(cursor) : j <= i
Receiving == "sender" \in running /\ Due(cursor) = {}

TakeEvent ==
    /\ Receiving
    /\ events # <<>>
    /\ waiting' = Append(waiting, Head(events))
    /\ events' = Tail(events)
    /\ cursor' = Len(waiting')
    /\ UNCHANGED <<chains, listeners, latest_checkpoint, checkpoints, latest, processed, tasks,
                   history>>

TakeCheckpoint ==
    /\ Receiving
    /\ checkpoints # <<>>
    /\ latest' = IF latest < Head(checkpoints) THEN Head(checkpoints) ELSE latest
    /\ checkpoints' = Tail(checkpoints)
    /\ cursor' = Len(waiting)
    /\ UNCHANGED <<chains, listeners, latest_checkpoint, events, waiting, processed, tasks,
                   history>>

\* waiting_checkpoint.remove(i).
Remaining(i) == RemoveAt(waiting, i)

\* vft-manager pays the deposit, or does not know its token.
Submit ==
    LET i == Current IN
    /\ "sender" \in running
    /\ Due(cursor) # {}
    /\ waiting[i] \notin processed
    /\ processed' = IF waiting[i] \in Unsupported THEN processed
                                                  ELSE processed \cup {waiting[i]}
    /\ waiting' = Remaining(i)
    /\ cursor' = i - 1
    /\ UNCHANGED <<chains, listeners, latest_checkpoint, channels, latest, tasks, history>>

\* Mutant of KeptOnError: the transaction leaves the vector before it is submitted.
KeptOnErrorNot == IF Due(cursor) = {} THEN waiting ELSE RemoveAt(waiting, Current)

KeptOnError == waiting

\* run_inner ends with an error and starts again without a checkpoint.
SenderRestarts ==
    /\ waiting' = KeptOnError
    /\ latest' = 0
    /\ cursor' = 0
    /\ forgotten' = IF latest > forgotten THEN latest ELSE forgotten

\* AlreadyProcessed is an error: the transaction stays and is submitted again.
SubmitRejected ==
    /\ "sender" \in running
    /\ Due(cursor) # {}
    /\ waiting[Current] \in processed
    /\ Retry("sender")
    /\ SenderRestarts
    /\ UNCHANGED <<chains, listeners, latest_checkpoint, channels, processed, failures, lost>>

\* The balance or the proof cannot be fetched, or the reply does not come: then the
\* transaction may have been processed.
SenderFails ==
    /\ CallFails("sender")
    /\ SenderRestarts
    /\ \/ UNCHANGED processed
       \/ /\ Due(cursor) # {}
          /\ waiting[Current] \notin Unsupported
          /\ processed' = processed \cup {waiting[Current]}
    /\ UNCHANGED <<chains, listeners, latest_checkpoint, channels, lost>>

\* A channel is closed and empty.
SenderEnds ==
    /\ Receiving
    /\ \/ events = <<>> /\ "events" \in Tasks(mode) \ running
       \/ checkpoints = <<>> /\ "checkpoints" \notin running
    /\ Stop("sender")
    /\ UNCHANGED <<chains, listeners, latest_checkpoint, channels, sender, processed, history>>

--------------------------------------------------------------------------------
(* External: the chains, and other relayers *)

FinalizeGear ==
    /\ gear_head < LastGear
    /\ gear_head' = gear_head + 1
    /\ UNCHANGED <<mode, eth_head, listeners, latest_checkpoint, channels, sender, processed,
                   tasks, history>>

FinalizeEth ==
    /\ eth_head < LastEth
    /\ eth_head' = eth_head + 1
    /\ UNCHANGED <<mode, gear_head, listeners, latest_checkpoint, channels, sender, processed,
                   tasks, history>>

OthersSubmit(t) ==
    /\ SlotOf[t] <= CheckpointAt[gear_head]
    /\ t \notin processed \cup Unsupported
    /\ processed' = processed \cup {t}
    /\ UNCHANGED <<chains, listeners, latest_checkpoint, channels, sender, tasks, history>>

Work ==
    \/ GearListener \/ EthListener
    \/ ExtractEvents \/ ExtractCheckpoint
    \/ TakeEvent \/ TakeCheckpoint \/ Submit \/ SubmitRejected

Next ==
    \/ Work \/ SenderEnds
    \/ GearListenerFails \/ EthListenerFails
    \/ ExtractEventsFails \/ ExtractCheckpointFails \/ SenderFails
    \/ FinalizeGear \/ FinalizeEth
    \/ \E t \in Txs : OthersSubmit(t)

Spec == Init /\ [][Next]_vars

\* The runtime polls every task, and a task takes what its channel holds; Gear finalizes
\* blocks, so that a checkpoint missed at one block is seen at the next.
FairSpec == Spec /\ WF_vars(Work) /\ WF_vars(FinalizeGear)

--------------------------------------------------------------------------------
\* No event is forgotten between the tasks: the events of every block that the listener
\* passed are still on their way, processed, refused as unsupported, or lost with a block
\* that an extractor dropped; an error of the sender loses none.
EventsAccounted ==
    "sender" \in running /\ mode # "manual" =>
        \A e \in 1..eth_next - 1 : \A t \in ToSet(Found(e)) :
            \/ e \in ToSet(eth_blocks)
            \/ t \in ToSet(events) \cup ToSet(waiting) \cup processed \cup Unsupported \cup lost

\* In the end every event that a checkpoint covers is processed, unless it was lost, a task
\* has ended, or the sender forgot its checkpoint after an error and no newer one came.
EventsProcessed ==
    <>[](\A e \in EthBlocks : \A t \in ToSet(Found(e)) :
            mode # "manual" /\ e <= eth_head /\ SlotOf[t] <= CheckpointAt[gear_head]
            => \/ t \in processed \cup Unsupported \cup lost
               \/ running # Tasks(mode)
               \/ latest < SlotOf[t] /\ SlotOf[t] <= forgotten)
================================================================================
