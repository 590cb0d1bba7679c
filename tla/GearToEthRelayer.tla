---------------------------- MODULE GearToEthRelayer ----------------------------
(****************************************************************************)
(* The Gear -> Ethereum token relayer: tasks connected by channels.          *)
(*                                                                           *)
(*   gear_listener -> queued, paid -> filter -> accumulator -> sender        *)
(*   eth_listener  -> roots  ------------------^                             *)
(*                                                                           *)
(* Every task awaits its node and its channels, so the tasks interleave at   *)
(* every step.  A call that fails after an item was taken from a channel     *)
(* loses the item; a task that cannot reconnect ends and closes the channel  *)
(* it writes.                                                                *)
(*                                                                           *)
(* A message is its nonce, a Gear block its number.  What the blocks of both *)
(* chains hold is constant; the heads tell how much of it is finalized.      *)
(****************************************************************************)
EXTENDS Naturals, Sequences, SequencesExt

CONSTANTS Messages,           \* nonces of the queued messages
          BlockOf,            \* the Gear block that queues a message
          Signer,             \* signed_by_authority_set_id of a Gear block
          PaidIn,             \* BridgingPaid events of a Gear block
          RootsIn,            \* Gear blocks whose roots an Ethereum block brings
          LastGear, LastEth,  \* bounds: the last finalized blocks
          Modes,              \* which of the relayers runs
          MESSAGES_CAPACITY,  \* Messages::new
          ROOTS_CAPACITY,     \* MerkleRoots::new
          MAX_RETRIES,        \* common::MAX_RETRIES
          MaxFailures,        \* bound: calls that fail
          None                \* no value

GearBlocks == 1..LastGear
EthBlocks  == 1..LastEth

ASSUME ChainAssumption ==
    /\ Messages \subseteq Nat /\ IsFiniteSet(Messages)
    /\ LastGear \in Nat \ {0} /\ LastEth \in Nat \ {0}
    /\ BlockOf \in [Messages -> GearBlocks]
    /\ Signer \in [GearBlocks -> Nat]
    /\ \A b, c \in GearBlocks : b <= c => Signer[b] <= Signer[c]
    /\ PaidIn \in [GearBlocks -> Seq(Messages)]
    /\ RootsIn \in [EthBlocks -> Seq(GearBlocks)]
    /\ Modes \subseteq {"paid", "all", "manual"}
    /\ MAX_RETRIES \in Nat \ {0} /\ ROOTS_CAPACITY \in Nat \ {0}
    /\ None \notin GearBlocks

VARIABLES mode,             \* paid_token_transfers, all_token_transfers or manual
          gear_head, eth_head,
          gear_next,        \* gear_listener: current_block
          eth_next,         \* eth_listener: current_block of run_inner
          blocks, paid_blocks, eth_blocks,   \* channels of block numbers
          messages, paid,   \* channels into the filter
          pending_messages, pending_nonces,  \* PaidMessagesFilter
          filtered, roots,  \* channels into the accumulator
          acc_messages, acc_roots,           \* Accumulator
          out,              \* channel of messages with their roots
          submitted,        \* transactions sent: messages with their roots
          running,          \* tasks that have not ended
          attempts,         \* failures of the tasks that count them
          failures,         \* failures altogether, for the bound
          lost,             \* history: messages that a failure dropped
          lost_roots        \* history: roots that were dropped or evicted

listeners == <<gear_next, eth_next>>
channels1 == <<blocks, paid_blocks, eth_blocks>>
filter    == <<messages, paid, pending_messages, pending_nonces>>
acc       == <<filtered, roots, acc_messages, acc_roots>>
sender    == <<out, submitted>>
tasks     == <<running, attempts, failures>>
chains    == <<mode, gear_head, eth_head>>
losses    == <<lost, lost_roots>>
vars == <<chains, listeners, channels1, filter, acc, sender, tasks, losses>>

Tasks(m) ==
    {"eth_listener", "roots", "accumulator", "sender"}
        \cup (IF m = "manual" THEN {} ELSE {"gear_listener", "queued"})
        \cup (IF m = "paid" THEN {"paid", "filter"} ELSE {})

\* The tasks that give up after MAX_RETRIES failures.
Counting == {"eth_listener", "roots", "sender"}

\* The numbers of S in their order.
ToSeq(S) == [i \in 1..Cardinality(S) |-> CHOOSE x \in S : Cardinality({y \in S : y < x}) = i - 1]

MessagesIn(b) == ToSeq({m \in Messages : BlockOf[m] = b})

\* The relayer starts at the finalized head; the manual one with a given message.
Init ==
    /\ mode \in Modes
    /\ gear_head = 1 /\ eth_head = 1
    /\ gear_next = 1 /\ eth_next = 1
    /\ blocks = <<>> /\ paid_blocks = <<>> /\ eth_blocks = <<>>
    /\ messages = <<>> /\ paid = <<>>
    /\ pending_messages = {} /\ pending_nonces = <<>>
    /\ IF mode = "manual" THEN \E m \in Messages : filtered = <<m>> ELSE filtered = <<>>
    /\ roots = <<>>
    /\ acc_messages = {} /\ acc_roots = {}
    /\ out = <<>> /\ submitted = {}
    /\ running = Tasks(mode)
    /\ attempts = [t \in Counting |-> 0]
    /\ failures = 0
    /\ lost = {} /\ lost_roots = {}

--------------------------------------------------------------------------------
(* Failures *)

\* A task after an error: it reconnects and goes on, or it ends.
AfterError(t) ==
    /\ t \in running
    /\ failures < MaxFailures
    /\ failures' = failures + 1
    /\ attempts' = IF t \in Counting THEN [attempts EXCEPT ![t] = @ + 1] ELSE attempts
    /\ \/ running' = running \ {t}
       \/ /\ t \in Counting => attempts[t] + 1 < MAX_RETRIES
          /\ UNCHANGED running

Stop(t) == running' = running \ {t} /\ UNCHANGED <<attempts, failures>>

--------------------------------------------------------------------------------
(* BlockListener of Gear and of Ethereum *)

GearListener ==
    /\ "gear_listener" \in running
    /\ gear_next <= gear_head
    /\ Tasks(mode) \cap {"queued", "paid"} \subseteq running
    /\ LET new == [i \in 1..(gear_head + 1 - gear_next) |-> gear_next + i - 1] IN
       /\ blocks' = blocks \o new
       /\ paid_blocks' = IF mode = "paid" THEN paid_blocks \o new ELSE paid_blocks
    /\ gear_next' = gear_head + 1
    /\ UNCHANGED <<chains, eth_next, eth_blocks, filter, acc, sender, tasks, losses>>

\* A call fails, or an extractor has ended and its channel is closed: then the block
\* has gone to the extractors before it, and goes to them again after the error.
GearListenerFails ==
    /\ AfterError("gear_listener")
    /\ blocks' = IF /\ gear_next <= gear_head
                    /\ "queued" \in running
                    /\ "paid" \in Tasks(mode) \ running
                 THEN Append(blocks, gear_next)
                 ELSE blocks
    /\ UNCHANGED <<chains, listeners, paid_blocks, eth_blocks, filter, acc, sender, losses>>

EthListener ==
    /\ "eth_listener" \in running
    /\ eth_next <= eth_head
    /\ "roots" \in running
    /\ eth_blocks' = eth_blocks \o [i \in 1..(eth_head + 1 - eth_next) |-> eth_next + i - 1]
    /\ eth_next' = eth_head + 1
    /\ UNCHANGED <<chains, gear_next, blocks, paid_blocks, filter, acc, sender, tasks, losses>>

\* Mutant of RestartBlock: the listener goes on from the finalized head.
RestartBlockAtHead == eth_head + 1

\* run_inner starts again with its own current_block.
RestartBlock == 1

EthListenerFails ==
    /\ AfterError("eth_listener")
    /\ eth_next' = RestartBlock
    /\ UNCHANGED <<chains, gear_next, channels1, filter, acc, sender, losses>>

--------------------------------------------------------------------------------
(* MessageQueuedEventExtractor, MessagePaidEventExtractor, MerkleRootExtractor *)

\* The channel that the queued messages are sent to, and who reads it.
QueuedReader == IF mode = "paid" THEN "filter" ELSE "accumulator"

ExtractQueued ==
    /\ "queued" \in running
    /\ blocks # <<>>
    /\ QueuedReader \in running \/ MessagesIn(Head(blocks)) = <<>>
    /\ LET found == MessagesIn(Head(blocks)) IN
       /\ messages' = IF mode = "paid" THEN messages \o found ELSE messages
       /\ filtered' = IF mode = "paid" THEN filtered ELSE filtered \o found
    /\ blocks' = Tail(blocks)
    /\ UNCHANGED <<chains, listeners, paid_blocks, eth_blocks, paid, pending_messages,
                   pending_nonces, roots, acc_messages, acc_roots, sender, tasks, losses>>

\* The block is taken from the channel and its events are not sent.
ExtractQueuedFails ==
    /\ AfterError("queued")
    /\ blocks # <<>>
    /\ blocks' = Tail(blocks)
    /\ lost' = lost \cup ToSet(MessagesIn(Head(blocks)))
    /\ UNCHANGED <<chains, listeners, paid_blocks, eth_blocks, filter, acc, sender, lost_roots>>

ExtractPaid ==
    /\ "paid" \in running
    /\ paid_blocks # <<>>
    /\ "filter" \in running \/ PaidIn[Head(paid_blocks)] = <<>>
    /\ paid' = paid \o PaidIn[Head(paid_blocks)]
    /\ paid_blocks' = Tail(paid_blocks)
    /\ UNCHANGED <<chains, listeners, blocks, eth_blocks, messages, pending_messages,
                   pending_nonces, acc, sender, tasks, losses>>

ExtractPaidFails ==
    /\ AfterError("paid")
    /\ paid_blocks # <<>>
    /\ paid_blocks' = Tail(paid_blocks)
    /\ lost' = lost \cup ToSet(PaidIn[Head(paid_blocks)])
    /\ UNCHANGED <<chains, listeners, blocks, eth_blocks, filter, acc, sender, lost_roots>>

ExtractRoots ==
    /\ "roots" \in running
    /\ eth_blocks # <<>>
    /\ "accumulator" \in running \/ RootsIn[Head(eth_blocks)] = <<>>
    /\ roots' = roots \o RootsIn[Head(eth_blocks)]
    /\ eth_blocks' = Tail(eth_blocks)
    /\ UNCHANGED <<chains, listeners, blocks, paid_blocks, filter, filtered, acc_messages,
                   acc_roots, sender, tasks, losses>>

\* The hash and the set of each root are fetched in turn: the first n were sent.
ExtractRootsFails ==
    /\ AfterError("roots")
    /\ eth_blocks # <<>>
    /\ eth_blocks' = Tail(eth_blocks)
    /\ LET found == RootsIn[Head(eth_blocks)] IN
       \E n \in 0..Len(found) :
          /\ n > 0 => "accumulator" \in running
          /\ roots' = roots \o SubSeq(found, 1, n)
          /\ lost_roots' = lost_roots \cup ToSet(SubSeq(found, n + 1, Len(found)))
    /\ UNCHANGED <<chains, listeners, blocks, paid_blocks, filter, filtered, acc_messages,
                   acc_roots, sender, lost>>

--------------------------------------------------------------------------------
(* PaidMessagesFilter *)

\* Mutant of Matched: a message stays pending after it was sent.
MatchedKept(msgs, nonces) ==
    [send |-> ToSet(nonces) \cap msgs, msgs |-> msgs, nonces |-> nonces]

\* The loop after every item: a nonce that finds its message leaves with it.
Matched(msgs, nonces) ==
    LET send == ToSet(nonces) \cap msgs
        last(m) == CHOOSE i \in DOMAIN nonces :
                      nonces[i] = m /\ \A j \in DOMAIN nonces : nonces[j] = m => j <= i
        left == ToSeq(DOMAIN nonces \ {last(m) : m \in send})
    IN [send |-> send, msgs |-> msgs \ send,
        nonces |-> [i \in DOMAIN left |-> nonces[left[i]]]]

\* sender.send: for a task that has ended it fails, which drops the message and keeps
\* its nonce.
FilterSends(msgs, nonces) ==
    LET result == Matched(msgs, nonces) IN
    /\ pending_messages' = result.msgs
    /\ IF "accumulator" \in running
       THEN /\ filtered' = filtered \o ToSeq(result.send)
            /\ pending_nonces' = result.nonces
            /\ UNCHANGED lost
       ELSE /\ lost' = lost \cup result.send
            /\ pending_nonces' = nonces
            /\ UNCHANGED filtered

FilterMessage ==
    /\ "filter" \in running
    /\ messages # <<>>
    /\ Head(messages) \notin pending_messages
    /\ messages' = Tail(messages)
    /\ FilterSends(pending_messages \cup {Head(messages)}, pending_nonces)
    /\ UNCHANGED <<chains, listeners, channels1, paid, roots, acc_messages, acc_roots,
                   sender, tasks, lost_roots>>

FilterPaid ==
    /\ "filter" \in running
    /\ paid # <<>>
    /\ paid' = Tail(paid)
    /\ FilterSends(pending_messages, Append(pending_nonces, Head(paid)))
    /\ UNCHANGED <<chains, listeners, channels1, messages, roots, acc_messages, acc_roots,
                   sender, tasks, lost_roots>>

\* A message comes twice, or a channel is closed and empty.
FilterEnds ==
    /\ "filter" \in running
    /\ \/ messages # <<>> /\ Head(messages) \in pending_messages
       \/ messages = <<>> /\ "queued" \notin running
       \/ paid = <<>> /\ "paid" \notin running
    /\ Stop("filter")
    /\ UNCHANGED <<chains, listeners, channels1, filter, acc, sender, losses>>

--------------------------------------------------------------------------------
(* Accumulator *)

\* The order of the sorted vectors: by authority set, then by block.
Before(b, c) == \/ Signer[b] < Signer[c]
                \/ Signer[b] = Signer[c] /\ b < c

\* Mutant of Find: the root of another authority set is taken as well.
FindAnySet(m) ==
    LET later == {r \in acc_roots : ~Before(r, BlockOf[m])} IN
    IF later = {} THEN None ELSE CHOOSE r \in later : \A q \in later : ~Before(q, r)

\* MerkleRoots::find: the next root, if the same authority set has signed its block.
Find(m) ==
    LET later == {r \in acc_roots : ~Before(r, BlockOf[m])}
        next  == CHOOSE r \in later : \A q \in later : ~Before(q, r)
    IN IF later # {} /\ Signer[next] = Signer[BlockOf[m]] THEN next ELSE None

\* Mutant of Drain: the messages of the root's own block are left.
DrainBefore(r) == {m \in acc_messages : Signer[BlockOf[m]] = Signer[r] /\ BlockOf[m] < r}

\* Messages::drain; the search ends at the last message of the block.
Drain(r) == {m \in acc_messages : Signer[BlockOf[m]] = Signer[r] /\ BlockOf[m] <= r}

\* messages_out.send.
AccumulatorSends(sent, dropped) ==
    IF "sender" \in running
    THEN /\ out' = out \o sent
         /\ lost' = lost \cup dropped
    ELSE /\ lost' = lost \cup dropped \cup {sent[i][1] : i \in DOMAIN sent}
         /\ UNCHANGED out

\* The root is there: the message leaves at once.
AccumulateCovered ==
    /\ "accumulator" \in running
    /\ filtered # <<>>
    /\ Find(Head(filtered)) # None
    /\ filtered' = Tail(filtered)
    /\ AccumulatorSends(<< <<Head(filtered), Find(Head(filtered))>> >>, {})
    /\ UNCHANGED <<chains, listeners, channels1, filter, roots, acc_messages, acc_roots,
                   submitted, tasks, lost_roots>>

\* The message waits for its root, or is rejected when the vector is full.
AccumulateMessage ==
    /\ "accumulator" \in running
    /\ filtered # <<>>
    /\ Find(Head(filtered)) = None
    /\ filtered' = Tail(filtered)
    /\ IF Cardinality(acc_messages) >= MESSAGES_CAPACITY
       THEN lost' = lost \cup {Head(filtered)} /\ UNCHANGED acc_messages
       ELSE acc_messages' = acc_messages \cup {Head(filtered)} /\ UNCHANGED lost
    /\ UNCHANGED <<chains, listeners, channels1, filter, roots, acc_roots, sender, tasks,
                   lost_roots>>

\* The root is stored already.
KnownRoot ==
    /\ "accumulator" \in running
    /\ roots # <<>>
    /\ Head(roots) \in acc_roots
    /\ roots' = Tail(roots)
    /\ UNCHANGED <<chains, listeners, channels1, filter, filtered, acc_messages, acc_roots,
                   sender, tasks, losses>>

Full == Cardinality(acc_roots) >= ROOTS_CAPACITY
Oldest == CHOOSE r \in acc_roots : \A q \in acc_roots : ~Before(q, r)

\* MerkleRoots::add pops the oldest root of a full vector, whose messages are removed,
\* and the messages that waited for the new one leave.
AccumulateRoot ==
    LET r == Head(roots)
        evicted == IF Full THEN {Oldest} ELSE {}
        removed == UNION {Drain(q) : q \in evicted}
        ready == Drain(r) \ removed
    IN /\ "accumulator" \in running
       /\ roots # <<>>
       /\ r \notin acc_roots
       /\ Full => Before(Oldest, r)
       /\ roots' = Tail(roots)
       /\ acc_roots' = (acc_roots \ evicted) \cup {r}
       /\ acc_messages' = acc_messages \ (removed \cup ready)
       /\ AccumulatorSends([i \in 1..Cardinality(ready) |-> <<ToSeq(ready)[i], r>>], removed)
       /\ lost_roots' = lost_roots \cup evicted
       /\ UNCHANGED <<chains, listeners, channels1, filter, filtered, submitted, tasks>>

\* MerkleRoots::add inserts past the end when the new root is older than all.
AccumulatorPanics ==
    /\ "accumulator" \in running
    /\ roots # <<>>
    /\ Head(roots) \notin acc_roots
    /\ Full
    /\ Before(Head(roots), Oldest)
    /\ roots' = Tail(roots)
    /\ Stop("accumulator")
    /\ UNCHANGED <<chains, listeners, channels1, filter, filtered, acc_messages, acc_roots,
                   sender, losses>>

\* A channel is closed and empty.
AccumulatorEnds ==
    /\ "accumulator" \in running
    /\ \/ filtered = <<>> /\ mode = "paid" /\ "filter" \notin running
       \/ filtered = <<>> /\ mode = "all" /\ "queued" \notin running
       \/ roots = <<>> /\ "roots" \notin running
    /\ Stop("accumulator")
    /\ UNCHANGED <<chains, listeners, channels1, filter, acc, sender, losses>>

--------------------------------------------------------------------------------
(* MessageSender *)

Submit ==
    /\ "sender" \in running
    /\ out # <<>>
    /\ submitted' = submitted \cup {Head(out)}
    /\ out' = Tail(out)
    /\ UNCHANGED <<chains, listeners, channels1, filter, acc, tasks, losses>>

\* The balance is not read, or the message is taken and its transaction not sent.
SubmitFails ==
    /\ AfterError("sender")
    /\ \/ UNCHANGED <<out, lost>>
       \/ out # <<>> /\ out' = Tail(out) /\ lost' = lost \cup {Head(out)[1]}
    /\ UNCHANGED <<chains, listeners, channels1, filter, acc, submitted, lost_roots>>

SenderEnds ==
    /\ "sender" \in running
    /\ out = <<>>
    /\ "accumulator" \notin running
    /\ Stop("sender")
    /\ UNCHANGED <<chains, listeners, channels1, filter, acc, sender, losses>>

--------------------------------------------------------------------------------
FinalizeGear ==
    /\ gear_head < LastGear
    /\ gear_head' = gear_head + 1
    /\ UNCHANGED <<mode, eth_head, listeners, channels1, filter, acc, sender, tasks, losses>>

FinalizeEth ==
    /\ eth_head < LastEth
    /\ eth_head' = eth_head + 1
    /\ UNCHANGED <<mode, gear_head, listeners, channels1, filter, acc, sender, tasks, losses>>

Work ==
    \/ GearListener \/ EthListener
    \/ ExtractQueued \/ ExtractPaid \/ ExtractRoots
    \/ FilterMessage \/ FilterPaid
    \/ AccumulateCovered \/ AccumulateMessage \/ KnownRoot \/ AccumulateRoot
    \/ Submit

Next ==
    \/ Work
    \/ FilterEnds \/ AccumulatorPanics \/ AccumulatorEnds \/ SenderEnds
    \/ GearListenerFails \/ EthListenerFails
    \/ ExtractQueuedFails \/ ExtractPaidFails \/ ExtractRootsFails \/ SubmitFails
    \/ FinalizeGear \/ FinalizeEth

Spec == Init /\ [][Next]_vars

\* The runtime polls every task, and a task takes what its channel holds.
FairSpec == Spec /\ WF_vars(Work)

--------------------------------------------------------------------------------
TypeOK ==
    /\ mode \in Modes
    /\ gear_head \in GearBlocks /\ eth_head \in EthBlocks
    /\ gear_next \in 1..LastGear + 1 /\ eth_next \in 1..LastEth + 1
    /\ blocks \in Seq(GearBlocks) /\ paid_blocks \in Seq(GearBlocks)
    /\ eth_blocks \in Seq(EthBlocks)
    /\ messages \in Seq(Messages) /\ paid \in Seq(Messages) /\ filtered \in Seq(Messages)
    /\ pending_messages \subseteq Messages /\ pending_nonces \in Seq(Messages)
    /\ roots \in Seq(GearBlocks)
    /\ acc_messages \subseteq Messages /\ acc_roots \subseteq GearBlocks
    /\ out \in Seq(Messages \X GearBlocks) /\ submitted \subseteq Messages \X GearBlocks
    /\ running \subseteq Tasks(mode)
    /\ attempts \in [Counting -> 0..MAX_RETRIES]
    /\ lost \subseteq Messages /\ lost_roots \subseteq GearBlocks

Leaving == submitted \cup ToSet(out)
Covers(r, m) == Signer[r] = Signer[BlockOf[m]] /\ BlockOf[m] <= r

\* A message is relayed with a root that its queue is part of: the same authority set
\* signed it, not before the message, and Ethereum holds it (the accumulator's find and
\* drain; the queue is cleared when the set changes, so no other root proves it).
RelayedUnderCoveringRoot ==
    \A p \in Leaving :
        Covers(p[2], p[1]) /\ \E e \in 1..eth_head : p[2] \in ToSet(RootsIn[e])

\* No message waits in the accumulator for a root that is there: neither a message
\* that comes after its root nor a root that comes again after a listener's restart
\* leaves one behind, so an evicted root takes no message with it.
NoCoveredMessageWaits == \A m \in acc_messages, r \in acc_roots : ~Covers(r, m)

\* The extractor of payments has ended, if there is one: from then on an error of the
\* block listener sends the messages of a block again.
Repeats == mode = "paid" /\ "paid" \notin running

\* Until then a message is relayed once, however often a payment or an Ethereum block is
\* seen, and the paid relayer relays one only for a payment.
RelayedOnce ==
    \A m \in Messages :
        /\ ~Repeats => \A p, q \in Leaving : p[1] = m /\ q[1] = m => p = q
        /\ ~Repeats /\ (\E p \in Leaving : p[1] = m) => m \notin acc_messages \cup pending_messages
        /\ mode = "paid" /\ m \in acc_messages \cup {p[1] : p \in Leaving}
             => \E b \in 1..gear_head : m \in ToSet(PaidIn[b])

\* In the end every finalized (and, by the paid relayer, paid) message whose root is on
\* Ethereum is relayed, unless a failed call dropped it or the root, the root was evicted
\* from the accumulator, or a task has ended.
MessagesRelayed ==
    <>[](\A m \in Messages, r \in GearBlocks :
            /\ mode # "manual"
            /\ BlockOf[m] <= gear_head
            /\ mode = "paid" => \E b \in 1..gear_head : m \in ToSet(PaidIn[b])
            /\ Covers(r, m)
            /\ \E e \in 1..eth_head : r \in ToSet(RootsIn[e])
            => \/ m \in lost \/ r \in lost_roots
               \/ \E p \in submitted : p[1] = m
               \/ running # Tasks(mode))
================================================================================
