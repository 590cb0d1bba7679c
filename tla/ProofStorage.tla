----------------------------- MODULE ProofStorage ------------------------------
(****************************************************************************)
(* The proof storage on Gear: the relayer's GearProofStorage with its cache, *)
(* the task that sends the proofs of new authority sets, and the program     *)
(* that keeps the last proof.  The program's state holds one proof; an older *)
(* one is read from the state at the block that stored it, so a block may    *)
(* store at most one.  A message that the program refuses by a reply counts  *)
(* as dispatched with success.  Only the program, and the file with its      *)
(* address, survive the relayer.                                             *)
(*                                                                           *)
(* A proof is the authority set that it is of.  A message is executed in     *)
(* some block after the one it was sent in; the node runs messages in order. *)
(****************************************************************************)
EXTENDS Naturals, SequencesExt, FiniteSetsExt

CONSTANTS FirstSet,     \* the set after the genesis set
          LastSet,      \* bound: the last set that is proven
          MaxHeight,    \* bound: blocks of the Gear chain
          MaxMessages,  \* bound: messages that are ever sent
          MESSAGE_RESEND_TIMEOUT

ASSUME FirstSetAssumption == FirstSet \in Nat

VARIABLES height,       \* latest finalized block
          queue,        \* messages in the node's queue: [set, id]
          sent,         \* number of messages sent so far: the next one's id
          dispatched,   \* MessagesDispatched events: [id, status, at]
          proofBlocks,  \* State::proof_blocks, empty before the upload
          latestAt,     \* history: latest_proof.authority_set_id after every block
          cache,        \* Cache::proofs
          channel,      \* message_channel
          sending,      \* states of message_sender_inner: [set, state, id, at]
          spc,          \* its position in them, 0 where it takes from the channel
          senderEnded,  \* whether its task has panicked
          processed,    \* latest_processed
          relayer       \* "running", "ended"

storageVars == <<height, queue, sent, dispatched, proofBlocks, latestAt, cache, channel,
                 sending, spc, senderEnded, processed, relayer>>
node   == <<height, queue, sent, dispatched, proofBlocks, latestAt>>
sender == <<sending, spc, senderEnded, processed>>

Uploaded == proofBlocks # <<>>
Latest(blocks) == Max(DOMAIN blocks)

StorageInit ==
    /\ height = 1 /\ queue = <<>> /\ sent = 0 /\ dispatched = {}
    /\ proofBlocks = <<>> /\ latestAt = <<0>>
    /\ cache = {} /\ channel = <<>>
    /\ sending = <<>> /\ spc = 0 /\ senderEnded = FALSE /\ processed = 1
    /\ relayer = "running"

--------------------------------------------------------------------------------
\* Mutant of Refused: two proofs may be stored in one block.
RefusedOutOfOrder(blocks, set, block) == set # Latest(blocks) + 1

\* The program's handle: what it answers with an error.
Refused(blocks, set, block) ==
    \/ set # Latest(blocks) + 1
    \/ blocks[Latest(blocks)] = block

\* The program's handle for the sender, which uploaded the program.
Handle(blocks, set, block) ==
    IF Refused(blocks, set, block)
      THEN blocks
      ELSE [s \in DOMAIN blocks \cup {set} |-> IF s = set THEN block ELSE blocks[s]]

\* A block is finalized in which the first n messages of the queue end with the
\* given statuses.
Block(n, status) ==
    /\ height < MaxHeight
    /\ height' = height + 1
    /\ proofBlocks' = FoldLeft(LAMBDA blocks, i :
                                   IF status[i] = "success"
                                     THEN Handle(blocks, queue[i].set, height')
                                     ELSE blocks,
                               proofBlocks, [i \in 1..n |-> i])
    /\ latestAt' = Append(latestAt, IF Uploaded THEN Latest(proofBlocks') ELSE 0)
    /\ dispatched' = dispatched \cup
                       {[id |-> queue[i].id, status |-> status[i], at |-> height'] : i \in 1..n}
    /\ queue' = SubSeq(queue, n + 1, Len(queue))
    /\ UNCHANGED <<sent, cache, channel, sender, relayer>>

\* init_inner uploads the program with the genesis proof, in a block of its own.
Upload ==
    /\ relayer = "running"
    /\ ~Uploaded
    /\ height < MaxHeight
    /\ height' = height + 1
    /\ proofBlocks' = [s \in {FirstSet} |-> height']
    /\ latestAt' = Append(latestAt, FirstSet)
    /\ UNCHANGED <<queue, sent, dispatched, cache, channel, sender, relayer>>

\* get_latest_authority_set_id_inner.
LatestProven == Max(DOMAIN proofBlocks \cup cache)

\* get_proof_for_authority_set_id_inner: from the cache, or from the state at the
\* block that stored the proof, which must be the proof of this set.
GetProof(set) ==
    /\ relayer = "running"
    /\ set \in DOMAIN proofBlocks \ cache
    /\ IF latestAt[proofBlocks[set]] = set
         THEN cache' = cache \cup {set} /\ UNCHANGED relayer
         ELSE relayer' = "ended" /\ UNCHANGED cache
    /\ UNCHANGED <<node, channel, sender>>

\* update_inner for the proof of the next set, which the latest one is an input of.
Update ==
    /\ relayer = "running"
    /\ Uploaded
    /\ LatestProven < LastSet
    /\ LatestProven \in cache
    /\ cache' = cache \cup {LatestProven + 1}
    /\ IF senderEnded
         THEN relayer' = "ended" /\ UNCHANGED channel
         ELSE channel' = Append(channel, LatestProven + 1) /\ UNCHANGED relayer
    /\ UNCHANGED <<node, sender>>

--------------------------------------------------------------------------------
SenderRuns == relayer = "running" /\ ~senderEnded

Pending(set) == [set |-> set, state |-> "pending", id |-> 0, at |-> 0]

\* The turn of the sender starts with what the channel holds.
Take ==
    /\ SenderRuns
    /\ spc = 0
    /\ sending' = sending \o [i \in DOMAIN channel |-> Pending(channel[i])]
    /\ channel' = <<>>
    /\ spc' = 1
    /\ UNCHANGED <<node, cache, senderEnded, processed, relayer>>

At(i) == SenderRuns /\ spc = i /\ i \in DOMAIN sending

\* A pending message is sent and is in the block that is finalized next.
Submit(i) ==
    /\ At(i)
    /\ sending[i].state = "pending"
    /\ sent < MaxMessages
    /\ queue' = Append(queue, [set |-> sending[i].set, id |-> sent])
    /\ sending' = [sending EXCEPT ![i] = [@ EXCEPT !.state = "submitted", !.id = sent,
                                                   !.at = height]]
    /\ sent' = sent + 1
    /\ spc' = i + 1
    /\ UNCHANGED <<height, dispatched, proofBlocks, latestAt, cache, channel, senderEnded,
                   processed, relayer>>

SubmitFails(i) ==
    /\ At(i)
    /\ sending[i].state = "pending"
    /\ sending' = [sending EXCEPT ![i].state = "failed"]
    /\ spc' = i + 1
    /\ UNCHANGED <<node, cache, channel, senderEnded, processed, relayer>>

\* A failed one waits for the next turn.
Pass(i) ==
    /\ At(i)
    /\ sending[i].state # "pending"
    /\ sending' = [sending EXCEPT ![i].state = IF @ = "failed" THEN "pending" ELSE @]
    /\ spc' = i + 1
    /\ UNCHANGED <<node, cache, channel, senderEnded, processed, relayer>>

StatusOf(id) ==
    {e.status : e \in {d \in dispatched : d.id = id /\ d.at \in processed + 1..height}}

\* Whether a submitted message without an event is sent again: as long as it is
\* younger than the timeout.
Resent(m) == m.at + MESSAGE_RESEND_TIMEOUT > height

\* What becomes of a message at the end of the turn, as zero or one messages.
AfterEvents(m) ==
    IF m.state # "submitted" THEN <<m>>
    ELSE IF "failed" \in StatusOf(m.id) THEN <<Pending(m.set)>>
    ELSE IF StatusOf(m.id) # {} THEN <<>>
    ELSE IF Resent(m) THEN <<Pending(m.set)>>
    ELSE <<m>>

\* The events of the blocks that were finalized since the last turn.
Events ==
    /\ SenderRuns
    /\ spc = Len(sending) + 1
    /\ sending' = FlattenSeq([i \in DOMAIN sending |-> AfterEvents(sending[i])])
    /\ processed' = height
    /\ spc' = 0
    /\ UNCHANGED <<node, cache, channel, senderEnded, relayer>>

\* A call that is not retried fails: the task panics and the channel is closed.
SenderEnds ==
    /\ SenderRuns
    /\ senderEnded' = TRUE
    /\ sending' = <<>>
    /\ spc' = 0
    /\ channel' = <<>>
    /\ UNCHANGED <<node, cache, processed, relayer>>

\* The process ends at any point, and new starts it again.
Stop == /\ relayer = "running"
        /\ relayer' = "ended"
        /\ UNCHANGED <<node, cache, channel, sender>>

New ==
    /\ relayer = "ended"
    /\ relayer' = "running"
    /\ cache' = {} /\ channel' = <<>>
    /\ sending' = <<>> /\ spc' = 0 /\ senderEnded' = FALSE
    /\ processed' = height
    /\ UNCHANGED node

StorageNext ==
    \/ \E n \in 0..Len(queue) :
         \E status \in [1..n -> {"success", "failed", "not_executed"}] : Block(n, status)
    \/ Upload \/ Update \/ Take \/ Events \/ SenderEnds \/ Stop \/ New
    \/ \E set \in FirstSet..LastSet : GetProof(set)
    \/ \E i \in DOMAIN sending : Submit(i) \/ SubmitFails(i) \/ Pass(i)

StorageSpec == StorageInit /\ [][StorageNext]_storageVars

--------------------------------------------------------------------------------
(****************************************************************************)
(* Every proof that the program took can be read back: the sets have no gap, *)
(* and the state at the block recorded for a set holds the proof of that set *)
(* (the assertion of get_proof_for_authority_set_id never fails), whatever   *)
(* was sent twice by the sender or by a relayer that was started again.      *)
(****************************************************************************)
ProofsReadable ==
    /\ Uploaded => DOMAIN proofBlocks = FirstSet..Latest(proofBlocks)
    /\ \A set \in DOMAIN proofBlocks : latestAt[proofBlocks[set]] = set
================================================================================
