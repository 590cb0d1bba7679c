------------------------------ MODULE LightClient ------------------------------
(****************************************************************************)
(* The checkpoint-light-client program: services SyncUpdate, ReplayBack and  *)
(* CheckpointFor over one State.                                             *)
(*                                                                           *)
(* SyncUpdate.process and ReplayBack.start read the finalized slot and the   *)
(* two sync committees, verify the update against them while the BLS built-in *)
(* actor is asked four times, and write to the State afterwards.  Other      *)
(* messages run in between.  verify is a function of what was read, so its   *)
(* result is computed when the message starts and applied when it resumes.   *)
(*                                                                           *)
(* Ethereum is a chain of blocks: a block, its header and its hash are its   *)
(* slot, the committee of a period is the period.  An update is what the     *)
(* chain signs: header att is signed at slot sig by the committee of sig's   *)
(* period, fin is the block that att finalizes, and next says whether the    *)
(* committee of the period after att's comes with it.  Updates with too few  *)
(* votes or with invalid proofs change nothing and are left out.             *)
(****************************************************************************)
EXTENDS Naturals, Sequences, FiniteSets, SequencesExt

CONSTANTS Chain,                      \* slots that have a block
          Updates,                    \* [sig, att, fin, next] records
          Tasks,                      \* messages in execution at the same time
          MAX_BATCH,                  \* bound: headers sent in one message
          Genesis,                    \* finalized slot of the init message
          SLOTS_PER_EPOCH,
          EPOCHS_PER_SYNC_COMMITTEE,
          MAX_EPOCHS_GAP,
          STORED_CHECKPOINTS_COUNT,
          None

ASSUME ChainAssumption ==
    /\ Chain \subseteq Nat /\ Genesis \in Chain
    /\ \A u \in Updates : u.sig \in Nat /\ u.att \in Nat /\ u.fin \in Chain /\ u.next \in BOOLEAN
    /\ None \notin Nat
ASSUME SizesAssumption ==
    /\ SLOTS_PER_EPOCH \in Nat \ {0}
    /\ EPOCHS_PER_SYNC_COMMITTEE \in Nat \ {0}
    /\ MAX_EPOCHS_GAP \in Nat
    /\ STORED_CHECKPOINTS_COUNT \in Nat \ {0}
    /\ MAX_BATCH \in Nat

VARIABLES finalized_header,
          sync_committee_current, sync_committee_next,
          checkpoints,     \* ring buffer: items, oldest first, and its start index
          replay_back,     \* None, or the ReplayBackState
          task,            \* what each suspended message will apply
          raced,           \* history: a message applied a stale verification
          skipped,         \* history: the header entered a period without its committee
          mixed            \* history: SyncUpdate ran during a replay

vars == <<finalized_header, sync_committee_current, sync_committee_next, checkpoints,
          replay_back, task, raced, skipped, mixed>>

Epoch(slot)  == slot \div SLOTS_PER_EPOCH
Period(slot) == Epoch(slot) \div EPOCHS_PER_SYNC_COMMITTEE
Parent(slot) == LET below == {b \in Chain : b < slot}
                IN IF below = {} THEN None ELSE CHOOSE b \in below : \A c \in below : c <= b

--------------------------------------------------------------------------------
(* Checkpoints *)

\* push of one slot after the other: push_back of a circular buffer overwrites the
\* oldest item when it is full.
Push(cps, slots) ==
    LET all     == cps.items \o slots
        dropped == IF Len(all) > STORED_CHECKPOINTS_COUNT
                   THEN Len(all) - STORED_CHECKPOINTS_COUNT ELSE 0
    IN [items |-> SubSeq(all, dropped + 1, Len(all)),
        start |-> (cps.start + dropped) % STORED_CHECKPOINTS_COUNT]

\* The end of process_headers: the checkpoints of a replay are popped off their
\* vector, the earliest slot first.
MoveCheckpoints(cps, replayed) == Push(cps, Reverse(replayed))

\* binary_search on a sorted slice: the first item that is not before slot.
Search(slice, slot) ==
    LET hits == {i \in DOMAIN slice : slice[i] >= slot}
    IN IF hits = {} THEN None ELSE slice[CHOOSE i \in hits : \A j \in hits : i <= j]

\* Mutant of Checkpoint: the part of the buffer that wrapped around is not searched.
CheckpointInLeft(cps, slot) ==
    LET size == STORED_CHECKPOINTS_COUNT - cps.start
    IN Search(SubSeq(cps.items, 1, IF size < Len(cps.items) THEN size ELSE Len(cps.items)), slot)

\* Checkpoints::checkpoint: search the part of the buffer up to its physical
\* end, then the part that wrapped around.
Checkpoint(cps, slot) ==
    LET size  == STORED_CHECKPOINTS_COUNT - cps.start
        cut   == IF size < Len(cps.items) THEN size ELSE Len(cps.items)
        left  == SubSeq(cps.items, 1, cut)
        right == SubSeq(cps.items, cut + 1, Len(cps.items))
    IN IF Search(left, slot) # None THEN Search(left, slot) ELSE Search(right, slot)

--------------------------------------------------------------------------------
Init ==
    /\ finalized_header = Genesis
    /\ sync_committee_current = Period(Genesis)
    /\ sync_committee_next = Period(Genesis) + 1
    /\ checkpoints = [items |-> <<Genesis>>, start |-> 0]
    /\ replay_back = None
    /\ task = [t \in Tasks |-> None]
    /\ raced = FALSE
    /\ skipped = FALSE
    /\ mixed = FALSE

--------------------------------------------------------------------------------
(* verify *)

\* Mutant of CommitteeUpdate: any later period's committee is taken over.
CommitteeOfAnyPeriod(u) ==
    IF u.next /\ Period(u.att) = Period(u.fin) THEN Period(u.att) + 1 ELSE None

\* committee::Update::{new, verify}: the next committee, if the update brings the
\* one that follows the period being entered.
CommitteeUpdate(u) ==
    IF /\ u.next
       /\ Period(u.att) = Period(u.fin)
       /\ Period(u.fin) = Period(finalized_header) + 1
    THEN Period(u.att) + 1
    ELSE None

\* The stored committee that verify picks is the one that signed.
Signed(u) ==
    \/ /\ Period(u.sig) = Period(finalized_header) + 1
       /\ sync_committee_next = Period(u.sig)
    \/ /\ Period(u.sig) = Period(finalized_header)
       /\ sync_committee_current = Period(u.sig)

\* verify returns Ok.  An update without a newer header brings no committee
\* either, and is NotActual.
Verified(u) ==
    /\ u.sig > u.att /\ u.att >= u.fin
    /\ Signed(u)
    /\ u.fin > finalized_header

--------------------------------------------------------------------------------
(* SyncUpdate *)

\* process, up to the answers of the BLS built-in actor.
SyncUpdate(t, u) ==
    /\ task[t] = None
    /\ Epoch(finalized_header) + MAX_EPOCHS_GAP > Epoch(u.fin)
    /\ Verified(u)
    /\ task' = [task EXCEPT ![t] = [service |-> "SyncUpdate", slot |-> finalized_header,
                                    fin |-> u.fin, committee |-> CommitteeUpdate(u), batch |-> 0]]
    /\ UNCHANGED <<finalized_header, sync_committee_current, sync_committee_next, checkpoints,
                   replay_back, raced, skipped, mixed>>

\* Replace the committees, as SyncUpdate and ReplayBack do.
Rotate(committee) ==
    IF committee = None
    THEN UNCHANGED <<sync_committee_current, sync_committee_next>>
    ELSE /\ sync_committee_current' = sync_committee_next
         /\ sync_committee_next' = committee

\* process, after the signature was found valid.
ApplySyncUpdate(t) ==
    /\ task[t] # None
    /\ task[t].service = "SyncUpdate"
    /\ checkpoints' = Push(checkpoints, <<task[t].fin>>)
    /\ finalized_header' = task[t].fin
    /\ Rotate(task[t].committee)
    /\ task' = [task EXCEPT ![t] = None]
    /\ raced' = (raced \/ task[t].slot # finalized_header)
    /\ skipped' = (skipped \/ (task[t].committee = None
                               /\ Period(task[t].fin) # Period(finalized_header)))
    /\ mixed' = (mixed \/ replay_back # None)
    /\ UNCHANGED replay_back

--------------------------------------------------------------------------------
(* ReplayBack *)

\* Mutant of ReplayHeader: a missing block at the epoch boundary leaves a hole.
ReplayHeaderAtBoundary(rb, slot) ==
    [rb EXCEPT !.last = slot,
               !.cps = IF slot % SLOTS_PER_EPOCH = 0 THEN Append(@, slot) ELSE @]

\* process_headers, one header further back: keep one checkpoint per epoch.
ReplayHeader(rb, slot) ==
    [rb EXCEPT !.last = slot,
               !.cps = IF slot % SLOTS_PER_EPOCH = 0 \/ slot + SLOTS_PER_EPOCH < Last(rb.cps)
                       THEN Append(@, slot) ELSE @]

\* The loop of process_headers over a batch of n headers: each one must be the
\* parent of the one before, and the last checkpoint ends the loop.
Replayed(rb, n) ==
    LET after[i \in 0..n] ==
            IF i = 0 THEN rb
            ELSE LET before == after[i - 1]
                     header == Parent(before.last)
                 IN IF header \in {None, Last(checkpoints.items)}
                    THEN before
                    ELSE ReplayHeader(before, header)
    IN after[n]

\* The replay has reached the last checkpoint.
Reached(rb) == Parent(rb.last) = Last(checkpoints.items)

\* process_headers with start as the replay so far.
ProcessHeaders(start, n) ==
    LET rb == Replayed(start, n)
    IN IF ~Reached(rb)
       THEN /\ replay_back' = [fin |-> start.fin, committee |-> start.committee,
                              cps |-> rb.cps, last |-> rb.last]
            /\ UNCHANGED <<finalized_header, sync_committee_current, sync_committee_next,
                           checkpoints, skipped>>
       ELSE /\ replay_back' = None
            /\ checkpoints' = MoveCheckpoints(checkpoints, rb.cps)
            /\ Rotate(start.committee)
            /\ finalized_header' = start.fin
            /\ skipped' = (skipped \/ (start.committee = None
                                       /\ Period(start.fin) # Period(finalized_header)))

\* start, up to the answers of the BLS built-in actor.
ReplayBackStart(t, u, n) ==
    /\ task[t] = None
    /\ replay_back = None
    /\ Verified(u)
    /\ task' = [task EXCEPT ![t] = [service |-> "ReplayBack", slot |-> finalized_header,
                                    fin |-> u.fin, committee |-> CommitteeUpdate(u), batch |-> n]]
    /\ UNCHANGED <<finalized_header, sync_committee_current, sync_committee_next, checkpoints,
                   replay_back, raced, skipped, mixed>>

\* start, after the signature was found valid.
ApplyReplayBackStart(t) ==
    /\ task[t] # None
    /\ task[t].service = "ReplayBack"
    /\ ProcessHeaders([fin |-> task[t].fin, committee |-> task[t].committee,
                       cps |-> <<task[t].fin>>, last |-> task[t].fin], task[t].batch)
    /\ task' = [task EXCEPT ![t] = None]
    /\ raced' = (raced \/ task[t].slot # finalized_header)
    /\ UNCHANGED mixed

\* process.
ReplayBackProcess(n) ==
    /\ replay_back # None
    /\ ProcessHeaders(replay_back, n)
    /\ UNCHANGED <<task, raced, mixed>>

\* A message runs out of gas, or the BLS built-in actor replies with an error.
Fail(t) ==
    /\ task[t] # None
    /\ task' = [task EXCEPT ![t] = None]
    /\ UNCHANGED <<finalized_header, sync_committee_current, sync_committee_next, checkpoints,
                   replay_back, raced, skipped, mixed>>

--------------------------------------------------------------------------------
Next ==
    \/ \E t \in Tasks, u \in Updates : SyncUpdate(t, u)
    \/ \E t \in Tasks, u \in Updates, n \in 0..MAX_BATCH : ReplayBackStart(t, u, n)
    \/ \E t \in Tasks : ApplySyncUpdate(t) \/ ApplyReplayBackStart(t) \/ Fail(t)
    \/ \E n \in 1..MAX_BATCH : ReplayBackProcess(n)

Spec == Init /\ [][Next]_vars

--------------------------------------------------------------------------------
(* Properties. *)

\* The stored committees are those of the finalized header's period and of the
\* next one: the client can verify what the chain signs next.
CommitteesMatch ==
    /\ sync_committee_current = Period(finalized_header)
    /\ sync_committee_next = Period(finalized_header) + 1

\* The same as long as no message applied a verification that others had made
\* stale, no header entered a period without its committee, and no SyncUpdate ran
\* while checkpoints were being replayed.
CommitteesMatchUnlessDisturbed ==
    raced \/ skipped \/ mixed \/ CommitteesMatch

\* checkpoint_for answers the first stored checkpoint at or after the slot,
\* wherever the ring buffer wrapped around, and only NotPresent beyond the last.
LookupIsExact ==
    ~raced =>
        \A slot \in 0..(finalized_header + 1) :
            LET later == {c \in Range(checkpoints.items) : c >= slot}
                got   == Checkpoint(checkpoints, slot)
            IN IF later = {} THEN got = None ELSE got \in later /\ \A c \in later : got <= c

\* Neither updates nor a replay over missing blocks leave a gap of
\* MAX_EPOCHS_GAP epochs between neighbouring checkpoints.
NoGapBetweenCheckpoints ==
    ~raced =>
        \A i \in 1..(Len(checkpoints.items) - 1) :
            Epoch(checkpoints.items[i + 1]) < Epoch(checkpoints.items[i]) + MAX_EPOCHS_GAP
================================================================================
