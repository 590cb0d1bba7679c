---------------------------- MODULE CheckpointRelayer ----------------------------
(****************************************************************************)
(* The Ethereum -> Gear protocol relayer (ethereum_checkpoints) together with *)
(* the light client that it feeds.                                           *)
(*                                                                           *)
(* A receiver task polls the beacon node and puts the newest update into a    *)
(* channel; the relayer applies the first one, replaying what the light       *)
(* client has missed, and then one after the other.  The calls to the program *)
(* are the actions of LightClient, sent one at a time and awaited.  A process  *)
(* that ends leaves the call that waits for the BLS built-in actor behind: it  *)
(* is still applied, or fails, whenever the actor answers, and the next        *)
(* process calls beside it.  Calls of one account are taken in the order in    *)
(* which they were sent, so nothing else that was sent can be overtaken.       *)
(*                                                                           *)
(* Beacon[i] is what the node answers at time i: the last finality update and *)
(* the best update of every period so far.                                    *)
(****************************************************************************)
EXTENDS LightClient

CONSTANTS Beacon,          \* sequence of [finality, best] records
          SIZE_BATCH,      \* size_batch
          SIZE_CHANNEL,    \* capacity of the channel
          COUNT_FAILURE,   \* failures that end the receiver
          MAX_REQUEST_LIGHT_CLIENT_UPDATES,
          MaxFailures      \* bound: calls that fail

ASSUME RelayerAssumption ==
    /\ Tasks # {} /\ None \notin Updates
    /\ None \notin [fin : Nat, committee : Nat \cup {None}, cps : Seq(Nat), last : Nat]
    /\ SIZE_BATCH \in Nat /\ COUNT_FAILURE \in Nat \ {0} /\ MaxFailures \in Nat
    /\ MAX_REQUEST_LIGHT_CLIENT_UPDATES \in Nat \ {0}

\* The finalized block only advances, and an update of a period brings a committee
\* and finalizes no later block.
ASSUME BeaconAssumption ==
    /\ Len(Beacon) \in Nat \ {0} /\ DOMAIN Beacon = 1..Len(Beacon)
    /\ \A i \in DOMAIN Beacon :
          /\ Beacon[i].finality \in Updates
          /\ Period(Beacon[i].finality.fin) \in DOMAIN Beacon[i].best
          /\ \A j \in DOMAIN Beacon : i <= j => Beacon[i].finality.fin <= Beacon[j].finality.fin
          /\ \A p \in DOMAIN Beacon[i].best :
                LET b == Beacon[i].best[p]
                IN b # None => b \in Updates /\ b.next /\ b.fin <= Beacon[i].finality.fin

VARIABLES now,             \* the time of the beacon node
          updates,         \* the channel
          receiving,       \* the receiver task runs
          receiver_failures,
          pc,              \* what the relayer does
          relayer,         \* the task in the light client that runs its calls
          update,          \* the update at hand
          slot_last,
          slot_start,      \* replay: where the next interval begins
          todo,            \* replay: updates left, None before they are fetched
          iter,            \* replay: slots left for update u, [u, started, lo, hi]
          failures

relayerVars == <<now, updates, receiving, receiver_failures, pc, relayer, update, slot_last,
                 slot_start, todo, iter, failures>>
replay == <<slot_start, todo, iter>>
allVars == <<vars, relayerVars>>

\* The light client runs the calls of a new process beside those that are left.
FreeTask == CHOOSE t \in Tasks : task[t] = None

NoIter == [u |-> None, started |-> TRUE, lo |-> 0, hi |-> 0]

RelayerInit ==
    /\ Init
    /\ now = 1
    /\ updates = <<>>
    /\ receiving = TRUE
    /\ receiver_failures = 0
    /\ pc = "first" /\ relayer = FreeTask
    /\ update = None
    /\ slot_last = 0
    /\ slot_start = 0 /\ todo = None /\ iter = NoIter
    /\ failures = 0

--------------------------------------------------------------------------------
(* sync_update::spawn_receiver *)

\* Mutant of NewestUpdate: the finality update is sent although a committee comes with
\* the other one.
NewestFinality ==
    Beacon[now].finality

\* receive: the update of the period brings the next committee, the finality update is
\* sent only when it is newer.
NewestUpdate ==
    LET f == Beacon[now].finality
        b == Beacon[now].best[Period(f.fin)]
    IN IF b.fin >= f.fin THEN b ELSE f

Receive ==
    /\ receiving
    /\ Beacon[now].best[Period(Beacon[now].finality.fin)] # None
    /\ Len(updates) < SIZE_CHANNEL
    /\ pc # "exited"
    /\ updates' = Append(updates, NewestUpdate)
    /\ UNCHANGED <<vars, now, receiving, receiver_failures, pc, relayer, update, slot_last, replay, failures>>

\* A request fails, or the node has no update of the period yet.
ReceiveFails ==
    /\ receiving
    /\ \/ failures < MaxFailures /\ failures' = failures + 1
       \/ Beacon[now].best[Period(Beacon[now].finality.fin)] = None /\ UNCHANGED failures
    /\ receiver_failures' = receiver_failures + 1
    /\ receiving' = (receiver_failures + 1 < COUNT_FAILURE)
    /\ UNCHANGED <<vars, now, updates, pc, relayer, update, slot_last, replay>>

--------------------------------------------------------------------------------
(* SlotsBatchIter: right open intervals of a size, in backward direction *)

\* Iter::next: the batch begins at lo and leaves the slots before rest.
NextBatch(lo, hi) ==
    IF lo + SIZE_BATCH <= hi THEN [lo |-> hi - SIZE_BATCH + 1, rest |-> hi - SIZE_BATCH + 1]
                             ELSE [lo |-> lo, rest |-> lo]

\* Iter::new.
BatchesExist(lo, hi) == SIZE_BATCH >= 2 /\ lo < hi

--------------------------------------------------------------------------------
(* Relayer::run *)

GapTooLarge(u) == Epoch(finalized_header) + MAX_EPOCHS_GAP <= Epoch(u.fin)
NotActual(u) ==
    /\ ~GapTooLarge(u) /\ u.sig > u.att /\ u.att >= u.fin /\ Signed(u)
    /\ u.fin <= finalized_header

Exit ==
    /\ pc' = "exited"
    /\ receiving' = FALSE
    /\ UNCHANGED <<now, updates, receiver_failures, relayer, update, slot_last, replay>>

\* Takes an update; in the main loop one with the slot of the last is skipped.
TakeUpdate ==
    /\ pc \in {"first", "main"}
    /\ update = None
    /\ updates # <<>>
    /\ updates' = Tail(updates)
    /\ update' = IF pc = "main" /\ Head(updates).fin = slot_last THEN None ELSE Head(updates)
    /\ UNCHANGED <<vars, now, receiving, receiver_failures, pc, relayer, slot_last, replay, failures>>

\* try_to_apply: the call is sent and waits for the BLS built-in actor.
SendUpdate ==
    /\ pc \in {"first", "main"}
    /\ update # None
    /\ SyncUpdate(relayer, update)
    /\ UNCHANGED relayerVars

UpdateApplied ==
    /\ pc \in {"first", "main"}
    /\ ApplySyncUpdate(relayer)
    /\ slot_last' = update.fin
    /\ update' = None
    /\ pc' = "main"
    /\ UNCHANGED <<now, updates, receiving, receiver_failures, relayer, replay, failures>>

\* The program refuses the update: it is old, or cannot be verified.
UpdateRefused ==
    /\ pc \in {"first", "main"}
    /\ update # None /\ task[relayer] = None
    /\ ~GapTooLarge(update) /\ ~Verified(update)
    /\ slot_last' = IF NotActual(update) THEN update.fin
                    ELSE IF pc = "first" THEN 0 ELSE slot_last
    /\ update' = None
    /\ pc' = "main"
    /\ UNCHANGED <<vars, now, updates, receiving, receiver_failures, relayer, replay, failures>>

\* Mutant of Unfinished: an unfinished replay is not taken up again.
UnfinishedIgnored == FALSE

Unfinished == replay_back # None

\* ReplayBackRequired: only the first update starts a replay.  A replay that was left
\* unfinished is finished first.
ReplayRequired ==
    LET checkpoint == Last(checkpoints.items) IN
    /\ pc = "first"
    /\ update # None /\ task[relayer] = None
    /\ GapTooLarge(update)
    /\ pc' = "replay"
    /\ todo' = None
    /\ IF Unfinished
       THEN /\ BatchesExist(checkpoint, replay_back.last)
            /\ slot_start' = replay_back.fin
            /\ iter' = [u |-> None, started |-> TRUE, lo |-> checkpoint, hi |-> replay_back.last]
       ELSE slot_start' = checkpoint /\ iter' = NoIter
    /\ UNCHANGED <<vars, now, updates, receiving, receiver_failures, relayer, update, slot_last, failures>>

\* The checkpoints have passed the unfinished replay: no batch leads back to them.
CannotResume ==
    /\ pc = "first"
    /\ update # None /\ task[relayer] = None
    /\ GapTooLarge(update)
    /\ Unfinished /\ ~BatchesExist(Last(checkpoints.items), replay_back.last)
    /\ Exit
    /\ UNCHANGED <<vars, failures>>

ReplayRequiredInLoop ==
    /\ pc = "main"
    /\ update # None /\ task[relayer] = None
    /\ GapTooLarge(update)
    /\ Exit
    /\ UNCHANGED <<vars, failures>>

--------------------------------------------------------------------------------
(* replay_back::execute *)

Batch == NextBatch(iter.lo, iter.hi)
InBatch == {b \in Chain : Batch.lo <= b /\ b < iter.hi}
Headers == Cardinality(InBatch)

\* The newest header of the batch is the parent of the last one that the program has: if
\* not, process_headers takes none of them.
Connected == Parent(replay_back.last) \in InBatch /\ \A b \in InBatch : b <= Parent(replay_back.last)
BatchesLeft == iter.lo < iter.hi

\* The updates of the periods after the one that was reached, as far as the node has
\* them and no more than one request asks for; the update at hand ends the replay, and
\* is the last one if it is none of them.
FetchUpdates ==
    LET best     == Beacon[now].best
        after(i) == Period(slot_start) + i
        has(i)   == after(i) \in DOMAIN best /\ best[after(i)] # None
        ends(i)  == i > 0 /\ best[after(i)].fin = update.fin
    IN /\ pc = "replay" /\ todo = None /\ ~BatchesLeft
       /\ \E n \in 0..MAX_REQUEST_LIGHT_CLIENT_UPDATES :
             LET us == [i \in 1..n |-> best[after(i)]] IN
             /\ \A i \in 1..n : has(i) /\ (i < n => ~ends(i))
             /\ ends(n) \/ n = MAX_REQUEST_LIGHT_CLIENT_UPDATES \/ ~has(n + 1)
             /\ todo' = IF ends(n) THEN us ELSE Append(us, update)
       /\ UNCHANGED <<vars, now, updates, receiving, receiver_failures, pc, relayer, update, slot_last,
                      slot_start, iter, failures>>

NextInterval ==
    /\ pc = "replay" /\ todo \notin {None, <<>>} /\ ~BatchesLeft
    /\ BatchesExist(slot_start, Head(todo).fin)
    /\ iter' = [u |-> Head(todo), started |-> FALSE, lo |-> slot_start, hi |-> Head(todo).fin]
    /\ slot_start' = Head(todo).fin
    /\ todo' = Tail(todo)
    /\ UNCHANGED <<vars, now, updates, receiving, receiver_failures, pc, relayer, update, slot_last, failures>>

\* replay_back_slots_start sends the first batch with the update.
ReplayStarts ==
    /\ pc = "replay" /\ BatchesLeft /\ ~iter.started
    /\ ReplayBackStart(relayer, iter.u, Headers)
    /\ UNCHANGED relayerVars

ReplayStarted ==
    /\ pc = "replay"
    /\ ApplyReplayBackStart(relayer)
    /\ iter' = [iter EXCEPT !.started = TRUE, !.hi = Batch.rest]
    /\ UNCHANGED <<now, updates, receiving, receiver_failures, pc, relayer, update, slot_last,
                   slot_start, todo, failures>>

\* replay_back_slots.
ReplayProcess ==
    /\ pc = "replay" /\ BatchesLeft /\ iter.started
    /\ ReplayBackProcess(IF Connected THEN Headers ELSE 0)
    /\ iter' = [iter EXCEPT !.hi = Batch.rest]
    /\ UNCHANGED <<now, updates, receiving, receiver_failures, pc, relayer, update, slot_last,
                   slot_start, todo, failures>>

ReplayDone ==
    /\ pc = "replay" /\ ~BatchesLeft /\ todo = <<>>
    /\ pc' = "main"
    /\ slot_last' = update.fin
    /\ update' = None
    /\ UNCHANGED <<vars, now, updates, receiving, receiver_failures, relayer, replay, failures>>

\* An interval is empty, the program refuses the call, or its replay is over already.
ReplayFails ==
    /\ pc = "replay" /\ task[relayer] = None
    /\ \/ /\ ~BatchesLeft /\ todo \notin {None, <<>>}
          /\ ~BatchesExist(slot_start, Head(todo).fin)
       \/ /\ BatchesLeft /\ ~iter.started
          /\ replay_back # None \/ ~Verified(iter.u)
       \/ BatchesLeft /\ iter.started /\ replay_back = None
    /\ Exit
    /\ UNCHANGED <<vars, failures>>

--------------------------------------------------------------------------------
\* A call fails, before the program has taken it or while it waits for the answer: what
\* the program has begun goes on.
CallFails ==
    /\ pc \in {"first", "main", "replay"} /\ update # None
    /\ failures < MaxFailures
    /\ failures' = failures + 1
    /\ Exit
    /\ UNCHANGED vars

\* A call that no process waits for any more ends.
AbandonedCallEnds ==
    \E t \in Tasks :
        /\ t # relayer \/ pc = "exited"
        /\ ApplySyncUpdate(t) \/ ApplyReplayBackStart(t) \/ Fail(t)
        /\ UNCHANGED relayerVars

\* The receiver has ended and the channel is empty.
ChannelClosed ==
    /\ pc \in {"first", "main"} /\ update = None
    /\ updates = <<>> /\ ~receiving
    /\ Exit
    /\ UNCHANGED <<vars, failures>>

\* SIGINT in the main loop.
Interrupted ==
    /\ pc = "main" /\ update = None
    /\ failures < MaxFailures
    /\ failures' = failures + 1
    /\ Exit
    /\ UNCHANGED vars

Restart ==
    /\ pc = "exited"
    /\ \E t \in Tasks : task[t] = None
    /\ relayer' = FreeTask
    /\ receiving' = TRUE /\ receiver_failures' = 0
    /\ updates' = <<>> /\ update' = None /\ slot_last' = 0
    /\ slot_start' = 0 /\ todo' = None /\ iter' = NoIter
    /\ pc' = "first"
    /\ UNCHANGED <<vars, now, failures>>

BeaconAdvances ==
    /\ now < Len(Beacon)
    /\ now' = now + 1
    /\ UNCHANGED <<vars, updates, receiving, receiver_failures, pc, relayer, update, slot_last, replay, failures>>

Work ==
    \/ TakeUpdate \/ SendUpdate \/ UpdateApplied \/ UpdateRefused
    \/ ReplayRequired \/ CannotResume \/ ReplayRequiredInLoop
    \/ FetchUpdates \/ NextInterval \/ ReplayStarts \/ ReplayDone \/ ReplayFails
    \/ ChannelClosed

ReplayStep == ReplayStarted \/ ReplayProcess

RelayerNext ==
    \/ Receive \/ ReceiveFails \/ Work \/ ReplayStep
    \/ CallFails \/ AbandonedCallEnds \/ Interrupted \/ Restart \/ BeaconAdvances

RelayerSpec == RelayerInit /\ [][RelayerNext]_allVars

\* Weak fairness of ReplayStep, with the condition under which it is enabled written out.
ReplayStepEnabled ==
    /\ pc = "replay"
    /\ \/ task[relayer] # None
       \/ BatchesLeft /\ iter.started /\ replay_back # None
ReplayFairness == []<>~ReplayStepEnabled \/ []<><<ReplayStep>>_allVars

\* The receiver polls for ever, the relayer goes on, an operator restarts it, and the
\* beacon chain finalizes.
RelayerFairSpec ==
    /\ RelayerSpec
    /\ WF_allVars(Receive) /\ WF_allVars(Work) /\ ReplayFairness
    /\ WF_allVars(Restart) /\ WF_allVars(BeaconAdvances)

--------------------------------------------------------------------------------
\* In the end the light client has the last finalized header, over updates, replays and
\* replays taken up again after a crash, as long as the operator restarts the relayer, no
\* update made the client enter a period without its committee, none was applied while a
\* replay was unfinished (the relayer can then never replay again: CannotResume), and no
\* call of an ended process was overtaken: then a stale verification is applied.
LightClientFollows ==
    <>[](skipped \/ mixed \/ raced \/ finalized_header >= Last(Beacon).finality.fin)

\* At some time a finality update was ahead of the best update of period p.
FinalityWasAhead(p) ==
    \E i \in 1..now :
        LET f == Beacon[i].finality
            b == Beacon[i].best[Period(f.fin)]
        IN b # None /\ b.fin < f.fin /\ Period(f.fin) = p

\* When the light client enters a period it gets the committee after it, in whatever order
\* updates, batches and calls of ended processes are applied, unless the relayer looked
\* when a finality update was already ahead of the period's best update, which alone
\* carries the committee, or a stale verification was applied.
EntersPeriodsWithCommittee ==
    [][Period(finalized_header') # Period(finalized_header)
         => \/ sync_committee_next' = Period(finalized_header') + 1
            \/ FinalityWasAhead(Period(finalized_header'))
            \/ raced']_allVars
================================================================================
