--------------------------- MODULE LightClientProofs ---------------------------
(****************************************************************************)
(* The light client, for every chain, set of updates and number of concurrent *)
(* messages, and the relayer on top of it, for every beacon node.             *)
(*                                                                           *)
(* Committees: unless a stale verification was applied, a period was entered  *)
(* without its next committee, or SyncUpdate ran during a replay, the stored  *)
(* committees are those of the finalized header.  A verification that is      *)
(* still in flight, or that a replay has stored, must bring the right         *)
(* committee too: it is the one after the finalized period, and that period   *)
(* follows the one the verification started from.                            *)
(*                                                                           *)
(* Checkpoints: they ascend to the finalized header through the ring buffer,  *)
(* and a replay descends from the header that it will finalize.               *)
(*                                                                           *)
(* The relayer: it enters a period without its committee only for a finality  *)
(* update that was ahead of the best update.                                  *)
(****************************************************************************)
EXTENDS CheckpointRelayer, FiniteSetTheorems, NaturalsInduction, WellFoundedInduction, TLAPS

\* What a suspended message will write fits the header that it read.
PendingInv ==
    /\ DOMAIN task = Tasks
    /\ \A t \in Tasks :
          (task[t] # None /\ task[t].committee # None) =>
              /\ task[t].committee = Period(task[t].fin) + 1
              /\ Period(task[t].fin) = Period(task[t].slot) + 1

\* What a replay will write fits the header that is stored now.
ReplayInv ==
    (replay_back # None /\ replay_back.committee # None) =>
        \/ raced
        \/ mixed
        \/ /\ replay_back.committee = Period(replay_back.fin) + 1
           /\ Period(replay_back.fin) = Period(finalized_header) + 1

\* The inductive invariant.
IInv == PendingInv /\ ReplayInv /\ CommitteesMatchUnlessDisturbed

\* verify only hands out the committee after the period that it finalizes, and
\* only when that period follows the stored one.
LEMMA CommitteeUpdateFits ==
    ASSUME NEW u, CommitteeUpdate(u) # None
    PROVE  /\ CommitteeUpdate(u) = Period(u.fin) + 1
           /\ Period(u.fin) = Period(finalized_header) + 1
BY DEF CommitteeUpdate

\* A message that starts leaves all but its own task alone.
LEMMA StartStep ==
    ASSUME IInv, NEW t \in Tasks, NEW u, NEW n, SyncUpdate(t, u) \/ ReplayBackStart(t, u, n)
    PROVE  IInv'
<1>1. UNCHANGED <<finalized_header, sync_committee_current, sync_committee_next,
                  replay_back, raced, skipped, mixed>>
  BY DEF SyncUpdate, ReplayBackStart
<1>2. ReplayInv' /\ CommitteesMatchUnlessDisturbed'
  BY <1>1 DEF IInv, ReplayInv, CommitteesMatchUnlessDisturbed, CommitteesMatch, Period, Epoch
<1>3. PICK s, k : task' = [task EXCEPT ![t] =
          [service |-> s, slot |-> finalized_header, fin |-> u.fin,
           committee |-> CommitteeUpdate(u), batch |-> k]]
  BY DEF SyncUpdate, ReplayBackStart
<1>4. PendingInv'
  <2>1. DOMAIN task' = Tasks
    BY <1>3 DEF IInv, PendingInv
  <2>2. ASSUME NEW q \in Tasks, task'[q] # None, task'[q].committee # None
        PROVE  /\ task'[q].committee = Period(task'[q].fin) + 1
               /\ Period(task'[q].fin) = Period(task'[q].slot) + 1
    <3>1. CASE q = t
      <4>1. task'[q].committee = CommitteeUpdate(u) /\ task'[q].fin = u.fin
            /\ task'[q].slot = finalized_header
        BY <1>3, <3>1 DEF IInv, PendingInv
      <4>2. QED
        BY <4>1, <2>2, CommitteeUpdateFits
    <3>2. CASE q # t
      <4>1. task'[q] = task[q]
        BY <1>3, <3>2 DEF IInv, PendingInv
      <4>2. QED
        BY <4>1, <2>2 DEF IInv, PendingInv
    <3>3. QED
      BY <3>1, <3>2
  <2>3. QED
    BY <2>1, <2>2 DEF PendingInv, Period, Epoch
<1>5. QED
  BY <1>2, <1>4 DEF IInv

\* A message that ends leaves the other suspended messages as they are.
LEMMA EndStep ==
    ASSUME PendingInv, NEW t \in Tasks, task' = [task EXCEPT ![t] = None]
    PROVE  PendingInv'
BY DEF PendingInv, Period, Epoch

\* Writing a verification of the header that is stored keeps the committees right.
LEMMA WriteStep ==
    ASSUME CommitteesMatch, NEW fin, NEW committee,
           committee # None => /\ committee = Period(fin) + 1
                               /\ Period(fin) = Period(finalized_header) + 1,
           committee = None => Period(fin) = Period(finalized_header),
           finalized_header' = fin,
           Rotate(committee)
    PROVE  CommitteesMatch'
<1>1. CASE committee = None
  BY <1>1 DEF CommitteesMatch, Rotate, Period, Epoch
<1>2. CASE committee # None
  BY <1>2 DEF CommitteesMatch, Rotate, Period, Epoch
<1>3. QED
  BY <1>1, <1>2

\* The end of a SyncUpdate.
LEMMA ApplySyncUpdateStep ==
    ASSUME IInv, NEW t \in Tasks, ApplySyncUpdate(t)
    PROVE  IInv'
<1>1. PendingInv'
  BY EndStep DEF IInv, ApplySyncUpdate
<1>2. ReplayInv'
  BY DEF ReplayInv, ApplySyncUpdate
<1>3. CommitteesMatchUnlessDisturbed'
  <2>1. SUFFICES ASSUME ~raced', ~skipped', ~mixed'
                 PROVE  CommitteesMatch'
    BY DEF CommitteesMatchUnlessDisturbed
  <2>2. CommitteesMatch
    BY <2>1 DEF IInv, CommitteesMatchUnlessDisturbed, ApplySyncUpdate
  <2>3. task[t].slot = finalized_header
    BY <2>1 DEF ApplySyncUpdate
  <2>4. task[t].committee # None =>
            /\ task[t].committee = Period(task[t].fin) + 1
            /\ Period(task[t].fin) = Period(finalized_header) + 1
    BY <2>3 DEF IInv, PendingInv, ApplySyncUpdate
  <2>5. task[t].committee = None => Period(task[t].fin) = Period(finalized_header)
    BY <2>1 DEF ApplySyncUpdate
  <2>6. finalized_header' = task[t].fin /\ Rotate(task[t].committee)
    BY DEF ApplySyncUpdate
  <2>7. QED
    BY <2>2, <2>4, <2>5, <2>6, WriteStep
<1>4. QED
  BY <1>1, <1>2, <1>3 DEF IInv

\* Headers are processed for a replay whose committee fits.
LEMMA ProcessHeadersStep ==
    ASSUME CommitteesMatchUnlessDisturbed, NEW start, NEW n, ProcessHeaders(start, n),
           raced => raced', mixed' = mixed,
           start.committee # None =>
               \/ raced'
               \/ mixed
               \/ /\ start.committee = Period(start.fin) + 1
                  /\ Period(start.fin) = Period(finalized_header) + 1
    PROVE  ReplayInv' /\ CommitteesMatchUnlessDisturbed'
<1> DEFINE rb == Replayed(start, n)
<1>1. CASE ~Reached(rb)
  <2>1. /\ replay_back' = [fin |-> start.fin, committee |-> start.committee,
                           cps |-> rb.cps, last |-> rb.last]
        /\ UNCHANGED <<finalized_header, sync_committee_current, sync_committee_next, skipped>>
    BY <1>1 DEF ProcessHeaders
  <2>2. ReplayInv'
    <3>1. replay_back'.fin = start.fin /\ replay_back'.committee = start.committee
      BY <2>1
    <3>2. QED
      BY <2>1, <3>1 DEF ReplayInv, Period, Epoch
  <2>3. CommitteesMatchUnlessDisturbed'
    BY <2>1 DEF CommitteesMatchUnlessDisturbed, CommitteesMatch, Period, Epoch
  <2>4. QED
    BY <2>2, <2>3
<1>2. CASE Reached(rb)
  <2>1. /\ replay_back' = None
        /\ Rotate(start.committee)
        /\ finalized_header' = start.fin
        /\ skipped' = (skipped \/ (start.committee = None
                                   /\ Period(start.fin) # Period(finalized_header)))
    BY <1>2 DEF ProcessHeaders
  <2>2. ReplayInv'
    BY <2>1 DEF ReplayInv
  <2>3. CommitteesMatchUnlessDisturbed'
    <3>1. SUFFICES ASSUME ~raced', ~skipped', ~mixed'
                   PROVE  CommitteesMatch'
      BY DEF CommitteesMatchUnlessDisturbed
    <3>2. CommitteesMatch
      BY <2>1, <3>1 DEF CommitteesMatchUnlessDisturbed
    <3>3. start.committee = None => Period(start.fin) = Period(finalized_header)
      BY <2>1, <3>1
    <3>4. QED
      BY <2>1, <3>1, <3>2, <3>3, WriteStep
  <2>4. QED
    BY <2>2, <2>3
<1>3. QED
  BY <1>1, <1>2

\* The end of ReplayBack.start.
LEMMA ApplyReplayBackStartStep ==
    ASSUME IInv, NEW t \in Tasks, ApplyReplayBackStart(t)
    PROVE  IInv'
<1> DEFINE start == [fin |-> task[t].fin, committee |-> task[t].committee,
                     cps |-> <<task[t].fin>>, last |-> task[t].fin]
<1>1. PendingInv'
  BY EndStep DEF IInv, ApplyReplayBackStart
<1>2. /\ ProcessHeaders(start, task[t].batch)
      /\ raced' = (raced \/ task[t].slot # finalized_header)
      /\ mixed' = mixed
      /\ task[t] # None
  BY DEF ApplyReplayBackStart
<1>3. start.fin = task[t].fin /\ start.committee = task[t].committee
  OBVIOUS
<1>4. start.committee # None =>
          \/ raced'
          \/ mixed
          \/ /\ start.committee = Period(start.fin) + 1
             /\ Period(start.fin) = Period(finalized_header) + 1
  <2>1. SUFFICES ASSUME start.committee # None, ~raced'
                 PROVE  /\ start.committee = Period(start.fin) + 1
                        /\ Period(start.fin) = Period(finalized_header) + 1
    OBVIOUS
  <2>2. task[t].slot = finalized_header
    BY <1>2, <2>1
  <2>3. /\ task[t].committee = Period(task[t].fin) + 1
        /\ Period(task[t].fin) = Period(task[t].slot) + 1
    BY <1>2, <1>3, <2>1 DEF IInv, PendingInv
  <2>4. QED
    BY <1>3, <2>2, <2>3
<1>5. CommitteesMatchUnlessDisturbed
  BY DEF IInv
<1>6. ReplayInv' /\ CommitteesMatchUnlessDisturbed'
  <2> HIDE DEF start
  <2> QED
    BY <1>2, <1>4, <1>5, ProcessHeadersStep
<1>7. QED
  BY <1>1, <1>6 DEF IInv

\* ReplayBack.process.
LEMMA ReplayBackProcessStep ==
    ASSUME IInv, NEW n, ReplayBackProcess(n)
    PROVE  IInv'
<1>1. PendingInv'
  BY DEF IInv, PendingInv, ReplayBackProcess, Period, Epoch
<1>2. ReplayInv' /\ CommitteesMatchUnlessDisturbed'
  BY ProcessHeadersStep DEF IInv, ReplayInv, ReplayBackProcess
<1>3. QED
  BY <1>1, <1>2 DEF IInv

\* A message that fails changes nothing but its task.
LEMMA FailStep ==
    ASSUME IInv, NEW t \in Tasks, Fail(t)
    PROVE  IInv'
<1>1. PendingInv'
  BY EndStep DEF IInv, Fail
<1>2. ReplayInv' /\ CommitteesMatchUnlessDisturbed'
  BY DEF IInv, Fail, ReplayInv, CommitteesMatchUnlessDisturbed, CommitteesMatch, Period, Epoch
<1>3. QED
  BY <1>1, <1>2 DEF IInv

\* The light client starts in the inductive invariant and every step keeps it.
THEOREM Invariance == Spec => []IInv
<1>1. Init => IInv
  BY DEF Init, IInv, PendingInv, ReplayInv, CommitteesMatchUnlessDisturbed, CommitteesMatch
<1>2. IInv /\ [Next]_vars => IInv'
  <2>1. SUFFICES ASSUME IInv, [Next]_vars
                 PROVE  IInv'
    OBVIOUS
  <2>2. CASE \E t \in Tasks, u \in Updates : SyncUpdate(t, u)
    BY <2>1, <2>2, StartStep
  <2>3. CASE \E t \in Tasks, u \in Updates, n \in 0..MAX_BATCH : ReplayBackStart(t, u, n)
    BY <2>1, <2>3, StartStep
  <2>4. CASE \E t \in Tasks : ApplySyncUpdate(t) \/ ApplyReplayBackStart(t) \/ Fail(t)
    BY <2>1, <2>4, ApplySyncUpdateStep, ApplyReplayBackStartStep, FailStep
  <2>5. CASE \E n \in 1..MAX_BATCH : ReplayBackProcess(n)
    BY <2>1, <2>5, ReplayBackProcessStep
  <2>6. CASE UNCHANGED vars
    BY <2>1, <2>6 DEF vars, IInv, PendingInv, ReplayInv, CommitteesMatchUnlessDisturbed,
                      CommitteesMatch, Period, Epoch
  <2>7. QED
    BY <2>1, <2>2, <2>3, <2>4, <2>5, <2>6 DEF Next
<1>3. QED
  BY <1>1, <1>2, PTL DEF Spec

\* The stored sync committees are those of the finalized header's period and the
\* next, unless a stale verification was applied, a period was entered without its
\* committee, or SyncUpdate ran during a replay.
THEOREM CommitteesFollowTheHeader == Spec => []CommitteesMatchUnlessDisturbed
<1>1. IInv => CommitteesMatchUnlessDisturbed
  BY DEF IInv
<1>2. QED
  BY <1>1, Invariance, PTL

--------------------------------------------------------------------------------
(* Lookups.  Unless a stale verification was applied, the stored checkpoints  *)
(* ascend up to the finalized header, and a replay descends from the header   *)
(* that it will finalize: what it moves into the buffer fits behind the last  *)
(* checkpoint.                                                                *)

Ascending(s) == \A i, j \in DOMAIN s : i < j => s[i] < s[j]

\* Neighbouring slots are less than MAX_EPOCHS_GAP epochs apart.
Near(s) == \A i \in 1..(Len(s) - 1) : Epoch(s[i + 1]) < Epoch(s[i]) + MAX_EPOCHS_GAP

\* The chain has a block within every SLOTS_PER_EPOCH slots.
EpochsHaveBlocks ==
    /\ MAX_EPOCHS_GAP >= 3
    /\ \A b \in Chain : Parent(b) # None => b <= Parent(b) + SLOTS_PER_EPOCH

Stored(cps) ==
    /\ cps.items \in Seq(Nat) /\ cps.items # <<>> /\ Ascending(cps.items)
    /\ cps.start \in 0..(STORED_CHECKPOINTS_COUNT - 1)

Descends(rb) ==
    /\ rb = [fin |-> rb.fin, committee |-> rb.committee, cps |-> rb.cps, last |-> rb.last]
    /\ rb.cps \in Seq(Nat) /\ rb.cps # <<>>
    /\ \A i, j \in DOMAIN rb.cps : i < j => rb.cps[j] < rb.cps[i]
    /\ rb.cps[1] = rb.fin
    /\ rb.last \in Chain /\ rb.last <= Last(rb.cps)

NearReplay(rb) ==
    /\ Last(rb.cps) <= rb.last + SLOTS_PER_EPOCH
    /\ \A i \in 1..(Len(rb.cps) - 1) : Epoch(rb.cps[i]) < Epoch(rb.cps[i + 1]) + MAX_EPOCHS_GAP

\* The inductive invariant of the checkpoints.
CheckpointInv ==
    ~raced =>
        /\ Stored(checkpoints) /\ Last(checkpoints.items) = finalized_header
        /\ replay_back # None => Descends(replay_back)
        /\ EpochsHaveBlocks =>
              Near(checkpoints.items) /\ (replay_back # None => NearReplay(replay_back))

\* A suspended message will write a header after the one that it read.
StartedInv ==
    /\ DOMAIN task = Tasks
    /\ \A t \in Tasks :
          task[t] # None =>
              /\ task[t].fin \in Chain /\ task[t].slot < task[t].fin /\ task[t].batch \in Nat
              /\ task[t].service = "SyncUpdate" =>
                    Epoch(task[t].fin) < Epoch(task[t].slot) + MAX_EPOCHS_GAP

\* Induction: every non-empty set of naturals has a least element.
LEMMA LeastNatural ==
    ASSUME NEW S, S \subseteq Nat, S # {}
    PROVE  \E n \in S : \A m \in S : n <= m
<1> DEFINE R == OpToRel(<, Nat)
<1>1. R = {p \in Nat \X Nat : p[1] < p[2]}
  BY DEF OpToRel
<1>2. IsWellFoundedOn(R, Nat)
  BY NatLessThanWellFounded
<1> HIDE DEF R
<1>3. PICK n \in S : \A m \in S : <<m, n>> \notin R
  BY <1>2, WFMin
<1>4. \A a, b \in Nat : a < b => <<a, b>> \in R
  BY <1>1
<1>5. ASSUME NEW m \in S PROVE n <= m
  <2>1. m \in Nat /\ n \in Nat /\ <<m, n>> \notin R
    BY <1>3
  <2>2. ~(m < n)
    BY <1>4, <2>1
  <2> QED
    BY <2>1, <2>2
<1> QED
  BY <1>5

\* The parent is the last block before a slot that has one.
LEMMA ParentMax ==
    ASSUME NEW slot \in Nat, {b \in Chain : b < slot} # {}
    PROVE  /\ Parent(slot) # None /\ Parent(slot) \in Chain /\ Parent(slot) \in Nat /\ Parent(slot) < slot
           /\ \A b \in Chain : b < slot => b <= Parent(slot)
<1> DEFINE below == {b \in Chain : b < slot}
           far == {slot - b : b \in below}
<1>1. below # {} /\ Parent(slot) = CHOOSE b \in below : \A c \in below : c <= b
  BY DEF Parent
<1>2. below \subseteq Nat /\ far \subseteq Nat /\ far # {}
  <2>1. \A b \in below : b \in Nat /\ b < slot
    BY ChainAssumption
  <2>2. below # {}
    OBVIOUS
  <2> HIDE DEF below
  <2>3. \A b \in below : slot - b \in Nat
    BY <2>1
  <2> QED
    BY <2>1, <2>2, <2>3
<1>3. PICK n \in far : \A m \in far : n <= m
  <2> HIDE DEF far
  <2> QED
    BY <1>2, LeastNatural
<1>4. PICK b \in below : n = slot - b
  BY <1>3
<1>5. ASSUME NEW c \in below PROVE c <= b
  <2>1. slot - b <= slot - c
    BY <1>3, <1>4
  <2> QED
    BY <1>2, <2>1
<1>6. Parent(slot) \in below /\ \A c \in below : c <= Parent(slot)
  BY <1>1, <1>5
<1> QED
  BY <1>2, <1>6, ChainAssumption

LEMMA ParentOf ==
    ASSUME NEW slot \in Nat, Parent(slot) # None
    PROVE  Parent(slot) \in Chain /\ Parent(slot) \in Nat /\ Parent(slot) < slot
<1>1. {b \in Chain : b < slot} # {}
  BY DEF Parent
<1> QED
  BY <1>1, ParentMax

\* Slots that are two epochs' length apart.
LEMMA TwoEpochs ==
    ASSUME NEW x \in Nat, NEW y \in Nat, x <= y + SLOTS_PER_EPOCH + SLOTS_PER_EPOCH, MAX_EPOCHS_GAP >= 3
    PROVE  Epoch(x) < Epoch(y) + MAX_EPOCHS_GAP
<1> DEFINE q == Epoch(x)
           p == Epoch(y)
           S == SLOTS_PER_EPOCH
<1>1. S \in Nat \ {0} /\ MAX_EPOCHS_GAP \in Nat
  BY SizesAssumption
<1>2. q \in Nat /\ p \in Nat /\ S * q <= x /\ y < S * (p + 1)
  BY <1>1 DEF Epoch
<1> HIDE DEF q, p, S
<1>3. S * q < S * (p + 3)
  <2>1. S * (p + 3) = S * (p + 1) + S + S
    BY <1>1, <1>2
  <2>2. S * q \in Nat /\ S * (p + 1) \in Nat
    BY <1>1, <1>2
  <2> QED
    BY <1>1, <1>2, <2>1, <2>2 DEF S
<1>4. q < p + 3
  <2>1. ASSUME q >= p + 3 PROVE FALSE
    <3>1. S * q >= S * (p + 3)
      BY <1>1, <1>2, <2>1
    <3> QED
      BY <1>1, <1>2, <1>3, <3>1
  <2> QED
    BY <1>2, <2>1
<1> QED
  BY <1>1, <1>2, <1>4 DEF q, p

--------------------------------------------------------------------------------
(* The buffer. *)

\* The first hit of a sorted slice is the least one.
LEMMA SearchOf ==
    ASSUME NEW slice \in Seq(Nat), Ascending(slice), NEW slot \in Nat
    PROVE  \/ Search(slice, slot) = None /\ \A i \in DOMAIN slice : slice[i] < slot
           \/ /\ \E i \in DOMAIN slice : Search(slice, slot) = slice[i]
              /\ Search(slice, slot) \in Nat /\ Search(slice, slot) >= slot
              /\ \A i \in DOMAIN slice : slice[i] >= slot => Search(slice, slot) <= slice[i]
<1> DEFINE hits == {i \in DOMAIN slice : slice[i] >= slot}
           first == CHOOSE i \in hits : \A j \in hits : i <= j
<1>1. Search(slice, slot) = IF hits = {} THEN None ELSE slice[first]
  BY DEF Search
<1>2. Len(slice) \in Nat /\ DOMAIN slice = 1..Len(slice) /\ \A i \in DOMAIN slice : slice[i] \in Nat
  OBVIOUS
<1>3. CASE hits = {}
  BY <1>1, <1>2, <1>3
<1>4. CASE hits # {}
  <2>1. hits \subseteq Nat
    BY <1>2
  <2>2. \E i \in hits : \A j \in hits : i <= j
    <3> HIDE DEF hits
    <3> QED
      BY <1>4, <2>1, LeastNatural
  <2>3. first \in hits /\ \A j \in hits : first <= j
    BY <2>2
  <2> HIDE DEF first
  <2>4. first \in DOMAIN slice /\ slice[first] >= slot
    BY <2>3
  <2>5. ASSUME NEW i \in DOMAIN slice, slice[i] >= slot PROVE slice[first] <= slice[i]
    <3>1. first <= i
      BY <2>3, <2>5
    <3>2. CASE first = i
      BY <1>2, <2>4, <3>2
    <3>3. CASE first < i
      BY <1>2, <2>4, <3>3 DEF Ascending
    <3> QED
      BY <1>2, <2>4, <3>1, <3>2, <3>3
  <2> QED
    BY <1>1, <1>2, <1>4, <2>4, <2>5
<1> QED
  BY <1>3, <1>4

\* Wherever the buffer is cut, the two searches find the first hit of the whole.
LEMMA CheckpointOf ==
    ASSUME NEW cps, Stored(cps), NEW slot \in Nat
    PROVE  LET later == {c \in Range(cps.items) : c >= slot}
               got   == Checkpoint(cps, slot)
           IN IF later = {} THEN got = None ELSE got \in later /\ \A c \in later : got <= c
<1> DEFINE s     == cps.items
           size  == STORED_CHECKPOINTS_COUNT - cps.start
           cut   == IF size < Len(s) THEN size ELSE Len(s)
           left  == SubSeq(s, 1, cut)
           right == SubSeq(s, cut + 1, Len(s))
           got   == Checkpoint(cps, slot)
           later == {c \in Range(s) : c >= slot}
<1>1. got = IF Search(left, slot) # None THEN Search(left, slot) ELSE Search(right, slot)
  BY DEF Checkpoint
<1>2. /\ s \in Seq(Nat) /\ Len(s) \in Nat /\ DOMAIN s = 1..Len(s) /\ Ascending(s)
      /\ \A i \in 1..Len(s) : s[i] \in Nat
  BY DEF Stored
<1>3. cut \in 0..Len(s)
  <2>1. size \in Nat
    BY SizesAssumption DEF Stored
  <2> HIDE DEF size
  <2> QED
    BY <1>2, <2>1
<1> HIDE DEF cut, s, got
<1>4. /\ left \in Seq(Nat) /\ DOMAIN left = 1..cut /\ \A i \in 1..cut : left[i] = s[i]
      /\ right \in Seq(Nat) /\ DOMAIN right = 1..(Len(s) - cut)
      /\ \A i \in 1..(Len(s) - cut) : right[i] = s[i + cut]
  BY <1>2, <1>3
<1> HIDE DEF left, right
<1>5. Ascending(left)
  BY <1>2, <1>3, <1>4 DEF Ascending
<1>6. Ascending(right)
  <2> SUFFICES ASSUME NEW i \in 1..(Len(s) - cut), NEW j \in 1..(Len(s) - cut), i < j
               PROVE  right[i] < right[j]
    BY <1>4 DEF Ascending
  <2>1. i + cut \in DOMAIN s /\ j + cut \in DOMAIN s /\ i + cut < j + cut
    BY <1>2, <1>3
  <2> QED
    BY <1>2, <1>4, <2>1 DEF Ascending
<1>7. \A i \in 1..Len(s) : \/ i \in 1..cut
                           \/ i - cut \in 1..(Len(s) - cut) /\ s[i] = right[i - cut]
  <2> SUFFICES ASSUME NEW i \in 1..Len(s), i \notin 1..cut
               PROVE  i - cut \in 1..(Len(s) - cut) /\ s[i] = right[i - cut]
    OBVIOUS
  <2>1. i - cut \in 1..(Len(s) - cut) /\ i = (i - cut) + cut
    BY <1>2, <1>3
  <2> QED
    BY <1>4, <2>1
<1>8. None \notin Nat
  BY ChainAssumption
<1>9. CASE Search(left, slot) # None
  <2>1. /\ \E i \in 1..cut : got = left[i]
        /\ got \in Nat /\ got >= slot
        /\ \A i \in 1..cut : left[i] >= slot => got <= left[i]
    BY <1>1, <1>4, <1>5, <1>9, SearchOf
  <2>2. PICK k \in 1..cut : got = s[k]
    BY <1>4, <2>1
  <2>3. k \in 1..Len(s)
    BY <1>2, <1>3
  <2>4. ASSUME NEW i \in 1..Len(s), s[i] >= slot PROVE got <= s[i]
    <3>1. CASE i \in 1..cut
      BY <1>4, <2>1, <2>4, <3>1
    <3>2. CASE i \notin 1..cut
      <4>1. k < i
        BY <1>2, <1>3, <3>2
      <4>2. s[k] < s[i]
        BY <1>2, <2>3, <4>1 DEF Ascending
      <4> QED
        BY <1>2, <2>2, <2>3, <4>2
    <3> QED
      BY <3>1, <3>2
  <2> QED
    BY <1>2, <2>1, <2>2, <2>3, <2>4 DEF Range, s, got
<1>10. CASE Search(left, slot) = None
  <2>1. \A i \in 1..cut : s[i] < slot
    BY <1>4, <1>5, <1>8, <1>10, SearchOf
  <2>2. got = Search(right, slot)
    BY <1>1, <1>10
  <2>3. CASE got = None
    <3>1. \A i \in 1..(Len(s) - cut) : right[i] < slot
      BY <1>4, <1>6, <1>8, <2>2, <2>3, SearchOf
    <3>2. \A i \in 1..Len(s) : s[i] < slot
      BY <1>7, <2>1, <3>1
    <3>3. later = {}
      BY <1>2, <3>2 DEF Range
    <3> QED
      BY <2>3, <3>3 DEF s, got
  <2>4. CASE got # None
    <3>1. /\ \E i \in 1..(Len(s) - cut) : got = right[i]
          /\ got \in Nat /\ got >= slot
          /\ \A i \in 1..(Len(s) - cut) : right[i] >= slot => got <= right[i]
      BY <1>4, <1>6, <2>2, <2>4, SearchOf
    <3>2. PICK k \in 1..(Len(s) - cut) : got = right[k]
      BY <3>1
    <3>3. k + cut \in 1..Len(s) /\ got = s[k + cut]
      BY <1>2, <1>3, <1>4, <3>2
    <3>4. ASSUME NEW i \in 1..Len(s), s[i] >= slot PROVE got <= s[i]
      <4>1. i \notin 1..cut
        BY <1>2, <2>1, <3>4
      <4> QED
        BY <1>7, <3>1, <3>4, <4>1
    <3> QED
      BY <1>2, <3>1, <3>3, <3>4 DEF Range, s, got
  <2> QED
    BY <2>3, <2>4
<1> QED
  BY <1>9, <1>10

\* Slots behind the last one are pushed: the buffer still ascends, to the last of them.
LEMMA PushOf ==
    ASSUME NEW cps, Stored(cps), NEW slots \in Seq(Nat), slots # <<>>, Ascending(slots),
           Last(cps.items) < slots[1]
    PROVE  /\ Stored(Push(cps, slots)) /\ Last(Push(cps, slots).items) = Last(slots)
           /\ /\ Near(cps.items) /\ Near(slots)
              /\ Epoch(slots[1]) < Epoch(Last(cps.items)) + MAX_EPOCHS_GAP
              => Near(Push(cps, slots).items)
<1> DEFINE s       == cps.items
           all     == s \o slots
           dropped == IF Len(all) > STORED_CHECKPOINTS_COUNT
                      THEN Len(all) - STORED_CHECKPOINTS_COUNT ELSE 0
           kept    == SubSeq(all, dropped + 1, Len(all))
           start   == (cps.start + dropped) % STORED_CHECKPOINTS_COUNT
           n       == Len(s)
           k       == Len(slots)
<1>1. Push(cps, slots) = [items |-> kept, start |-> start]
  BY DEF Push
<1>2. /\ s \in Seq(Nat) /\ n \in Nat \ {0} /\ k \in Nat \ {0}
      /\ DOMAIN s = 1..n /\ DOMAIN slots = 1..k /\ cps.start \in Nat
      /\ Ascending(s)
      /\ \A i \in 1..n : s[i] \in Nat
      /\ \A i \in 1..k : slots[i] \in Nat
      /\ STORED_CHECKPOINTS_COUNT \in Nat \ {0}
  BY SizesAssumption, SMTT(30) DEF Stored
<1>3. /\ all \in Seq(Nat) /\ Len(all) = n + k /\ DOMAIN all = 1..(n + k)
      /\ \A i \in 1..n : all[i] = s[i]
      /\ \A i \in 1..(n + k) : i > n => all[i] = slots[i - n]
  BY <1>2
<1> HIDE DEF s, n, k, all
<1>4. dropped \in Nat /\ dropped < n + k
  BY <1>2, <1>3
<1> HIDE DEF dropped
<1>5. /\ kept \in Seq(Nat) /\ Len(kept) = n + k - dropped /\ DOMAIN kept = 1..(n + k - dropped)
      /\ \A i \in 1..(n + k - dropped) : kept[i] = all[i + dropped]
  <2>1. dropped + 1 \in 1..Len(all) + 1 /\ Len(all) \in Nat /\ Len(all) = n + k
        /\ \A i \in 1..(n + k - dropped) : i + dropped \in DOMAIN all
    BY <1>2, <1>3, <1>4
  <2>2. kept \in Seq(Nat) /\ Len(kept) = n + k - dropped
    BY <1>2, <1>3, <1>4, <2>1, SMTT(30)
  <2>3. \A i \in 1..(n + k - dropped) : kept[i] = all[i + dropped]
    <3>1. PICK m \in Nat : m = Len(all)
      BY <2>1
    <3>2. m - (dropped + 1) + 1 = n + k - dropped
      BY <1>2, <1>4, <2>1, <3>1
    <3>3. kept = [i \in 1..(m - (dropped + 1) + 1) |-> all[i + (dropped + 1) - 1]]
      BY <1>3, <1>4, <3>1
    <3>4. \A i \in 1..(n + k - dropped) : i + (dropped + 1) - 1 = i + dropped
      BY <1>4
    <3> HIDE DEF kept
    <3> QED
      BY <3>2, <3>3, <3>4
  <2> HIDE DEF kept
  <2> QED
    BY <2>2, <2>3
<1> HIDE DEF kept
<1>6. start \in 0..(STORED_CHECKPOINTS_COUNT - 1)
  BY <1>2, <1>4, SMTT(30)
<1> HIDE DEF start
<1>7. s[n] < slots[1]
  BY DEF Last, s, n
<1>8. \A i \in 1..(n + k) : \/ i \in 1..n /\ all[i] = s[i]
                            \/ i - n \in 1..k /\ all[i] = slots[i - n] /\ i > n
  BY <1>2, <1>3
<1>9. ASSUME NEW i \in 1..(n + k), NEW j \in 1..(n + k), i < j PROVE all[i] < all[j]
  <2>1. CASE i \in 1..n /\ j \in 1..n
    BY <1>2, <1>3, <1>9, <2>1 DEF Ascending
  <2>2. CASE i \notin 1..n /\ j \notin 1..n
    <3>1. i - n \in 1..k /\ j - n \in 1..k /\ i - n < j - n
      BY <1>2, <1>9, <2>2
    <3>2. all[i] = slots[i - n] /\ all[j] = slots[j - n]
      BY <1>8, <2>2
    <3> QED
      BY <1>2, <3>1, <3>2 DEF Ascending
  <2>3. CASE i \in 1..n /\ j \notin 1..n
    <3>1. j - n \in 1..k /\ all[j] = slots[j - n] /\ all[i] = s[i]
      BY <1>8, <1>3, <2>3
    <3>2. s[i] <= s[n]
      <4>1. n \in 1..n /\ (i = n \/ i < n)
        BY <1>2, <2>3
      <4>2. i < n => s[i] < s[n]
        BY <1>2, <2>3, <4>1 DEF Ascending
      <4> QED
        BY <1>2, <2>3, <4>1, <4>2
    <3>3. slots[1] <= slots[j - n]
      <4>1. 1 \in 1..k /\ (j - n = 1 \/ 1 < j - n)
        BY <1>2, <3>1
      <4>2. 1 < j - n => slots[1] < slots[j - n]
        BY <1>2, <3>1, <4>1 DEF Ascending
      <4> QED
        BY <1>2, <3>1, <4>1, <4>2
    <3>4. 1 \in 1..k /\ n \in 1..n
      BY <1>2
    <3> QED
      BY <1>2, <1>7, <2>3, <3>1, <3>2, <3>3, <3>4
  <2> QED
    BY <1>2, <1>9, <2>1, <2>2, <2>3
<1>10. Ascending(kept)
  <2> SUFFICES ASSUME NEW i \in 1..(n + k - dropped), NEW j \in 1..(n + k - dropped), i < j
               PROVE  kept[i] < kept[j]
    BY <1>5 DEF Ascending
  <2>1. i + dropped \in 1..(n + k) /\ j + dropped \in 1..(n + k) /\ i + dropped < j + dropped
    BY <1>2, <1>4
  <2> QED
    BY <1>5, <1>9, <2>1
<1>11. Last(kept) = Last(slots) /\ kept # <<>>
  <2>1. n + k - dropped \in 1..(n + k - dropped) /\ n + k \in 1..(n + k) /\ n + k > n /\ (n + k) - n = k
        /\ (n + k - dropped) + dropped = n + k
    BY <1>2, <1>4
  <2>2. kept[n + k - dropped] = all[n + k] /\ all[n + k] = slots[k]
    BY <1>3, <1>5, <2>1
  <2> QED
    BY <1>5, <2>1, <2>2 DEF Last, k
<1>12. ASSUME Near(s), Near(slots), Epoch(slots[1]) < Epoch(s[n]) + MAX_EPOCHS_GAP
       PROVE  Near(kept)
  <2>1. ASSUME NEW i \in 1..(n + k - 1) PROVE Epoch(all[i + 1]) < Epoch(all[i]) + MAX_EPOCHS_GAP
    <3>1. CASE i < n
      <4>1. i \in 1..(n - 1) /\ i \in 1..n /\ i + 1 \in 1..n
        BY <1>2, <3>1
      <4> QED
        BY <1>3, <1>12, <4>1 DEF Near, n
    <3>2. CASE i = n
      <4>1. n \in 1..n /\ n + 1 \in 1..(n + k) /\ n + 1 > n /\ (n + 1) - n = 1
        BY <1>2
      <4>2. all[n] = s[n] /\ all[n + 1] = slots[1]
        BY <1>3, <4>1
      <4> QED
        BY <1>12, <3>2, <4>2
    <3>3. CASE i > n
      <4>1. i - n \in 1..(k - 1) /\ i \in 1..(n + k) /\ i + 1 \in 1..(n + k) /\ i + 1 > n
            /\ (i + 1) - n = (i - n) + 1
        BY <1>2, <3>3
      <4>2. all[i] = slots[i - n] /\ all[i + 1] = slots[(i - n) + 1]
        BY <1>3, <3>3, <4>1
      <4> QED
        BY <1>12, <4>1, <4>2 DEF Near, k
    <3> QED
      BY <1>2, <3>1, <3>2, <3>3
  <2>2. ASSUME NEW i \in 1..(Len(kept) - 1) PROVE Epoch(kept[i + 1]) < Epoch(kept[i]) + MAX_EPOCHS_GAP
    <3>1. /\ i + dropped \in 1..(n + k - 1) /\ i \in 1..(n + k - dropped) /\ i + 1 \in 1..(n + k - dropped)
          /\ (i + 1) + dropped = (i + dropped) + 1
      <4>1. Len(kept) = n + k - dropped /\ n \in Nat /\ k \in Nat
        BY <1>2, <1>5
      <4>2. i \in Nat /\ 1 <= i /\ i <= n + k - dropped - 1
        BY <1>4, <4>1
      <4> QED
        BY <1>4, <4>1, <4>2
    <3>2. kept[i] = all[i + dropped] /\ kept[i + 1] = all[(i + dropped) + 1]
      <4>1. \A j \in 1..(n + k - dropped) : kept[j] = all[j + dropped]
        BY <1>5
      <4>2. kept[i] = all[i + dropped] /\ kept[i + 1] = all[(i + 1) + dropped]
        BY <3>1, <4>1, SMTT(30)
      <4> QED
        BY <3>1, <4>2, SMTT(30)
    <3> QED
      BY <2>1, <3>1, <3>2
  <2> QED
    BY <2>2 DEF Near
<1> QED
  BY <1>1, <1>5, <1>6, <1>10, <1>11, <1>12 DEF Stored, Last, s, n

LEMMA ReverseOf ==
    ASSUME NEW rb, Descends(rb)
    PROVE  /\ Reverse(rb.cps) \in Seq(Nat) /\ Reverse(rb.cps) # <<>> /\ Ascending(Reverse(rb.cps))
           /\ Last(Reverse(rb.cps)) = rb.fin /\ Reverse(rb.cps)[1] = Last(rb.cps)
           /\ NearReplay(rb) => Near(Reverse(rb.cps))
<1> DEFINE s == rb.cps
           n == Len(s)
           r == Reverse(s)
<1>1. /\ s \in Seq(Nat) /\ n \in Nat \ {0} /\ DOMAIN s = 1..n /\ \A i \in 1..n : s[i] \in Nat
      /\ \A i, j \in 1..n : i < j => s[j] < s[i]
      /\ s[1] = rb.fin
  BY DEF Descends
<1>2. r = [i \in 1..n |-> s[(n - i) + 1]]
  BY DEF Reverse
<1> HIDE DEF s, r
<1>3. \A i \in 1..n : (n - i) + 1 \in 1..n
  BY <1>1
<1>4. r \in Seq(Nat) /\ Len(r) = n /\ DOMAIN r = 1..n /\ \A i \in 1..n : r[i] = s[(n - i) + 1]
  <2> HIDE DEF n
  <2>1. \A i \in 1..n : r[i] = s[(n - i) + 1] /\ r[i] \in Nat
    BY <1>1, <1>2, <1>3
  <2>2. r \in Seq(Nat)
    BY <1>1, <1>2, <2>1
  <2>3. DOMAIN r = 1..n
    BY <1>2
  <2>4. Len(r) = n
    BY <1>1, <2>2, <2>3
  <2> QED
    BY <2>1, <2>2, <2>3, <2>4
<1> HIDE DEF n
<1>5. Ascending(r)
  <2> SUFFICES ASSUME NEW i \in 1..n, NEW j \in 1..n, i < j PROVE r[i] < r[j]
    BY <1>4 DEF Ascending
  <2>1. (n - j) + 1 < (n - i) + 1
    BY <1>1
  <2> QED
    BY <1>1, <1>3, <1>4, <2>1
<1>6. r[n] = s[1] /\ r[1] = s[n]
  <2>1. (n - n) + 1 = 1 /\ (n - 1) + 1 = n /\ 1 \in 1..n /\ n \in 1..n
    BY <1>1
  <2> QED
    BY <1>4, <2>1
<1>7. ASSUME NearReplay(rb) PROVE Near(r)
  <2> SUFFICES ASSUME NEW i \in 1..(n - 1)
               PROVE  Epoch(r[i + 1]) < Epoch(r[i]) + MAX_EPOCHS_GAP
    BY <1>4 DEF Near
  <2>1. /\ i \in 1..n /\ i + 1 \in 1..n /\ n - i \in 1..(n - 1)
        /\ (n - (i + 1)) + 1 = n - i
    BY <1>1
  <2>2. r[i] = s[(n - i) + 1] /\ r[i + 1] = s[n - i]
    BY <1>4, <2>1
  <2> QED
    BY <1>7, <2>1, <2>2 DEF NearReplay, s, n
<1> QED
  BY <1>1, <1>4, <1>5, <1>6, <1>7 DEF Last, s, r, n

--------------------------------------------------------------------------------
(* A replay. *)

\* One turn of the loop of process_headers.
OneBack(rb) ==
    IF Parent(rb.last) \in {None, Last(checkpoints.items)} THEN rb ELSE ReplayHeader(rb, Parent(rb.last))

\* The loop is a function: by induction on the size of the batch.
LEMMA LoopExists ==
    ASSUME NEW n \in Nat, NEW rb
    PROVE  \E f : f = [i \in 0..n |-> IF i = 0 THEN rb ELSE OneBack(f[i - 1])]
<1> DEFINE Missing == {k \in Nat : ~ \E f : f = [i \in 0..k |-> IF i = 0 THEN rb ELSE OneBack(f[i - 1])]}
<1>1. Missing \subseteq Nat
  OBVIOUS
<1>2. Missing = {}
  <2> SUFFICES ASSUME Missing # {} PROVE FALSE
    OBVIOUS
  <2>1. PICK k \in Missing : \A m \in Missing : k <= m
    BY <1>1, LeastNatural
  <2>2. CASE k = 0
    <3> DEFINE f == [i \in 0..k |-> rb]
    <3>1. \A i \in 0..k : i = 0
      BY <2>2
    <3>2. f = [i \in 0..k |-> IF i = 0 THEN rb ELSE OneBack(f[i - 1])]
      BY <3>1
    <3> QED
      BY <2>1, <3>2
  <2>3. CASE k # 0
    <3>1. k \in Nat /\ k - 1 \in Nat /\ k - 1 \notin Missing
      <4> HIDE DEF Missing
      <4> QED
        BY <1>1, <2>1, <2>3
    <3>2. PICK g : g = [i \in 0..(k - 1) |-> IF i = 0 THEN rb ELSE OneBack(g[i - 1])]
      BY <3>1
    <3> DEFINE f == [i \in 0..k |-> IF i = 0 THEN rb ELSE OneBack(g[i - 1])]
    <3>3. \A i \in 0..k : i # 0 => i - 1 \in 0..(k - 1) /\ i - 1 \in 0..k
      BY <3>1
    <3>4. \A j \in 0..(k - 1) : f[j] = g[j]
      BY <3>1, <3>2
    <3>5. \A i \in 0..k : i # 0 => f[i - 1] = g[i - 1]
      BY <3>3, <3>4
    <3>6. f = [i \in 0..k |-> IF i = 0 THEN rb ELSE OneBack(f[i - 1])]
      BY <3>5
    <3> QED
      BY <2>1, <3>6
  <2> QED
    BY <2>2, <2>3
<1> QED
  BY <1>2

LEMMA ReplayedOf ==
    ASSUME NEW n \in Nat, NEW rb
    PROVE  \E f : /\ Replayed(rb, n) = f[n] /\ f[0] = rb
                  /\ \A i \in 1..n : f[i] = OneBack(f[i - 1])
<1> DEFINE after == CHOOSE f : f = [i \in 0..n |-> IF i = 0 THEN rb ELSE OneBack(f[i - 1])]
<1>1. Replayed(rb, n) = after[n]
  BY DEF Replayed, OneBack
<1>2. after = [i \in 0..n |-> IF i = 0 THEN rb ELSE OneBack(after[i - 1])]
  BY LoopExists
<1> HIDE DEF after
<1>3. 0 \in 0..n /\ \A i \in 1..n : i \in 0..n /\ i # 0
  OBVIOUS
<1>4. after[0] = rb /\ \A i \in 1..n : after[i] = OneBack(after[i - 1])
  BY <1>2, <1>3
<1> QED
  BY <1>1, <1>4

\* One header further back.
LEMMA OneBackDescends ==
    ASSUME NEW rb, Descends(rb)
    PROVE  /\ Descends(OneBack(rb)) /\ OneBack(rb).fin = rb.fin
           /\ EpochsHaveBlocks /\ NearReplay(rb) => NearReplay(OneBack(rb))
<1>1. CASE Parent(rb.last) \in {None, Last(checkpoints.items)}
  BY <1>1 DEF OneBack
<1>2. CASE Parent(rb.last) \notin {None, Last(checkpoints.items)}
  <2> DEFINE slot == Parent(rb.last)
             s == rb.cps
             n == Len(s)
             next == OneBack(rb)
             more == slot % SLOTS_PER_EPOCH = 0 \/ slot + SLOTS_PER_EPOCH < Last(rb.cps)
  <2>1. /\ rb = [fin |-> rb.fin, committee |-> rb.committee, cps |-> rb.cps, last |-> rb.last]
        /\ s \in Seq(Nat) /\ n \in Nat \ {0} /\ DOMAIN s = 1..n /\ \A i \in 1..n : s[i] \in Nat
        /\ \A i, j \in 1..n : i < j => s[j] < s[i]
        /\ s[1] = rb.fin
        /\ rb.last \in Chain /\ rb.last \in Nat /\ rb.last <= s[n]
        /\ SLOTS_PER_EPOCH \in Nat
    BY ChainAssumption, SizesAssumption, SMTT(30) DEF Descends, Last
  <2>2. slot \in Chain /\ slot \in Nat /\ slot < rb.last
    BY <1>2, <2>1, ParentOf
  <2>3. next = [fin |-> rb.fin, committee |-> rb.committee,
                cps |-> IF more THEN Append(s, slot) ELSE s, last |-> slot]
    <3>1. next = ReplayHeader(rb, slot)
      BY <1>2 DEF OneBack
    <3> HIDE DEF next, slot
    <3> QED
      BY <2>1, <3>1 DEF ReplayHeader
  <2> HIDE DEF next
  <2>4. EpochsHaveBlocks => rb.last <= slot + SLOTS_PER_EPOCH
    BY <1>2, <2>1 DEF EpochsHaveBlocks
  <2> HIDE DEF slot
  <2>5. slot < s[n]
    BY <2>1, <2>2
  <2>6. CASE ~more
    <3>1. next = [fin |-> rb.fin, committee |-> rb.committee, cps |-> s, last |-> slot]
      BY <2>3, <2>6
    <3>2. next.fin = rb.fin /\ next.cps = s /\ next.last = slot /\ next.committee = rb.committee
      BY <3>1
    <3>3. Descends(next)
      <4>1. slot <= s[n] /\ s # <<>>
        <5>1. n \in 1..n
          BY <2>1
        <5> QED
          BY <2>1, <2>2, <2>5, <5>1
      <4> HIDE DEF s, n
      <4>2. slot <= Last(s)
        BY <4>1 DEF Last, n
      <4> QED
        BY <2>1, <2>2, <3>1, <3>2, <4>1, <4>2 DEF Descends
    <3>4. NearReplay(rb) => NearReplay(next)
      <4>1. s[n] <= slot + SLOTS_PER_EPOCH
        BY <2>1, <2>2, <2>6 DEF Last
      <4> QED
        BY <3>2, <4>1 DEF NearReplay, Last
    <3> QED
      BY <3>2, <3>3, <3>4 DEF next
  <2>7. CASE more
    <3> DEFINE t == Append(s, slot)
    <3>1. next = [fin |-> rb.fin, committee |-> rb.committee, cps |-> t, last |-> slot]
      BY <2>3, <2>7
    <3>2. next.fin = rb.fin /\ next.cps = t /\ next.last = slot /\ next.committee = rb.committee
      BY <3>1
    <3>3. /\ t \in Seq(Nat) /\ Len(t) = n + 1 /\ DOMAIN t = 1..(n + 1)
          /\ \A i \in 1..n : t[i] = s[i]
          /\ t[n + 1] = slot
      BY <2>1, <2>2
    <3> HIDE DEF t, s, n
    <3>4. ASSUME NEW i \in 1..(n + 1), NEW j \in 1..(n + 1), i < j PROVE t[j] < t[i]
      <4>1. i \in 1..n
        BY <2>1, <3>4
      <4>2. CASE j \in 1..n
        BY <2>1, <3>3, <3>4, <4>1, <4>2
      <4>3. CASE j = n + 1
        <5>1. i = n \/ i < n
          BY <2>1, <4>1
        <5>2. n \in 1..n /\ s[i] \in Nat /\ s[n] \in Nat
          BY <2>1, <4>1
        <5>3. s[n] <= s[i]
          BY <2>1, <4>1, <5>1, <5>2
        <5>4. t[i] = s[i] /\ t[j] = slot
          BY <3>3, <4>1, <4>3
        <5> QED
          BY <2>2, <2>5, <5>2, <5>3, <5>4
      <4> QED
        BY <2>1, <4>2, <4>3
    <3>5. t # <<>> /\ t[1] = rb.fin /\ Last(t) = slot
      <4>1. 1 \in 1..n /\ n + 1 # 0
        BY <2>1
      <4> QED
        BY <2>1, <3>3, <4>1 DEF Last
    <3>6. Descends(next)
      BY <2>2, <3>1, <3>2, <3>3, <3>4, <3>5 DEF Descends
    <3>7. ASSUME EpochsHaveBlocks, NearReplay(rb) PROVE NearReplay(next)
      <4>1. s[n] <= rb.last + SLOTS_PER_EPOCH /\ MAX_EPOCHS_GAP >= 3
        BY <3>7 DEF NearReplay, EpochsHaveBlocks, Last, s, n
      <4>2. s[n] <= slot + SLOTS_PER_EPOCH + SLOTS_PER_EPOCH /\ s[n] \in Nat /\ n \in 1..n
        <5>1. n \in 1..n
          BY <2>1
        <5> QED
          BY <2>1, <2>2, <2>4, <3>7, <4>1, <5>1
      <4>3. Epoch(s[n]) < Epoch(slot) + MAX_EPOCHS_GAP
        BY <2>2, <4>1, <4>2, TwoEpochs
      <4>4. ASSUME NEW i \in 1..n PROVE Epoch(t[i]) < Epoch(t[i + 1]) + MAX_EPOCHS_GAP
        <5>1. CASE i = n
          BY <3>3, <4>2, <4>3, <5>1
        <5>2. CASE i # n
          <6>1. i \in 1..(n - 1) /\ i + 1 \in 1..n
            BY <2>1, <5>2
          <6> QED
            BY <3>3, <3>7, <6>1 DEF NearReplay, s, n
        <5> QED
          BY <5>1, <5>2
      <4>5. Last(t) <= slot + SLOTS_PER_EPOCH
        BY <2>1, <2>2, <3>5
      <4>6. (Len(t) - 1) = n
        BY <2>1, <3>3
      <4> QED
        BY <3>2, <4>4, <4>5, <4>6 DEF NearReplay
    <3> QED
      BY <3>2, <3>6, <3>7 DEF next
  <2> QED
    BY <2>6, <2>7
<1> QED
  BY <1>1, <1>2

LEMMA ReplayedDescends ==
    ASSUME NEW n \in Nat, NEW rb, Descends(rb)
    PROVE  /\ Descends(Replayed(rb, n)) /\ Replayed(rb, n).fin = rb.fin
           /\ EpochsHaveBlocks /\ NearReplay(rb) => NearReplay(Replayed(rb, n))
<1>1. PICK f : /\ Replayed(rb, n) = f[n] /\ f[0] = rb
               /\ \A i \in 1..n : f[i] = OneBack(f[i - 1])
  BY ReplayedOf
<1> DEFINE Good(x) == /\ Descends(x) /\ x.fin = rb.fin
                      /\ EpochsHaveBlocks /\ NearReplay(rb) => NearReplay(x)
           Off == {i \in 0..n : ~Good(f[i])}
<1>2. \A x : Good(x) => Good(OneBack(x))
  BY OneBackDescends
<1>3. Good(f[0])
  BY <1>1
<1> HIDE DEF Good
<1>4. Off = {}
  <2> SUFFICES ASSUME Off # {} PROVE FALSE
    OBVIOUS
  <2>1. PICK k \in Off : \A m \in Off : k <= m
    <3>1. Off \subseteq Nat
      OBVIOUS
    <3> HIDE DEF Off
    <3> QED
      BY <3>1, LeastNatural
  <2>2. k \in 1..n /\ k - 1 \in 0..n
    BY <1>3
  <2>3. k - 1 \notin Off
    <3> HIDE DEF Off
    <3> QED
      BY <2>1, <2>2
  <2>4. Good(f[k - 1])
    BY <2>2, <2>3
  <2>5. Good(f[k])
    BY <1>1, <1>2, <2>2, <2>4
  <2> QED
    BY <2>5
<1>5. Good(f[n])
  BY <1>4
<1> QED
  BY <1>1, <1>5 DEF Good

--------------------------------------------------------------------------------
(* The steps. *)

\* A step of the light client, with a batch of any size.
ClientStep ==
    \/ \E t \in Tasks, u \in Updates : SyncUpdate(t, u)
    \/ \E t \in Tasks, u \in Updates, n \in Nat : ReplayBackStart(t, u, n)
    \/ \E t \in Tasks : ApplySyncUpdate(t) \/ ApplyReplayBackStart(t) \/ Fail(t)
    \/ \E n \in Nat : ReplayBackProcess(n)
    \/ UNCHANGED vars

\* A message that starts, fails or ends leaves a good record, or none, of itself.
LEMMA StartedStep ==
    ASSUME StartedInv, ClientStep
    PROVE  StartedInv'
<1>1. ASSUME NEW t \in Tasks, NEW u \in Updates, SyncUpdate(t, u)
      PROVE  StartedInv'
  <2> DEFINE r == [service |-> "SyncUpdate", slot |-> finalized_header,
                   fin |-> u.fin, committee |-> CommitteeUpdate(u), batch |-> 0]
  <2>1. task' = [task EXCEPT ![t] = r]
    BY <1>1 DEF SyncUpdate
  <2>2. /\ r.fin = u.fin /\ r.slot = finalized_header /\ r.batch = 0 /\ r.service = "SyncUpdate"
    OBVIOUS
  <2> HIDE DEF r
  <2>3. u.fin \in Chain /\ finalized_header < u.fin
    BY <1>1, ChainAssumption DEF SyncUpdate, Verified
  <2>4. Epoch(u.fin) < Epoch(finalized_header) + MAX_EPOCHS_GAP
    BY <1>1 DEF SyncUpdate
  <2> QED
    BY <2>1, <2>2, <2>3, <2>4 DEF StartedInv, Epoch
<1>2. ASSUME NEW t \in Tasks, NEW u \in Updates, NEW n \in Nat, ReplayBackStart(t, u, n)
      PROVE  StartedInv'
  <2> DEFINE r == [service |-> "ReplayBack", slot |-> finalized_header,
                   fin |-> u.fin, committee |-> CommitteeUpdate(u), batch |-> n]
  <2>1. task' = [task EXCEPT ![t] = r]
    BY <1>2 DEF ReplayBackStart
  <2>2. /\ r.fin = u.fin /\ r.slot = finalized_header /\ r.batch = n /\ r.service = "ReplayBack"
    OBVIOUS
  <2> HIDE DEF r
  <2>3. u.fin \in Chain /\ finalized_header < u.fin /\ n \in Nat
    BY <1>2, ChainAssumption, SizesAssumption DEF ReplayBackStart, Verified
  <2> QED
    BY <2>1, <2>2, <2>3 DEF StartedInv, Epoch
<1>3. ASSUME NEW t \in Tasks, ApplySyncUpdate(t) \/ ApplyReplayBackStart(t) \/ Fail(t)
      PROVE  StartedInv'
  <2>1. task' = [task EXCEPT ![t] = None]
    BY <1>3 DEF ApplySyncUpdate, ApplyReplayBackStart, Fail
  <2> QED
    BY <2>1 DEF StartedInv, Epoch
<1>4. ASSUME (\E n \in Nat : ReplayBackProcess(n)) \/ UNCHANGED vars
      PROVE  StartedInv'
  BY <1>4 DEF ReplayBackProcess, vars, StartedInv, Epoch
<1> QED
  BY <1>1, <1>2, <1>3, <1>4 DEF ClientStep

\* The headers of a batch, for a replay that descends.
LEMMA ProcessHeadersCheckpoints ==
    ASSUME CheckpointInv, ~raced, ~raced', NEW n \in Nat, NEW start, ProcessHeaders(start, n),
           Descends(start), EpochsHaveBlocks => NearReplay(start)
    PROVE  CheckpointInv'
<1> DEFINE rb == Replayed(start, n)
<1>1. /\ Descends(rb) /\ rb.fin = start.fin
      /\ EpochsHaveBlocks => NearReplay(rb)
  BY ReplayedDescends
<1>2. /\ Stored(checkpoints) /\ Last(checkpoints.items) = finalized_header
      /\ EpochsHaveBlocks => Near(checkpoints.items)
  BY DEF CheckpointInv
<1>3. CASE ~Reached(rb)
  <2>1. /\ replay_back' = [fin |-> start.fin, committee |-> start.committee,
                           cps |-> rb.cps, last |-> rb.last]
        /\ UNCHANGED <<finalized_header, checkpoints>>
    BY <1>3 DEF ProcessHeaders
  <2> HIDE DEF rb
  <2>2. /\ replay_back'.fin = rb.fin /\ replay_back'.cps = rb.cps /\ replay_back'.last = rb.last
        /\ replay_back'.committee = start.committee
    BY <1>1, <2>1
  <2>3. Descends(replay_back)'
    BY <1>1, <2>1, <2>2 DEF Descends
  <2>4. EpochsHaveBlocks => NearReplay(replay_back)'
    BY <1>1, <2>2 DEF NearReplay, Epoch
  <2>5. Stored(checkpoints)' /\ (EpochsHaveBlocks => Near(checkpoints.items)')
    BY <1>2, <2>1 DEF Stored, Near, Epoch
  <2> QED
    BY <1>2, <2>1, <2>3, <2>4, <2>5 DEF CheckpointInv
<1>4. CASE Reached(rb)
  <2> DEFINE slots == Reverse(rb.cps)
  <2>1. /\ replay_back' = None
        /\ checkpoints' = Push(checkpoints, slots)
        /\ finalized_header' = start.fin
    BY <1>4 DEF ProcessHeaders, MoveCheckpoints
  <2>2. Parent(rb.last) = Last(checkpoints.items)
    BY <1>4 DEF Reached
  <2> HIDE DEF rb
  <2>3. /\ slots \in Seq(Nat) /\ slots # <<>> /\ Ascending(slots)
        /\ Last(slots) = rb.fin /\ slots[1] = Last(rb.cps)
        /\ NearReplay(rb) => Near(slots)
    BY <1>1, ReverseOf
  <2> HIDE DEF slots
  <2>4. /\ rb.last \in Chain /\ rb.last \in Nat /\ rb.last <= slots[1] /\ slots[1] \in Nat
        /\ Last(checkpoints.items) \in Nat
    <3>1. rb.last \in Chain /\ rb.last <= slots[1]
      BY <1>1, <2>3 DEF Descends
    <3>2. slots[1] \in Nat
      BY <2>3
    <3>3. Last(checkpoints.items) \in Nat
      BY <1>2 DEF Stored, Last
    <3> QED
      BY <3>1, <3>2, <3>3, ChainAssumption
  <2>5. Last(checkpoints.items) < rb.last
    <3>1. Parent(rb.last) # None
      BY <2>2, <2>4, ChainAssumption
    <3> QED
      BY <2>2, <2>4, <3>1, ParentOf
  <2>6. Last(checkpoints.items) < slots[1]
    BY <2>4, <2>5
  <2>7. EpochsHaveBlocks => Epoch(slots[1]) < Epoch(Last(checkpoints.items)) + MAX_EPOCHS_GAP
    <3> SUFFICES ASSUME EpochsHaveBlocks
                 PROVE  Epoch(slots[1]) < Epoch(Last(checkpoints.items)) + MAX_EPOCHS_GAP
      OBVIOUS
    <3>1. Parent(rb.last) # None /\ MAX_EPOCHS_GAP >= 3 /\ SLOTS_PER_EPOCH \in Nat
      BY <2>2, <2>4, ChainAssumption, SizesAssumption DEF EpochsHaveBlocks
    <3>2. rb.last <= Last(checkpoints.items) + SLOTS_PER_EPOCH
      BY <2>2, <2>4, <3>1 DEF EpochsHaveBlocks
    <3>3. slots[1] <= rb.last + SLOTS_PER_EPOCH
      BY <1>1, <2>3 DEF NearReplay
    <3>4. slots[1] <= Last(checkpoints.items) + SLOTS_PER_EPOCH + SLOTS_PER_EPOCH
      BY <2>4, <3>1, <3>2, <3>3
    <3> QED
      BY <2>4, <3>1, <3>4, TwoEpochs
  <2>8. /\ Stored(checkpoints') /\ Last(checkpoints'.items) = finalized_header'
        /\ EpochsHaveBlocks => Near(checkpoints'.items)
    BY <1>1, <1>2, <2>1, <2>3, <2>6, <2>7, PushOf
  <2>9. Stored(checkpoints)' /\ Last(checkpoints.items)' = finalized_header'
        /\ (EpochsHaveBlocks => Near(checkpoints.items)')
    BY <2>8 DEF Stored, Near, Epoch, Last
  <2> QED
    BY <2>1, <2>9 DEF CheckpointInv
<1> QED
  BY <1>3, <1>4

LEMMA CheckpointStep ==
    ASSUME StartedInv, CheckpointInv, ClientStep
    PROVE  CheckpointInv'
<1>1. raced => raced'
  BY DEF ClientStep, vars, SyncUpdate, ReplayBackStart, ApplySyncUpdate, ApplyReplayBackStart, Fail, ReplayBackProcess
<1> SUFFICES ASSUME ~raced' PROVE CheckpointInv'
  BY DEF CheckpointInv
<1>2. /\ ~raced
      /\ Stored(checkpoints) /\ Last(checkpoints.items) = finalized_header
      /\ replay_back # None => Descends(replay_back)
      /\ EpochsHaveBlocks =>
            Near(checkpoints.items) /\ (replay_back # None => NearReplay(replay_back))
  BY <1>1 DEF CheckpointInv
<1>3. ASSUME UNCHANGED <<finalized_header, checkpoints, replay_back, raced>>
      PROVE  CheckpointInv'
  BY <1>2, <1>3 DEF CheckpointInv, Stored, Descends, Near, NearReplay, Epoch, Last
<1>4. CASE \/ \E t \in Tasks, u \in Updates : SyncUpdate(t, u)
           \/ \E t \in Tasks, u \in Updates, n \in Nat : ReplayBackStart(t, u, n)
           \/ \E t \in Tasks : Fail(t)
           \/ UNCHANGED vars
  <2>1. UNCHANGED <<finalized_header, checkpoints, replay_back, raced>>
    BY <1>4 DEF SyncUpdate, ReplayBackStart, Fail, vars
  <2> QED
    BY <1>3, <2>1
<1>5. ASSUME NEW t \in Tasks, ApplySyncUpdate(t)
      PROVE  CheckpointInv'
  <2> DEFINE slots == <<task[t].fin>>
  <2>1. /\ task[t] # None /\ task[t].service = "SyncUpdate" /\ task[t].slot = finalized_header
        /\ checkpoints' = Push(checkpoints, slots)
        /\ finalized_header' = task[t].fin
        /\ replay_back' = replay_back
    BY <1>5 DEF ApplySyncUpdate
  <2>2. /\ task[t].fin \in Nat /\ finalized_header < task[t].fin
        /\ Epoch(task[t].fin) < Epoch(finalized_header) + MAX_EPOCHS_GAP
    BY <2>1, ChainAssumption DEF StartedInv
  <2>3. /\ slots \in Seq(Nat) /\ slots # <<>> /\ Len(slots) = 1 /\ slots[1] = task[t].fin
        /\ DOMAIN slots = 1..1
    BY <2>2
  <2> HIDE DEF slots
  <2>4. Ascending(slots) /\ Near(slots) /\ Last(slots) = task[t].fin
    BY <2>3 DEF Ascending, Near, Last
  <2>5. /\ Stored(checkpoints') /\ Last(checkpoints'.items) = finalized_header'
        /\ EpochsHaveBlocks => Near(checkpoints'.items)
    BY <1>2, <2>1, <2>2, <2>3, <2>4, PushOf
  <2>6. Stored(checkpoints)' /\ Last(checkpoints.items)' = finalized_header'
        /\ (EpochsHaveBlocks => Near(checkpoints.items)')
    BY <2>5 DEF Stored, Near, Epoch, Last
  <2>7. /\ replay_back' # None => Descends(replay_back)'
        /\ EpochsHaveBlocks /\ replay_back' # None => NearReplay(replay_back)'
    BY <1>2, <2>1 DEF Descends, NearReplay, Epoch, Last
  <2> QED
    BY <2>6, <2>7 DEF CheckpointInv
<1>6. ASSUME NEW t \in Tasks, ApplyReplayBackStart(t)
      PROVE  CheckpointInv'
  <2> DEFINE fin == task[t].fin
             start == [fin |-> fin, committee |-> task[t].committee, cps |-> <<fin>>, last |-> fin]
  <2>1. task[t] # None /\ ProcessHeaders(start, task[t].batch)
    BY <1>2, <1>6 DEF ApplyReplayBackStart
  <2>2. fin \in Chain /\ fin \in Nat /\ task[t].batch \in Nat
    BY <2>1, ChainAssumption DEF StartedInv
  <2> HIDE DEF fin
  <2>3. start.fin = fin /\ start.cps = <<fin>> /\ start.last = fin /\ start.committee = task[t].committee
    OBVIOUS
  <2>4. /\ <<fin>> \in Seq(Nat) /\ <<fin>> # <<>> /\ Len(<<fin>>) = 1 /\ <<fin>>[1] = fin
        /\ DOMAIN <<fin>> = 1..1
    BY <2>2
  <2>5. Descends(start)
    <3>1. start = [fin |-> start.fin, committee |-> start.committee, cps |-> start.cps, last |-> start.last]
      OBVIOUS
    <3> HIDE DEF start
    <3> QED
      BY <2>2, <2>3, <2>4, <3>1 DEF Descends, Last
  <2> HIDE DEF start
  <2>6. NearReplay(start)
    BY <2>2, <2>3, <2>4, SizesAssumption DEF NearReplay, Last
  <2> QED
    BY <1>2, <2>1, <2>2, <2>5, <2>6, ProcessHeadersCheckpoints
<1>7. ASSUME NEW n \in Nat, ReplayBackProcess(n)
      PROVE  CheckpointInv'
  <2>1. replay_back # None /\ ProcessHeaders(replay_back, n) /\ n \in Nat
    BY <1>7, SizesAssumption DEF ReplayBackProcess
  <2> QED
    BY <1>2, <2>1, ProcessHeadersCheckpoints
<1> QED
  BY <1>4, <1>5, <1>6, <1>7 DEF ClientStep

\* The init message.
LEMMA InitialCheckpoints ==
    ASSUME Init
    PROVE  StartedInv /\ CheckpointInv
<1>1. Genesis \in Nat /\ STORED_CHECKPOINTS_COUNT \in Nat \ {0}
  BY ChainAssumption, SizesAssumption
<1>2. checkpoints.items = <<Genesis>> /\ checkpoints.start = 0 /\ finalized_header = Genesis
      /\ replay_back = None
  BY DEF Init
<1>3. <<Genesis>> \in Seq(Nat) /\ <<Genesis>> # <<>> /\ Len(<<Genesis>>) = 1 /\ <<Genesis>>[1] = Genesis
      /\ DOMAIN <<Genesis>> = 1..1
  BY <1>1
<1>4. CheckpointInv
  BY <1>1, <1>2, <1>3 DEF CheckpointInv, Stored, Ascending, Near, Last
<1>5. StartedInv
  BY DEF Init, StartedInv
<1> QED
  BY <1>4, <1>5

\* The checkpoints ascend to the finalized header in every reachable state.
THEOREM CheckpointInvariance == Spec => [](StartedInv /\ CheckpointInv)
<1>1. Init => StartedInv /\ CheckpointInv
  BY InitialCheckpoints
<1>2. StartedInv /\ CheckpointInv /\ [Next]_vars => (StartedInv /\ CheckpointInv)'
  <2>1. [Next]_vars => ClientStep
    <3>1. 0..MAX_BATCH \subseteq Nat /\ 1..MAX_BATCH \subseteq Nat
      BY SizesAssumption
    <3> QED
      BY <3>1 DEF Next, ClientStep
  <2> QED
    BY <2>1, StartedStep, CheckpointStep
<1> QED
  BY <1>1, <1>2, PTL DEF Spec

\* checkpoint_for is exact wherever the ring buffer wraps around, for every size of the
\* buffer and every chain, unless a stale verification was applied.
THEOREM LookupsAreExact == Spec => []LookupIsExact
<1>1. CheckpointInv => LookupIsExact
  <2> SUFFICES ASSUME CheckpointInv, ~raced, NEW slot \in 0..(finalized_header + 1)
               PROVE  LET later == {c \in Range(checkpoints.items) : c >= slot}
                          got   == Checkpoint(checkpoints, slot)
                      IN IF later = {} THEN got = None ELSE got \in later /\ \A c \in later : got <= c
    BY DEF LookupIsExact
  <2>1. Stored(checkpoints) /\ Last(checkpoints.items) = finalized_header
    BY DEF CheckpointInv
  <2>2. slot \in Nat
    BY <2>1 DEF Stored, Last
  <2> QED
    BY <2>1, <2>2, CheckpointOf
<1> QED
  BY <1>1, CheckpointInvariance, PTL

\* SyncUpdate's gap check and the replay's rule for missing blocks leave no gap between
\* stored checkpoints, on a chain that has a block within every epoch's length.
THEOREM NoGaps == Spec => [](EpochsHaveBlocks => NoGapBetweenCheckpoints)
<1>1. CheckpointInv => (EpochsHaveBlocks => NoGapBetweenCheckpoints)
  BY DEF CheckpointInv, NoGapBetweenCheckpoints, Near
<1> QED
  BY <1>1, CheckpointInvariance, PTL

--------------------------------------------------------------------------------
(****************************************************************************)
(* The checkpoint relayer.  Every update that it holds was answered by the    *)
(* beacon node, so what a call verifies brings the committee of the period    *)
(* that it enters, or was ahead of it.  That stays true of a call that waits  *)
(* while others are applied, and of a replay, whose header was verified at or  *)
(* before the stored one: it is applied only from the header that it read, or  *)
(* where a replay leads back to it.                                           *)
(****************************************************************************)
\* At time n, a finality update was ahead of the best update of period p.
Witness(n, p) ==
    \E i \in 1..n :
        LET f == Beacon[i].finality
            b == Beacon[i].best[Period(f.fin)]
        IN b # None /\ b.fin < f.fin /\ Period(f.fin) = p

\* An update that the beacon node has answered by time n.
Known(n, u) == u \in Updates /\ (u.next \/ Witness(n, Period(u.fin)))

\* Verified at header slot, these bring the committees of fin's period, or fin was ahead.
Brings(n, fin, committee, slot) ==
    /\ committee # None => committee = Period(fin) + 1 /\ Period(fin) = Period(slot) + 1
    /\ committee = None => Period(fin) = Period(slot) \/ Witness(n, Period(fin))

\* What the relayer holds.
UpdatesInv ==
    /\ now \in DOMAIN Beacon /\ relayer \in Tasks
    /\ updates \in Seq(Updates) /\ \A k \in DOMAIN updates : Known(now, updates[k])
    /\ update # None => Known(now, update)
    /\ pc = "replay" => update # None
    /\ todo # None => todo \in Seq(Updates) /\ \A k \in DOMAIN todo : Known(now, todo[k])
    /\ iter = [u |-> iter.u, started |-> iter.started, lo |-> iter.lo, hi |-> iter.hi]
    /\ iter.lo \in Nat /\ iter.hi \in Nat /\ iter.started \in BOOLEAN /\ slot_start \in Nat
    /\ ~iter.started => Known(now, iter.u)

\* What waiting calls will write, those of ended processes too.
CallsInv ==
    \A t \in Tasks :
        task[t] # None => Brings(now, task[t].fin, task[t].committee, task[t].slot)

\* What a replay will write was verified at the stored header, or at one before it.
BehindInv ==
    replay_back # None =>
        \E h \in Nat : h <= finalized_header /\ Brings(now, replay_back.fin, replay_back.committee, h)

\* The inductive invariant: nothing is claimed once a stale verification was applied.
RInv ==
    ~raced => StartedInv /\ CheckpointInv /\ UpdatesInv /\ CallsInv /\ BehindInv

\* What EntersPeriodsWithCommittee says of a step.
EntersWithCommittee ==
    Period(finalized_header') # Period(finalized_header)
        => sync_committee_next' = Period(finalized_header') + 1 \/ Witness(now, Period(finalized_header'))

LEMMA DivMonotone ==
    ASSUME NEW x \in Nat, NEW y \in Nat, x <= y, NEW S \in Nat \ {0}
    PROVE  x \div S <= y \div S /\ x \div S \in Nat /\ y \div S \in Nat
<1> DEFINE q == x \div S
           p == y \div S
<1>1. q \in Nat /\ p \in Nat /\ S * q <= x /\ y < S * (p + 1)
  OBVIOUS
<1> HIDE DEF q, p
<1>2. ASSUME q >= p + 1 PROVE FALSE
  <2>1. S * q >= S * (p + 1)
    BY <1>1, <1>2
  <2>2. S * q \in Nat /\ S * (p + 1) \in Nat
    BY <1>1
  <2> QED
    BY <1>1, <2>1, <2>2
<1>3. q <= p
  BY <1>1, <1>2
<1> QED
  BY <1>1, <1>3 DEF q, p

LEMMA PeriodMonotone ==
    ASSUME NEW x \in Nat, NEW y \in Nat, x <= y
    PROVE  Period(x) <= Period(y) /\ Period(x) \in Nat /\ Period(y) \in Nat
<1>1. Epoch(x) <= Epoch(y) /\ Epoch(x) \in Nat /\ Epoch(y) \in Nat
  BY DivMonotone, SizesAssumption DEF Epoch
<1> QED
  BY <1>1, DivMonotone, SizesAssumption DEF Period

\* What verify lets through at the stored header brings the committee of the period that
\* it enters, or the update was ahead of the period's best one.
LEMMA VerifiedBrings ==
    ASSUME finalized_header \in Nat, NEW u, Known(now, u), Verified(u)
    PROVE  Brings(now, u.fin, CommitteeUpdate(u), finalized_header)
<1>1. /\ u.fin \in Nat /\ u.att \in Nat /\ u.sig \in Nat
      /\ finalized_header <= u.fin /\ u.fin <= u.att /\ u.att <= u.sig
  <2>1. u.fin \in Nat /\ u.att \in Nat /\ u.sig \in Nat
    BY ChainAssumption DEF Known
  <2>2. finalized_header < u.fin /\ u.att >= u.fin /\ u.sig > u.att
    BY <2>1 DEF Verified
  <2> QED
    BY <2>1, <2>2
<1>2. /\ Period(finalized_header) \in Nat /\ Period(finalized_header) <= Period(u.fin)
      /\ Period(u.fin) <= Period(u.att) /\ Period(u.att) <= Period(u.sig)
      /\ Period(u.fin) \in Nat /\ Period(u.att) \in Nat /\ Period(u.sig) \in Nat
  BY <1>1, PeriodMonotone
<1>3. Period(u.sig) <= Period(finalized_header) + 1
  BY <1>2 DEF Verified, Signed
<1>4. CASE CommitteeUpdate(u) # None
  BY <1>4, CommitteeUpdateFits DEF Brings
<1>5. CASE CommitteeUpdate(u) = None
  <2>1. Period(u.att) + 1 # None
    BY <1>2, ChainAssumption
  <2>2. ~(u.next /\ Period(u.att) = Period(u.fin) /\ Period(u.fin) = Period(finalized_header) + 1)
    BY <1>5, <2>1 DEF CommitteeUpdate
  <2>3. Period(u.fin) = Period(finalized_header) \/ ~u.next
    BY <1>2, <1>3, <2>2
  <2> QED
    BY <1>5, <2>3 DEF Brings, Known
<1> QED
  BY <1>4, <1>5

\* The blocks in a range of slots.
BlocksIn(lo, hi) == {b \in Chain : lo <= b /\ b < hi}

LEMMA BlocksInFinite ==
    ASSUME NEW lo \in Nat, NEW hi \in Nat
    PROVE  IsFiniteSet(BlocksIn(lo, hi)) /\ Cardinality(BlocksIn(lo, hi)) \in Nat
<1>1. IsFiniteSet(lo..hi)
  BY FS_Interval
<1>2. ASSUME NEW b \in BlocksIn(lo, hi) PROVE b \in lo..hi
  <2>1. b \in Chain /\ lo <= b /\ b < hi
    BY DEF BlocksIn
  <2>2. b \in Nat
    BY <2>1, ChainAssumption
  <2> QED
    BY <2>1, <2>2
<1> QED
  BY <1>1, <1>2, FS_Subset, FS_CardinalityType

\* The headers of a batch can be counted.
LEMMA HeadersCounted ==
    ASSUME UpdatesInv
    PROVE  Headers \in Nat /\ Batch.rest \in Nat
<1>1. iter.lo \in Nat /\ iter.hi \in Nat /\ SIZE_BATCH \in Nat
  BY RelayerAssumption DEF UpdatesInv
<1>2. Batch.lo \in Nat /\ Batch.rest = Batch.lo
  BY <1>1 DEF Batch, NextBatch
<1>3. Headers = Cardinality(BlocksIn(Batch.lo, iter.hi))
  BY DEF Headers, InBatch, BlocksIn
<1> QED
  BY <1>1, <1>2, <1>3, BlocksInFinite

--------------------------------------------------------------------------------
(* The calls. *)

\* A replay never goes back beyond what it finalizes.
LEMMA LastBelowFin ==
    ASSUME NEW rb, Descends(rb)
    PROVE  rb.last <= rb.fin /\ rb.last \in Nat /\ rb.fin \in Nat
<1>1. /\ rb.last \in Nat /\ Len(rb.cps) \in Nat /\ Len(rb.cps) > 0 /\ DOMAIN rb.cps = 1..Len(rb.cps)
      /\ \A i \in 1..Len(rb.cps) : rb.cps[i] \in Nat
  BY ChainAssumption DEF Descends
<1>2. Last(rb.cps) = rb.cps[Len(rb.cps)] /\ rb.last <= rb.cps[Len(rb.cps)] /\ rb.cps[1] = rb.fin
  BY DEF Descends, Last
<1>3. rb.cps[Len(rb.cps)] <= rb.cps[1]
  <2>1. CASE Len(rb.cps) = 1
    BY <1>1, <2>1
  <2>2. CASE Len(rb.cps) # 1
    <3>0. PICK n \in Nat : n = Len(rb.cps)
      BY <1>1
    <3>1. n > 0 /\ n # 1 /\ DOMAIN rb.cps = 1..n
      BY <1>1, <2>2, <3>0
    <3>2. n > 0 /\ n # 1
      BY <3>1
    <3>3. 1 < n /\ 1 \in 1..n /\ n \in 1..n
      BY <3>2
    <3>4. rb.cps[n] < rb.cps[1]
      BY <3>1, <3>3 DEF Descends
    <3>5. rb.cps[n] \in Nat /\ rb.cps[1] \in Nat
      BY <1>1, <3>0, <3>3
    <3> QED
      BY <3>0, <3>4, <3>5
  <2> QED
    BY <2>1, <2>2
<1> QED
  BY <1>1, <1>2, <1>3

\* A replay that starts.
LEMMA StartDescends ==
    ASSUME NEW fin \in Chain, NEW committee
    PROVE  Descends([fin |-> fin, committee |-> committee, cps |-> <<fin>>, last |-> fin])
<1> DEFINE start == [fin |-> fin, committee |-> committee, cps |-> <<fin>>, last |-> fin]
<1>1. start.fin = fin /\ start.cps = <<fin>> /\ start.last = fin /\ start.committee = committee
  OBVIOUS
<1>2. /\ fin \in Nat /\ <<fin>> \in Seq(Nat) /\ <<fin>> # <<>> /\ Len(<<fin>>) = 1 /\ <<fin>>[1] = fin
      /\ DOMAIN <<fin>> = 1..1
  BY ChainAssumption
<1>3. start = [fin |-> start.fin, committee |-> start.committee, cps |-> start.cps, last |-> start.last]
  OBVIOUS
<1> HIDE DEF start
<1>4. Descends(start)
  BY <1>1, <1>2, <1>3 DEF Descends, Last
<1> QED
  BY <1>4 DEF start

\* A call that the relayer sends, one that ends, and a batch.
RelayerCall ==
    \/ \E t \in Tasks, u \in Updates : Known(now, u) /\ SyncUpdate(t, u)
    \/ \E t \in Tasks, u \in Updates, n \in Nat : Known(now, u) /\ ReplayBackStart(t, u, n)
    \/ \E t \in Tasks : ApplySyncUpdate(t) \/ ApplyReplayBackStart(t) \/ Fail(t)
    \/ \E n \in Nat : ReplayBackProcess(n)
    \/ UNCHANGED vars

\* The header moves to fin with what was verified at slot, at or before it.
LEMMA HeaderMoves ==
    ASSUME finalized_header \in Nat, NEW fin \in Nat, NEW slot \in Nat, NEW committee,
           slot <= finalized_header, finalized_header <= fin,
           Brings(now, fin, committee, slot), finalized_header' = fin, Rotate(committee)
    PROVE  EntersWithCommittee
<1>1. /\ Period(slot) <= Period(finalized_header) /\ Period(finalized_header) <= Period(fin)
      /\ Period(slot) \in Nat /\ Period(finalized_header) \in Nat /\ Period(fin) \in Nat
  BY PeriodMonotone
<1>2. CASE committee # None
  <2>1. sync_committee_next' = committee /\ committee = Period(fin) + 1
    BY <1>2 DEF Rotate, Brings
  <2> QED
    BY <2>1 DEF EntersWithCommittee
<1>3. CASE committee = None
  <2>1. Period(fin) = Period(slot) \/ Witness(now, Period(fin))
    BY <1>3 DEF Brings
  <2> QED
    BY <1>1, <2>1 DEF EntersWithCommittee
<1> QED
  BY <1>2, <1>3

\* A batch, for a replay that was verified at or before the stored header.
LEMMA BatchMoves ==
    ASSUME CheckpointInv, ~raced, NEW start, Descends(start), NEW n \in Nat, ProcessHeaders(start, n),
           NEW h \in Nat, h <= finalized_header, Brings(now, start.fin, start.committee, h), now' = now
    PROVE  EntersWithCommittee /\ BehindInv'
<1> DEFINE rb == Replayed(start, n)
<1>1. Stored(checkpoints) /\ Last(checkpoints.items) = finalized_header /\ finalized_header \in Nat
  BY DEF CheckpointInv, Stored, Last
<1>2. Descends(rb) /\ rb.fin = start.fin
  BY ReplayedDescends
<1>3. CASE ~Reached(rb)
  <2>1. /\ replay_back' = [fin |-> start.fin, committee |-> start.committee,
                           cps |-> rb.cps, last |-> rb.last]
        /\ finalized_header' = finalized_header
    BY <1>3 DEF ProcessHeaders
  <2> HIDE DEF rb
  <2>2. replay_back'.fin = start.fin /\ replay_back'.committee = start.committee
    BY <2>1
  <2>3. BehindInv'
    BY <2>1, <2>2 DEF BehindInv
  <2> QED
    BY <2>1, <2>3 DEF EntersWithCommittee
<1>4. CASE Reached(rb)
  <2>1. replay_back' = None /\ finalized_header' = start.fin /\ Rotate(start.committee)
    BY <1>4 DEF ProcessHeaders
  <2>2. Parent(rb.last) = finalized_header
    BY <1>1, <1>4 DEF Reached
  <2> HIDE DEF rb
  <2>3. rb.last <= rb.fin /\ rb.last \in Nat /\ rb.fin \in Nat
    BY <1>2, LastBelowFin
  <2>4. finalized_header < rb.last
    BY <1>1, <2>2, <2>3, ParentOf, ChainAssumption
  <2>5. start.fin \in Nat /\ finalized_header <= start.fin
    BY <1>1, <1>2, <2>3, <2>4
  <2> QED
    BY <1>1, <2>1, <2>5, HeaderMoves DEF BehindInv
<1> QED
  BY <1>3, <1>4

\* What the calls leave.
LEMMA CallMoves ==
    ASSUME StartedInv, CheckpointInv, CallsInv, BehindInv, RelayerCall, ~raced, ~raced', now' = now
    PROVE  EntersWithCommittee /\ CallsInv' /\ BehindInv'
<1>0. finalized_header \in Nat /\ DOMAIN task = Tasks
  BY DEF CheckpointInv, Stored, Last, StartedInv
<1>1. ASSUME NEW t \in Tasks, NEW u \in Updates, NEW n, Known(now, u),
             SyncUpdate(t, u) \/ ReplayBackStart(t, u, n)
      PROVE  EntersWithCommittee /\ CallsInv' /\ BehindInv'
  <2>1. PICK s, k : task' = [task EXCEPT ![t] =
            [service |-> s, slot |-> finalized_header, fin |-> u.fin,
             committee |-> CommitteeUpdate(u), batch |-> k]]
    BY <1>1 DEF SyncUpdate, ReplayBackStart
  <2> DEFINE r == [service |-> s, slot |-> finalized_header, fin |-> u.fin,
                   committee |-> CommitteeUpdate(u), batch |-> k]
  <2>2. r.slot = finalized_header /\ r.fin = u.fin /\ r.committee = CommitteeUpdate(u)
    OBVIOUS
  <2>3. task' = [task EXCEPT ![t] = r]
    BY <2>1
  <2> HIDE DEF r
  <2>4. Brings(now, r.fin, r.committee, r.slot)
    BY <1>0, <1>1, <2>2, VerifiedBrings DEF SyncUpdate, ReplayBackStart
  <2>5. \A x \in Tasks : task'[x] = IF x = t THEN r ELSE task[x]
    BY <1>0, <2>3
  <2>6. CallsInv'
    BY <2>4, <2>5 DEF CallsInv
  <2>7. UNCHANGED <<finalized_header, replay_back>>
    BY <1>1 DEF SyncUpdate, ReplayBackStart
  <2> QED
    BY <2>6, <2>7 DEF EntersWithCommittee, BehindInv
<1>2. ASSUME NEW t \in Tasks, ApplySyncUpdate(t) \/ ApplyReplayBackStart(t) \/ Fail(t)
      PROVE  EntersWithCommittee /\ CallsInv' /\ BehindInv'
  <2> DEFINE r == task[t]
  <2>1. CallsInv'
    <3>1. task' = [task EXCEPT ![t] = None]
      BY <1>2 DEF ApplySyncUpdate, ApplyReplayBackStart, Fail
    <3>2. \A x \in Tasks : task'[x] = IF x = t THEN None ELSE task[x]
      BY <1>0, <3>1
    <3> QED
      BY <3>2 DEF CallsInv
  <2>2. CASE Fail(t)
    BY <2>1, <2>2 DEF Fail, EntersWithCommittee, BehindInv
  <2>3. CASE ApplySyncUpdate(t) \/ ApplyReplayBackStart(t)
    <3>1. /\ r # None /\ r.slot = finalized_header /\ r.fin \in Chain /\ r.fin \in Nat
          /\ finalized_header <= r.fin /\ r.batch \in Nat
          /\ Brings(now, r.fin, r.committee, finalized_header)
      <4>1. r # None /\ r.slot = finalized_header
        BY <2>3 DEF ApplySyncUpdate, ApplyReplayBackStart
      <4>2. r.fin \in Chain /\ r.slot < r.fin /\ r.batch \in Nat /\ r.fin \in Nat
        BY <4>1, ChainAssumption DEF StartedInv
      <4> QED
        BY <1>0, <4>1, <4>2 DEF CallsInv
    <3>2. finalized_header <= finalized_header
      BY <1>0
    <3>3. CASE ApplySyncUpdate(t)
      <4>1. finalized_header' = r.fin /\ Rotate(r.committee) /\ replay_back' = replay_back
        BY <3>3 DEF ApplySyncUpdate
      <4> HIDE DEF r
      <4>2. EntersWithCommittee
        BY <1>0, <3>1, <3>2, <4>1, HeaderMoves
      <4>3. BehindInv'
        <5> SUFFICES ASSUME replay_back # None PROVE BehindInv'
          BY <4>1 DEF BehindInv
        <5>1. PICK h \in Nat : /\ h <= finalized_header
                               /\ Brings(now, replay_back.fin, replay_back.committee, h)
          BY DEF BehindInv
        <5>2. h <= r.fin
          BY <1>0, <3>1, <5>1
        <5> QED
          BY <4>1, <5>1, <5>2 DEF BehindInv
      <4> QED
        BY <2>1, <4>2, <4>3
    <3>4. CASE ApplyReplayBackStart(t)
      <4> DEFINE start == [fin |-> r.fin, committee |-> r.committee, cps |-> <<r.fin>>, last |-> r.fin]
      <4>1. ProcessHeaders(start, r.batch)
        BY <3>4 DEF ApplyReplayBackStart
      <4> HIDE DEF r
      <4>2. start.fin = r.fin /\ start.committee = r.committee
        OBVIOUS
      <4>3. Descends(start)
        BY <3>1, StartDescends
      <4> HIDE DEF start
      <4> QED
        BY <1>0, <2>1, <3>1, <3>2, <4>1, <4>2, <4>3, BatchMoves
    <3> QED
      BY <2>3, <3>3, <3>4
  <2> QED
    BY <1>2, <2>2, <2>3
<1>3. ASSUME NEW n \in Nat, ReplayBackProcess(n)
      PROVE  EntersWithCommittee /\ CallsInv' /\ BehindInv'
  <2>1. /\ replay_back # None /\ ProcessHeaders(replay_back, n) /\ Descends(replay_back)
        /\ task' = task
    BY <1>3 DEF ReplayBackProcess, CheckpointInv
  <2>2. PICK h \in Nat : h <= finalized_header /\ Brings(now, replay_back.fin, replay_back.committee, h)
    BY <2>1 DEF BehindInv
  <2>3. EntersWithCommittee /\ BehindInv'
    BY <2>1, <2>2, BatchMoves
  <2> QED
    BY <2>1, <2>3 DEF CallsInv
<1>4. CASE UNCHANGED vars
  BY <1>4 DEF vars, EntersWithCommittee, CallsInv, BehindInv
<1> QED
  BY <1>1, <1>2, <1>3, <1>4 DEF RelayerCall

--------------------------------------------------------------------------------
(* The relayer's steps. *)

\* What was known stays known.
LEMMA KnownLater ==
    ASSUME NEW m \in DOMAIN Beacon, NEW n \in DOMAIN Beacon, m <= n
    PROVE  /\ \A u : Known(m, u) => Known(n, u)
           /\ \A fin, committee, slot : Brings(m, fin, committee, slot) => Brings(n, fin, committee, slot)
<1>1. m \in Nat /\ n \in Nat /\ 1..m \subseteq 1..n
  BY BeaconAssumption
<1>2. \A p : Witness(m, p) => Witness(n, p)
  BY <1>1 DEF Witness
<1> QED
  BY <1>2 DEF Known, Brings

\* The update that the receiver sends is known.
LEMMA NewestKnown ==
    ASSUME now \in DOMAIN Beacon, Beacon[now].best[Period(Beacon[now].finality.fin)] # None
    PROVE  Known(now, NewestUpdate)
<1> DEFINE f == Beacon[now].finality
           b == Beacon[now].best[Period(f.fin)]
<1>1. /\ f \in Updates /\ b \in Updates /\ b.next /\ now \in Nat /\ now \in 1..now
  BY BeaconAssumption
<1>2. f.fin \in Nat /\ b.fin \in Nat
  BY <1>1, ChainAssumption
<1>3. NewestUpdate = IF b.fin >= f.fin THEN b ELSE f
  BY DEF NewestUpdate
<1>4. CASE b.fin >= f.fin
  BY <1>1, <1>3, <1>4 DEF Known
<1>5. CASE ~(b.fin >= f.fin)
  <2>1. b.fin < f.fin
    BY <1>2, <1>5
  <2>2. Witness(now, Period(f.fin))
    BY <1>1, <2>1 DEF Witness
  <2> QED
    BY <1>1, <1>3, <1>5, <2>2 DEF Known
<1> QED
  BY <1>4, <1>5

\* The receiver and the beacon chain.
LEMMA ReceiverStep ==
    ASSUME UpdatesInv, Receive \/ ReceiveFails \/ BeaconAdvances \/ UNCHANGED allVars
    PROVE  UpdatesInv'
<1>1. CASE Receive
  <2> DEFINE u == NewestUpdate
             us == Append(updates, u)
  <2>1. Known(now, u) /\ u \in Updates
    BY <1>1, NewestKnown DEF Receive, UpdatesInv, Known
  <2>2. /\ updates' = us /\ UNCHANGED <<now, pc, relayer, update, slot_start, todo, iter>>
    BY <1>1 DEF Receive, replay
  <2> HIDE DEF u
  <2>3. updates \in Seq(Updates) /\ us \in Seq(Updates) /\ DOMAIN us = 1..(Len(updates) + 1)
    BY <2>1 DEF UpdatesInv
  <2>4. \A k \in DOMAIN us : us[k] = u \/ (k \in DOMAIN updates /\ us[k] = updates[k])
    BY <2>1, <2>3
  <2> HIDE DEF us
  <2> QED
    BY <2>1, <2>2, <2>3, <2>4 DEF UpdatesInv
<1>2. CASE ReceiveFails \/ UNCHANGED allVars
  <2>1. UNCHANGED <<now, updates, pc, relayer, update, slot_start, todo, iter>>
    BY <1>2 DEF ReceiveFails, replay, allVars, relayerVars
  <2> QED
    BY <2>1 DEF UpdatesInv
<1>3. CASE BeaconAdvances
  <2>1. UNCHANGED <<updates, pc, relayer, update, slot_start, todo, iter>>
    BY <1>3 DEF BeaconAdvances, replay
  <2>2. now \in DOMAIN Beacon /\ now' \in DOMAIN Beacon /\ now <= now'
    BY <1>3, BeaconAssumption DEF BeaconAdvances, UpdatesInv
  <2>3. PICK m \in DOMAIN Beacon, n \in DOMAIN Beacon : m = now /\ n = now' /\ m <= n
    BY <2>2
  <2>4. \A u : Known(m, u) => Known(n, u)
    BY <2>3, KnownLater
  <2> QED
    BY <2>1, <2>3, <2>4 DEF UpdatesInv
<1> QED
  BY <1>1, <1>2, <1>3

\* The update at hand, the end of a process and the start of the next one.
LEMMA UpdateStep ==
    ASSUME UpdatesInv,
           \/ TakeUpdate \/ SendUpdate \/ UpdateApplied \/ UpdateRefused \/ ReplayDone
           \/ CannotResume \/ ReplayRequiredInLoop \/ ReplayFails \/ ChannelClosed
           \/ Interrupted \/ CallFails \/ AbandonedCallEnds \/ Restart
    PROVE  UpdatesInv'
<1>1. CASE TakeUpdate
  <2>1. /\ updates # <<>> /\ updates' = Tail(updates) /\ update = None
        /\ update' = None \/ update' = Head(updates)
        /\ pc \in {"first", "main"}
        /\ UNCHANGED <<now, pc, relayer, slot_start, todo, iter>>
    BY <1>1 DEF TakeUpdate, replay
  <2>2. /\ updates \in Seq(Updates) /\ Tail(updates) \in Seq(Updates)
        /\ Head(updates) = updates[1] /\ 1 \in DOMAIN updates
        /\ \A k \in DOMAIN Tail(updates) : k + 1 \in DOMAIN updates /\ Tail(updates)[k] = updates[k + 1]
    BY <2>1 DEF UpdatesInv
  <2>3. Known(now, Head(updates)) /\ \A k \in DOMAIN updates' : Known(now, updates'[k])
    BY <2>1, <2>2 DEF UpdatesInv
  <2> QED
    BY <2>1, <2>2, <2>3 DEF UpdatesInv
<1>2. CASE UpdateApplied \/ UpdateRefused \/ ReplayDone
  <2>1. pc' = "main" /\ update' = None /\ UNCHANGED <<now, updates, relayer, slot_start, todo, iter>>
    BY <1>2 DEF UpdateApplied, UpdateRefused, ReplayDone, replay
  <2> QED
    BY <2>1 DEF UpdatesInv
<1>3. CASE SendUpdate \/ AbandonedCallEnds
  <2>1. UNCHANGED <<now, updates, pc, relayer, update, slot_start, todo, iter>>
    BY <1>3 DEF SendUpdate, AbandonedCallEnds, relayerVars
  <2> QED
    BY <2>1 DEF UpdatesInv
<1>4. CASE \/ CannotResume \/ ReplayRequiredInLoop \/ ReplayFails \/ ChannelClosed
           \/ Interrupted \/ CallFails
  <2>1. pc' = "exited" /\ UNCHANGED <<now, updates, relayer, update, slot_start, todo, iter>>
    BY <1>4 DEF CannotResume, ReplayRequiredInLoop, ReplayFails, ChannelClosed, Interrupted,
                CallFails, Exit, replay
  <2> QED
    BY <2>1 DEF UpdatesInv
<1>5. CASE Restart
  <2>1. /\ pc' = "first" /\ updates' = <<>> /\ update' = None /\ todo' = None /\ slot_start' = 0
        /\ iter' = NoIter /\ now' = now /\ relayer' = FreeTask /\ \E t \in Tasks : task[t] = None
    BY <1>5 DEF Restart
  <2>2. updates' \in Seq(Updates) /\ DOMAIN updates' = {}
    BY <2>1
  <2>3. FreeTask \in Tasks
    BY <2>1 DEF FreeTask
  <2> QED
    BY <2>1, <2>2, <2>3 DEF UpdatesInv, NoIter
<1> QED
  BY <1>1, <1>2, <1>3, <1>4, <1>5

\* A replay is started, or an unfinished one taken up again, and its updates and batches.
LEMMA ReplayStepUpdates ==
    ASSUME UpdatesInv, CheckpointInv, ~raced,
           ReplayRequired \/ FetchUpdates \/ NextInterval \/ ReplayStarts \/ ReplayStarted \/ ReplayProcess
    PROVE  UpdatesInv'
<1>1. CASE ReplayRequired
  <2>1. /\ pc' = "replay" /\ todo' = None /\ update # None
        /\ UNCHANGED <<now, updates, relayer, update>>
    BY <1>1 DEF ReplayRequired
  <2>2. Last(checkpoints.items) = finalized_header /\ finalized_header \in Nat
    BY DEF CheckpointInv, Stored, Last
  <2>3. CASE replay_back # None
    <3>1. /\ slot_start' = replay_back.fin
          /\ iter' = [u |-> None, started |-> TRUE, lo |-> finalized_header, hi |-> replay_back.last]
      BY <1>1, <2>2, <2>3 DEF ReplayRequired, Unfinished
    <3>2. /\ iter'.u = None /\ iter'.started = TRUE
          /\ iter'.lo = finalized_header /\ iter'.hi = replay_back.last
      BY <3>1
    <3>3. replay_back.last \in Nat /\ replay_back.fin \in Nat
      BY <2>3, <3>1, LastBelowFin DEF CheckpointInv
    <3> QED
      BY <2>1, <2>2, <3>1, <3>2, <3>3 DEF UpdatesInv
  <2>4. CASE replay_back = None
    <3>1. slot_start' = finalized_header /\ iter' = NoIter
      BY <1>1, <2>2, <2>4 DEF ReplayRequired, Unfinished
    <3> QED
      BY <2>1, <2>2, <3>1 DEF UpdatesInv, NoIter
  <2> QED
    BY <2>3, <2>4
<1>2. CASE FetchUpdates
  <2> DEFINE best == Beacon[now].best
             after(i) == Period(slot_start) + i
             has(i) == after(i) \in DOMAIN best /\ best[after(i)] # None
             ends(i) == i > 0 /\ best[after(i)].fin = update.fin
  <2>1. /\ pc = "replay" /\ UNCHANGED <<now, updates, pc, relayer, update, slot_start, iter>>
    BY <1>2 DEF FetchUpdates
  <2>2. PICK n \in 0..MAX_REQUEST_LIGHT_CLIENT_UPDATES :
          /\ \A i \in 1..n : has(i) /\ (i < n => ~ends(i))
          /\ todo' = IF ends(n) THEN [i \in 1..n |-> best[after(i)]]
                     ELSE Append([i \in 1..n |-> best[after(i)]], update)
    BY <1>2, Zenon DEF FetchUpdates
  <2> HIDE DEF ends
  <2>3. Known(now, update) /\ update \in Updates
    BY <2>1 DEF UpdatesInv, Known
  <2>4. ASSUME NEW i \in 1..n PROVE best[after(i)] \in Updates /\ Known(now, best[after(i)])
    <3>1. now \in DOMAIN Beacon
      BY DEF UpdatesInv
    <3> QED
      BY <2>2, <3>1, BeaconAssumption DEF Known
  <2> HIDE DEF best, after, has
  <2>n. n \in Nat
    BY RelayerAssumption
  <2> DEFINE us == [i \in 1..n |-> best[after(i)]]
  <2>5. us \in Seq(Updates) /\ Len(us) = n /\ DOMAIN us = 1..n /\ \A k \in 1..n : us[k] = best[after(k)]
    BY <2>4, <2>n
  <2>6. todo' = us \/ todo' = Append(us, update)
    BY <2>2
  <2> HIDE DEF us
  <2>7. todo' \in Seq(Updates) /\ \A k \in DOMAIN todo' : Known(now, todo'[k])
    <3>1. CASE todo' = us
      BY <2>4, <2>5, <3>1
    <3>2. CASE todo' = Append(us, update)
      <4>1. todo' \in Seq(Updates) /\ DOMAIN todo' = 1..(n + 1)
        BY <2>3, <2>5, <2>n, <3>2
      <4>2. \A k \in 1..(n + 1) : todo'[k] = update \/ (k \in 1..n /\ todo'[k] = us[k])
        BY <2>3, <2>5, <2>n, <3>2
      <4> QED
        BY <2>3, <2>4, <2>5, <4>1, <4>2
    <3> QED
      BY <2>6, <3>1, <3>2
  <2> QED
    BY <2>1, <2>7 DEF UpdatesInv
<1>3. CASE NextInterval
  <2> DEFINE u == Head(todo)
  <2>1. /\ pc = "replay" /\ todo # None /\ todo # <<>>
        /\ iter' = [u |-> u, started |-> FALSE, lo |-> slot_start, hi |-> u.fin]
        /\ slot_start' = u.fin /\ todo' = Tail(todo)
        /\ UNCHANGED <<now, updates, pc, relayer, update>>
    BY <1>3 DEF NextInterval
  <2>2. /\ todo \in Seq(Updates) /\ Tail(todo) \in Seq(Updates)
        /\ u = todo[1] /\ 1 \in DOMAIN todo
        /\ \A k \in DOMAIN Tail(todo) : k + 1 \in DOMAIN todo /\ Tail(todo)[k] = todo[k + 1]
    BY <2>1 DEF UpdatesInv
  <2>3. Known(now, u) /\ \A k \in DOMAIN todo' : Known(now, todo'[k])
    BY <2>1, <2>2 DEF UpdatesInv
  <2> HIDE DEF u
  <2>4. iter'.u = u /\ iter'.started = FALSE /\ iter'.lo = slot_start /\ iter'.hi = u.fin
    BY <2>1
  <2>5. slot_start \in Nat /\ u.fin \in Nat
    BY <2>1, <2>3, ChainAssumption DEF Known, UpdatesInv
  <2> QED
    BY <2>1, <2>2, <2>3, <2>4, <2>5 DEF UpdatesInv
<1>4. CASE ReplayStarts
  <2>1. UNCHANGED <<now, updates, pc, relayer, update, slot_start, todo, iter>>
    BY <1>4 DEF ReplayStarts, relayerVars
  <2> QED
    BY <2>1 DEF UpdatesInv
<1>5. CASE ReplayStarted \/ ReplayProcess
  <2>1. UNCHANGED <<now, updates, pc, relayer, update, slot_start, todo>>
    BY <1>5 DEF ReplayStarted, ReplayProcess
  <2>2. /\ iter'.started = TRUE /\ iter'.hi = Batch.rest /\ iter'.u = iter.u /\ iter'.lo = iter.lo
        /\ iter' = [u |-> iter'.u, started |-> iter'.started, lo |-> iter'.lo, hi |-> iter'.hi]
    <3>1. iter = [u |-> iter.u, started |-> iter.started, lo |-> iter.lo, hi |-> iter.hi]
      BY DEF UpdatesInv
    <3>2. \/ iter' = [iter EXCEPT !.started = TRUE, !.hi = Batch.rest]
          \/ iter' = [iter EXCEPT !.hi = Batch.rest] /\ iter.started
      BY <1>5 DEF ReplayStarted, ReplayProcess
    <3>3. iter.started \in BOOLEAN
      BY DEF UpdatesInv
    <3> HIDE DEF Batch
    <3> QED
      BY <3>1, <3>2, <3>3
  <2>3. Batch.rest \in Nat
    BY HeadersCounted
  <2> HIDE DEF Batch
  <2> QED
    BY <2>1, <2>2, <2>3 DEF UpdatesInv
<1> QED
  BY <1>1, <1>2, <1>3, <1>4, <1>5

\* The other steps call nothing, and only one of them moves the beacon chain.
LEMMA OthersCallNothing ==
    ASSUME \/ Receive \/ ReceiveFails \/ TakeUpdate \/ UpdateRefused \/ ReplayRequired \/ CannotResume
           \/ ReplayRequiredInLoop \/ FetchUpdates \/ NextInterval \/ ReplayDone \/ ReplayFails
           \/ ChannelClosed \/ CallFails \/ Interrupted \/ Restart \/ BeaconAdvances \/ UNCHANGED allVars
    PROVE  UNCHANGED vars
BY Zenon DEF Receive, ReceiveFails, TakeUpdate, UpdateRefused, ReplayRequired, CannotResume,
    ReplayRequiredInLoop, FetchUpdates, NextInterval, ReplayDone, ReplayFails, ChannelClosed,
    CallFails, Interrupted, Restart, BeaconAdvances, allVars

LEMMA OnlyBeaconAdvances ==
    ASSUME [RelayerNext]_allVars, now' # now
    PROVE  BeaconAdvances
<1>1. CASE \/ Receive \/ ReceiveFails \/ TakeUpdate \/ UpdateRefused \/ ReplayRequired
           \/ FetchUpdates \/ NextInterval \/ ReplayDone \/ Restart
  BY <1>1 DEF Receive, ReceiveFails, TakeUpdate, UpdateRefused, ReplayRequired, FetchUpdates,
              NextInterval, ReplayDone, Restart
<1>2. CASE \/ CannotResume \/ ReplayRequiredInLoop \/ ReplayFails \/ ChannelClosed \/ CallFails
           \/ Interrupted
  BY <1>2 DEF CannotResume, ReplayRequiredInLoop, ReplayFails, ChannelClosed, CallFails,
              Interrupted, Exit
<1>3. CASE \/ SendUpdate \/ ReplayStarts \/ ReplayProcess \/ UpdateApplied \/ ReplayStarted
           \/ AbandonedCallEnds \/ UNCHANGED allVars
  BY <1>3 DEF SendUpdate, ReplayStarts, ReplayProcess, UpdateApplied, ReplayStarted,
              AbandonedCallEnds, relayerVars, allVars
<1> QED
  BY <1>1, <1>2, <1>3 DEF RelayerNext, Work, ReplayStep

\* A stale verification is remembered.
LEMMA RacedStays ==
    ASSUME [RelayerNext]_allVars
    PROVE  raced => raced'
<1>1. ASSUME UNCHANGED vars PROVE raced => raced'
  BY <1>1 DEF vars
<1>2. ASSUME NEW t, ApplySyncUpdate(t) \/ ApplyReplayBackStart(t) \/ Fail(t) PROVE raced => raced'
  BY <1>2 DEF ApplySyncUpdate, ApplyReplayBackStart, Fail
<1>3. CASE SendUpdate \/ ReplayStarts \/ ReplayProcess
  BY <1>3 DEF SendUpdate, ReplayStarts, ReplayProcess, SyncUpdate, ReplayBackStart, ReplayBackProcess
<1>4. CASE UpdateApplied \/ ReplayStarted \/ AbandonedCallEnds
  BY <1>2, <1>4 DEF UpdateApplied, ReplayStarted, AbandonedCallEnds
<1>5. CASE \/ Receive \/ ReceiveFails \/ TakeUpdate \/ UpdateRefused \/ ReplayRequired \/ CannotResume
           \/ ReplayRequiredInLoop \/ FetchUpdates \/ NextInterval \/ ReplayDone \/ ReplayFails
           \/ ChannelClosed \/ CallFails \/ Interrupted \/ Restart \/ BeaconAdvances \/ UNCHANGED allVars
  <2>1. UNCHANGED vars
    BY <1>5, OthersCallNothing
  <2> QED
    BY <1>1, <2>1
<1> QED
  BY <1>3, <1>4, <1>5 DEF RelayerNext, Work, ReplayStep

\* Every step of the relayer is a call with an update that is known, the end of one, a batch,
\* or none of them.
LEMMA RelayerCalls ==
    ASSUME UpdatesInv, [RelayerNext]_allVars
    PROVE  RelayerCall
<1>1. CASE SendUpdate
  <2>1. /\ relayer \in Tasks /\ update \in Updates /\ Known(now, update)
        /\ SyncUpdate(relayer, update)
    BY <1>1 DEF SendUpdate, UpdatesInv, Known
  <2> QED
    BY <2>1 DEF RelayerCall
<1>2. CASE ReplayStarts
  <2>1. /\ relayer \in Tasks /\ iter.u \in Updates /\ Known(now, iter.u) /\ Headers \in Nat
        /\ ReplayBackStart(relayer, iter.u, Headers)
    BY <1>2, HeadersCounted DEF ReplayStarts, UpdatesInv, Known
  <2> QED
    BY <2>1 DEF RelayerCall
<1>3. CASE ReplayProcess
  <2>1. \E n \in Nat : ReplayBackProcess(n)
    <3>1. Headers \in Nat /\ ReplayBackProcess(IF Connected THEN Headers ELSE 0)
      BY <1>3, HeadersCounted DEF ReplayProcess
    <3> QED
      BY <3>1
  <2> QED
    BY <2>1 DEF RelayerCall
<1>4. CASE UpdateApplied \/ ReplayStarted \/ AbandonedCallEnds
  BY <1>4 DEF UpdateApplied, ReplayStarted, AbandonedCallEnds, RelayerCall, UpdatesInv
<1>5. CASE \/ Receive \/ ReceiveFails \/ TakeUpdate \/ UpdateRefused \/ ReplayRequired \/ CannotResume
           \/ ReplayRequiredInLoop \/ FetchUpdates \/ NextInterval \/ ReplayDone \/ ReplayFails
           \/ ChannelClosed \/ CallFails \/ Interrupted \/ Restart \/ BeaconAdvances \/ UNCHANGED allVars
  BY <1>5, OthersCallNothing DEF RelayerCall
<1> QED
  BY <1>1, <1>2, <1>3, <1>4, <1>5 DEF RelayerNext, Work, ReplayStep

\* A step of the relayer, as long as no stale verification is applied.
LEMMA RelayerStep ==
    ASSUME RInv, [RelayerNext]_allVars, ~raced'
    PROVE  /\ StartedInv' /\ CheckpointInv' /\ UpdatesInv' /\ CallsInv' /\ BehindInv'
           /\ EntersWithCommittee
<1>1. ~raced /\ StartedInv /\ CheckpointInv /\ UpdatesInv /\ CallsInv /\ BehindInv
  BY RacedStays DEF RInv
<1>2. RelayerCall
  BY <1>1, RelayerCalls
<1>3. StartedInv' /\ CheckpointInv'
  <2>1. ClientStep
    BY <1>2 DEF RelayerCall, ClientStep
  <2> QED
    BY <1>1, <2>1, StartedStep, CheckpointStep
<1>4. UpdatesInv'
  BY <1>1, ReceiverStep, UpdateStep, ReplayStepUpdates DEF RelayerNext, Work, ReplayStep
<1>5. CASE now' = now
  BY <1>1, <1>2, <1>3, <1>4, <1>5, CallMoves
<1>6. CASE now' # now
  <2>1. BeaconAdvances
    BY <1>6, OnlyBeaconAdvances
  <2>2. now \in DOMAIN Beacon /\ now' \in DOMAIN Beacon /\ now <= now' /\ UNCHANGED vars
    BY <1>1, <2>1, BeaconAssumption DEF BeaconAdvances, UpdatesInv
  <2>3. \A fin, committee, slot : Brings(now, fin, committee, slot) => Brings(now', fin, committee, slot)
    <3>1. PICK m \in DOMAIN Beacon, n \in DOMAIN Beacon : m = now /\ n = now' /\ m <= n
      BY <2>2
    <3> QED
      BY <3>1, KnownLater
  <2>4. CallsInv' /\ BehindInv' /\ EntersWithCommittee
    BY <1>1, <2>2, <2>3 DEF CallsInv, BehindInv, EntersWithCommittee, vars
  <2> QED
    BY <1>3, <1>4, <2>4
<1> QED
  BY <1>5, <1>6

\* In every behaviour of the relayer: what is held, waits or is replayed was answered by the
\* beacon node, unless a stale verification was applied.
THEOREM RelayerInvariance == RelayerSpec => []RInv
<1>1. RelayerInit => RInv
  <2> SUFFICES ASSUME RelayerInit PROVE RInv
    OBVIOUS
  <2>1. Init
    BY DEF RelayerInit
  <2>2. StartedInv /\ CheckpointInv
    BY <2>1, InitialCheckpoints
  <2>3. relayer \in Tasks
    <3>1. \E t \in Tasks : task[t] = None
      BY <2>1, RelayerAssumption DEF Init
    <3> QED
      BY <3>1 DEF RelayerInit, FreeTask
  <2>4. UpdatesInv
    <3>1. updates \in Seq(Updates) /\ DOMAIN updates = {}
      BY DEF RelayerInit
    <3>2. 1 \in DOMAIN Beacon
      BY BeaconAssumption
    <3> QED
      BY <2>3, <3>1, <3>2 DEF RelayerInit, UpdatesInv, NoIter
  <2>5. CallsInv /\ BehindInv
    BY <2>1 DEF Init, CallsInv, BehindInv
  <2> QED
    BY <2>2, <2>4, <2>5 DEF RInv
<1>2. RInv /\ [RelayerNext]_allVars => RInv'
  BY RelayerStep DEF RInv
<1> QED
  BY <1>1, <1>2, PTL DEF RelayerSpec

\* Whatever the beacon node answers, wherever a crash ends a replay and whenever a call that
\* it left behind is applied: the light client enters a period with the committee after it,
\* or the relayer saw a finality update ahead of that period's best update, or a stale
\* verification was applied.
THEOREM PeriodsEnteredWithCommittee == RelayerSpec => EntersPeriodsWithCommittee
<1>1. RInv /\ [RelayerNext]_allVars
        => [Period(finalized_header') # Period(finalized_header)
              => \/ sync_committee_next' = Period(finalized_header') + 1
                 \/ FinalityWasAhead(Period(finalized_header'))
                 \/ raced']_allVars
  <2> SUFFICES ASSUME RInv, [RelayerNext]_allVars, ~raced',
                      Period(finalized_header') # Period(finalized_header)
               PROVE  \/ sync_committee_next' = Period(finalized_header') + 1
                      \/ FinalityWasAhead(Period(finalized_header'))
    OBVIOUS
  <2> QED
    BY RelayerStep DEF EntersWithCommittee, FinalityWasAhead, Witness
<1> QED
  BY <1>1, RelayerInvariance, PTL DEF RelayerSpec, EntersPeriodsWithCommittee
================================================================================
