------------------------ MODULE EthToGearRelayerProofs -------------------------
(****************************************************************************)
(* The Ethereum -> Gear token relayer, for every chain, every number of      *)
(* failures and all three relayers: no event is forgotten between the tasks, *)
(* and vft-manager is given nothing that the light client has no checkpoint  *)
(* for.                                                                      *)
(*                                                                           *)
(* The sender removes from its vector by an index of a loop that other       *)
(* steps interrupt; the index stays within the vector (SenderInv), so what   *)
(* it removes is what it has submitted.                                      *)
(****************************************************************************)
EXTENDS EthToGearRelayer, SequenceTheorems, NaturalsInduction, WellFoundedInduction, TLAPS

TypeInv ==
    /\ gear_head \in GearBlocks /\ eth_head \in EthBlocks
    /\ gear_next \in 1..LastGear + 1 /\ eth_next \in 1..LastEth + 1
    /\ gear_next <= gear_head + 1
    /\ gear_blocks \in Seq(GearBlocks) /\ eth_blocks \in Seq(EthBlocks)
    /\ latest_checkpoint \in Nat
    /\ events \in Seq(Txs) /\ checkpoints \in Seq(Nat)
    /\ waiting \in Seq(Txs) /\ latest \in Nat
    /\ processed \subseteq Txs

\* The submitting loop stays within the vector.
SenderInv == cursor \in 0..Len(waiting)

Finalized == CheckpointAt[gear_head]

\* vft-manager has processed only what the light client has a checkpoint for: the
\* sender's wait for a checkpoint, over a channel, restarts and a late reply.
ProvedByCheckpoint == \A t \in processed : SlotOf[t] <= Finalized

\* Every checkpoint on its way to the sender is one that the light client has.
CheckpointInv ==
    /\ \A b \in ToSet(gear_blocks) : b <= gear_head
    /\ \A c \in ToSet(checkpoints) : c <= Finalized
    /\ latest_checkpoint <= Finalized /\ latest <= Finalized
    /\ ProvedByCheckpoint

\* The inductive invariant.
IInv == TypeInv /\ SenderInv /\ CheckpointInv /\ EventsAccounted

--------------------------------------------------------------------------------
(* Sequences. *)

LEMMA TailOf ==
    ASSUME NEW S, NEW s \in Seq(S), s # <<>>
    PROVE  /\ Tail(s) \in Seq(S) /\ Head(s) \in S
           /\ ToSet(s) = {Head(s)} \cup ToSet(Tail(s))
<1>1. /\ Len(s) \in Nat \ {0} /\ DOMAIN s = 1..Len(s)
      /\ DOMAIN Tail(s) = 1..(Len(s) - 1)
      /\ \A i \in 1..(Len(s) - 1) : Tail(s)[i] = s[i + 1] /\ i + 1 \in 1..Len(s)
      /\ Head(s) = s[1] /\ 1 \in 1..Len(s)
  OBVIOUS
<1>2. Tail(s) \in Seq(S) /\ Head(s) \in S
  OBVIOUS
<1>3. {Head(s)} \cup ToSet(Tail(s)) \subseteq ToSet(s)
  BY <1>1 DEF ToSet
<1>4. ASSUME NEW i \in 1..Len(s), i # 1 PROVE s[i] \in ToSet(Tail(s))
  <2>1. i - 1 \in 1..(Len(s) - 1) /\ (i - 1) + 1 = i
    BY <1>1, <1>4
  <2>2. Tail(s)[i - 1] = s[i]
    BY <1>1, <2>1
  <2> QED
    BY <1>1, <2>1, <2>2 DEF ToSet
<1> QED
  BY <1>1, <1>2, <1>3, <1>4 DEF ToSet

LEMMA ToSetOf ==
    ASSUME NEW S, NEW s \in Seq(S)
    PROVE  ToSet(s) \subseteq S
BY DEF ToSet

LEMMA ConcatOf ==
    ASSUME NEW S, NEW s \in Seq(S), NEW t \in Seq(S)
    PROVE  s \o t \in Seq(S) /\ ToSet(s \o t) = ToSet(s) \cup ToSet(t)
<1> DEFINE u == s \o t
<1>1. /\ Len(s) \in Nat /\ Len(t) \in Nat /\ u \in Seq(S)
      /\ DOMAIN s = 1..Len(s) /\ DOMAIN t = 1..Len(t) /\ DOMAIN u = 1..(Len(s) + Len(t))
      /\ \A i \in 1..Len(s) : u[i] = s[i]
      /\ \A i \in 1..(Len(s) + Len(t)) : i > Len(s) => u[i] = t[i - Len(s)]
  OBVIOUS
<1> HIDE DEF u
<1>2. \A i \in DOMAIN u : \/ i \in DOMAIN s /\ u[i] = s[i]
                          \/ i - Len(s) \in DOMAIN t /\ u[i] = t[i - Len(s)]
  BY <1>1
<1>3. ToSet(u) \subseteq ToSet(s) \cup ToSet(t)
  BY <1>2 DEF ToSet
<1>4. ToSet(s) \subseteq ToSet(u)
  BY <1>1 DEF ToSet
<1>5. ASSUME NEW j \in DOMAIN t PROVE t[j] \in ToSet(u)
  <2>1. j + Len(s) \in DOMAIN u /\ u[j + Len(s)] = t[j]
    BY <1>1
  <2> QED
    BY <2>1 DEF ToSet
<1>6. ToSet(t) \subseteq ToSet(u)
  BY <1>5 DEF ToSet
<1> QED
  BY <1>1, <1>3, <1>4, <1>6 DEF u

LEMMA AppendOf ==
    ASSUME NEW S, NEW s \in Seq(S), NEW x \in S
    PROVE  /\ Append(s, x) \in Seq(S) /\ ToSet(Append(s, x)) = ToSet(s) \cup {x}
           /\ Len(Append(s, x)) = Len(s) + 1
<1>1. /\ Len(s) \in Nat /\ DOMAIN s = 1..Len(s) /\ DOMAIN Append(s, x) = 1..(Len(s) + 1)
      /\ \A i \in 1..Len(s) : Append(s, x)[i] = s[i]
      /\ Append(s, x)[Len(s) + 1] = x /\ Len(s) + 1 \in 1..(Len(s) + 1)
      /\ \A i \in 1..(Len(s) + 1) : i \in 1..Len(s) \/ i = Len(s) + 1
      /\ \A i \in 1..Len(s) : i \in 1..(Len(s) + 1)
  OBVIOUS
<1> QED
  BY <1>1 DEF ToSet

\* What waiting_checkpoint.remove leaves.
LEMMA RemoveAtOf ==
    ASSUME NEW S, NEW s \in Seq(S), NEW i \in 1..Len(s)
    PROVE  /\ RemoveAt(s, i) \in Seq(S) /\ Len(RemoveAt(s, i)) = Len(s) - 1
           /\ ToSet(s) \subseteq ToSet(RemoveAt(s, i)) \cup {s[i]}
<1> DEFINE left == SubSeq(s, 1, i - 1)
           right == SubSeq(s, i + 1, Len(s))
<1>1. Len(s) \in Nat /\ DOMAIN s = 1..Len(s) /\ i \in Nat /\ 1 <= i /\ i <= Len(s)
  OBVIOUS
<1>2. /\ left \in Seq(S) /\ Len(left) = i - 1 /\ DOMAIN left = 1..(i - 1)
      /\ \A j \in 1..(i - 1) : left[j] = s[j]
  BY <1>1
<1>3. /\ right \in Seq(S) /\ Len(right) = Len(s) - i /\ DOMAIN right = 1..(Len(s) - i)
      /\ \A j \in 1..(Len(s) - i) : right[j] = s[j + i]
  <2>1. /\ i + 1 \in Int /\ Len(s) \in Int
        /\ \A j \in (i + 1)..Len(s) : s[j] \in S
    BY <1>1
  <2>2. /\ right \in Seq(S)
        /\ Len(right) = IF i + 1 <= Len(s) THEN Len(s) - (i + 1) + 1 ELSE 0
        /\ \A j \in 1..(Len(s) - (i + 1) + 1) : right[j] = s[(i + 1) + j - 1]
    BY <2>1, SubSeqProperties
  <2> HIDE DEF right
  <2>3. Len(right) = Len(s) - i
    <3>1. \A n \in Nat : i <= n => (IF i + 1 <= n THEN n - (i + 1) + 1 ELSE 0) = n - i
      OBVIOUS
    <3> QED
      BY <1>1, <2>2, <3>1
  <2>4. DOMAIN right = 1..(Len(s) - i)
    BY <2>2, <2>3
  <2>5. ASSUME NEW j \in 1..(Len(s) - i) PROVE right[j] = s[j + i]
    <3>1. j \in 1..(Len(s) - (i + 1) + 1) /\ (i + 1) + j - 1 = j + i
      BY <1>1
    <3> QED
      BY <2>2, <3>1
  <2> QED
    BY <2>2, <2>3, <2>4, <2>5
<1>4. RemoveAt(s, i) = left \o right
  BY DEF RemoveAt
<1> HIDE DEF left, right
<1>5. RemoveAt(s, i) \in Seq(S) /\ ToSet(RemoveAt(s, i)) = ToSet(left) \cup ToSet(right)
  BY <1>2, <1>3, <1>4, ConcatOf
<1>6. Len(RemoveAt(s, i)) = Len(s) - 1
  <2>1. Len(left \o right) = Len(left) + Len(right)
    BY <1>2, <1>3, ConcatProperties
  <2> QED
    BY <1>1, <1>2, <1>3, <1>4, <2>1
<1>7. ASSUME NEW j \in 1..Len(s), j # i PROVE s[j] \in ToSet(left) \cup ToSet(right)
  <2>1. CASE j < i
    <3>1. j \in 1..(i - 1)
      BY <1>1, <2>1
    <3> QED
      BY <1>2, <3>1 DEF ToSet
  <2>2. CASE j > i
    <3>1. j - i \in 1..(Len(s) - i) /\ (j - i) + i = j
      BY <1>1, <2>2
    <3>2. right[j - i] = s[j]
      BY <1>3, <3>1
    <3> QED
      BY <1>3, <3>1, <3>2 DEF ToSet
  <2> QED
    BY <1>1, <1>7, <2>1, <2>2
<1>8. ToSet(s) \subseteq (ToSet(left) \cup ToSet(right)) \cup {s[i]}
  BY <1>1, <1>7 DEF ToSet
<1> QED
  BY <1>5, <1>6, <1>8

\* Induction: every non-empty set of naturals has a least element.
LEMMA LeastNatural ==
    ASSUME NEW S, S \subseteq Nat, S # {}
    PROVE  \E n \in S : \A m \in S : n <= m
<1> DEFINE R == OpToRel(<, Nat)
<1>1. R = {p \in Nat \X Nat : p[1] < p[2]}
  BY DEF OpToRel
<1>2. IsWellFoundedOn(R, Nat)
  BY NatLessThanWellFounded
<1> HIDE DEF R
<1>3. PICK n \in S : \A m \in S : <<m, n>> \notin R
  BY <1>2, WFMin
<1>4. \A a, b \in Nat : a < b => <<a, b>> \in R
  BY <1>1
<1>5. ASSUME NEW m \in S PROVE n <= m
  <2>1. m \in Nat /\ n \in Nat /\ <<m, n>> \notin R
    BY <1>3
  <2>2. ~(m < n)
    BY <1>4, <2>1
  <2> QED
    BY <2>1, <2>2
<1> QED
  BY <1>5

\* The blocks that a listener sends.
LEMMA BlocksOf ==
    ASSUME NEW first \in Nat, NEW last \in Nat, first <= last
    PROVE  /\ Blocks(first, last) \in Seq(first..last)
           /\ ToSet(Blocks(first, last)) = first..last
<1> DEFINE s == Blocks(first, last)
           n == last + 1 - first
<1>1. n \in Nat /\ s = [i \in 1..n |-> first + i - 1]
  BY DEF Blocks
<1>2. \A i \in 1..n : first + i - 1 \in first..last
  OBVIOUS
<1> HIDE DEF s
<1>3. s \in Seq(first..last) /\ DOMAIN s = 1..n /\ \A i \in 1..n : s[i] = first + i - 1
  <2> HIDE DEF n
  <2> QED
    BY <1>1, <1>2
<1>4. ASSUME NEW b \in first..last PROVE b \in ToSet(s)
  <2>1. b + 1 - first \in 1..n /\ first + (b + 1 - first) - 1 = b
    OBVIOUS
  <2>2. s[b + 1 - first] = b
    BY <1>3, <2>1
  <2> QED
    BY <1>3, <2>1, <2>2 DEF ToSet
<1>5. ToSet(s) \subseteq first..last
  BY <1>2, <1>3 DEF ToSet
<1> QED
  BY <1>3, <1>4, <1>5 DEF s

LEMMA SeqOfSubset ==
    ASSUME NEW S, NEW T, S \subseteq T, NEW s \in Seq(S)
    PROVE  s \in Seq(T)
OBVIOUS

\* The submitting loop goes to the last transaction that is due.
LEMMA CurrentOf ==
    ASSUME TypeInv, SenderInv, Due(cursor) # {}
    PROVE  /\ Current \in 1..cursor /\ Current \in 1..Len(waiting)
           /\ SlotOf[waiting[Current]] <= latest /\ waiting[Current] \in Txs
<1> DEFINE due == Due(cursor)
           far == {cursor - i : i \in due}
<1>1. waiting \in Seq(Txs) /\ Len(waiting) \in Nat /\ cursor \in Nat /\ cursor <= Len(waiting)
  BY DEF TypeInv, SenderInv
<1>2. due \subseteq 1..cursor /\ \A i \in due : SlotOf[waiting[i]] <= latest
  BY DEF Due
<1>3. due # {} /\ Current = CHOOSE i \in due : \A j \in due : j <= i
  BY DEF Current
<1> HIDE DEF due
<1>4. far \subseteq Nat /\ far # {}
  <2>1. \A i \in due : cursor - i \in Nat
    BY <1>1, <1>2
  <2> QED
    BY <1>3, <2>1
<1>5. PICK n \in far : \A m \in far : n <= m
  <2> HIDE DEF far
  <2> QED
    BY <1>4, LeastNatural
<1>6. PICK i \in due : n = cursor - i
  BY <1>5
<1>7. ASSUME NEW j \in due PROVE j <= i
  <2>1. cursor - i <= cursor - j
    BY <1>5, <1>6
  <2> QED
    BY <1>1, <1>2, <2>1
<1>8. Current \in due
  BY <1>3, <1>7
<1>9. Current \in 1..cursor /\ Current \in 1..Len(waiting)
  BY <1>1, <1>2, <1>8
<1> QED
  BY <1>1, <1>2, <1>8, <1>9

--------------------------------------------------------------------------------
(* Types, and the index of the submitting loop. *)

\* What a block holds for the extractor.
LEMMA FoundOf ==
    ASSUME NEW e \in EthBlocks
    PROVE  Found(e) \in Seq(Txs)
BY ChainAssumption DEF Found

\* The steps of the sender leave the chains and the extractors alone.
SenderSteps == TakeEvent \/ TakeCheckpoint \/ Submit \/ SubmitRejected \/ SenderFails \/ SenderEnds

LEMMA SenderTypes ==
    ASSUME TypeInv, SenderInv, SenderSteps
    PROVE  TypeInv' /\ SenderInv'
<1> USE DEF chains, listeners, channels, sender, history
<1>1. /\ events \in Seq(Txs) /\ checkpoints \in Seq(Nat) /\ waiting \in Seq(Txs) /\ latest \in Nat
      /\ processed \subseteq Txs /\ Len(waiting) \in Nat /\ cursor \in 0..Len(waiting)
  BY DEF TypeInv, SenderInv
<1>2. UNCHANGED <<gear_head, eth_head, gear_next, eth_next, gear_blocks, eth_blocks, latest_checkpoint>>
  BY DEF SenderSteps, TakeEvent, TakeCheckpoint, Submit, SubmitRejected, SenderFails, SenderEnds
<1>3. /\ events' \in Seq(Txs) /\ checkpoints' \in Seq(Nat) /\ waiting' \in Seq(Txs) /\ latest' \in Nat
      /\ processed' \subseteq Txs /\ cursor' \in 0..Len(waiting')
  <2>1. CASE TakeEvent
    <3>1. /\ events # <<>> /\ events' = Tail(events) /\ waiting' = Append(waiting, Head(events))
          /\ cursor' = Len(waiting') /\ UNCHANGED <<checkpoints, latest, processed>>
      BY <2>1 DEF TakeEvent
    <3>2. events' \in Seq(Txs) /\ Head(events) \in Txs
      BY <1>1, <3>1, TailOf
    <3>3. waiting' \in Seq(Txs) /\ Len(waiting') = Len(waiting) + 1
      BY <1>1, <3>1, <3>2, AppendOf
    <3> QED
      BY <1>1, <3>1, <3>2, <3>3
  <2>2. CASE TakeCheckpoint
    <3>1. /\ checkpoints # <<>> /\ checkpoints' = Tail(checkpoints) /\ cursor' = Len(waiting)
          /\ latest' \in {latest, Head(checkpoints)} /\ UNCHANGED <<events, waiting, processed>>
      BY <2>2 DEF TakeCheckpoint
    <3>2. checkpoints' \in Seq(Nat) /\ Head(checkpoints) \in Nat
      BY <1>1, <3>1, TailOf
    <3> QED
      BY <1>1, <3>1, <3>2
  <2>3. CASE Submit
    <3>1. /\ Due(cursor) # {} /\ waiting' = RemoveAt(waiting, Current) /\ cursor' = Current - 1
          /\ processed' \subseteq processed \cup {waiting[Current]}
          /\ UNCHANGED <<events, checkpoints, latest>>
      BY <2>3 DEF Submit, Remaining
    <3>2. Current \in 1..cursor /\ Current \in 1..Len(waiting) /\ waiting[Current] \in Txs
      BY <3>1, CurrentOf
    <3>3. waiting' \in Seq(Txs) /\ Len(waiting') = Len(waiting) - 1
      BY <1>1, <3>1, <3>2, RemoveAtOf
    <3>4. cursor' \in 0..Len(waiting')
      BY <1>1, <3>1, <3>2, <3>3
    <3> QED
      BY <1>1, <3>1, <3>2, <3>3, <3>4
  <2>4. CASE SubmitRejected \/ SenderFails
    <3>1. /\ waiting' = waiting /\ latest' = 0 /\ cursor' = 0
          /\ UNCHANGED <<events, checkpoints>>
      BY <2>4 DEF SubmitRejected, SenderFails, SenderRestarts, KeptOnError
    <3>2. processed' = processed \/ (Due(cursor) # {} /\ processed' = processed \cup {waiting[Current]})
      BY <2>4 DEF SubmitRejected, SenderFails
    <3>3. processed' \subseteq Txs
      BY <1>1, <3>2, CurrentOf
    <3> QED
      BY <1>1, <3>1, <3>3
  <2>5. CASE SenderEnds
    BY <1>1, <2>5 DEF SenderEnds
  <2> QED
    BY <2>1, <2>2, <2>3, <2>4, <2>5 DEF SenderSteps
<1> QED
  BY <1>2, <1>3 DEF TypeInv, SenderInv

LEMMA TypeStep ==
    ASSUME TypeInv, SenderInv, [Next]_vars
    PROVE  TypeInv' /\ SenderInv'
<1> USE DEF chains, listeners, channels, sender, tasks, history
<1>1. /\ gear_head \in 1..LastGear /\ eth_head \in 1..LastEth /\ LastGear \in Nat /\ LastEth \in Nat
      /\ gear_next \in 1..LastGear + 1 /\ eth_next \in 1..LastEth + 1
      /\ gear_blocks \in Seq(GearBlocks) /\ eth_blocks \in Seq(EthBlocks)
      /\ events \in Seq(Txs) /\ checkpoints \in Seq(Nat) /\ processed \subseteq Txs
  BY ChainAssumption DEF TypeInv, GearBlocks, EthBlocks
<1>2. CASE SenderSteps
  BY <1>2, SenderTypes
<1>3. CASE GearListener
  <2>1. gear_next..gear_head \subseteq GearBlocks /\ gear_next <= gear_head
    BY <1>1, <1>3 DEF GearListener, GearBlocks
  <2>2. Blocks(gear_next, gear_head) \in Seq(GearBlocks)
    BY <1>1, <2>1, BlocksOf, SeqOfSubset
  <2>3. gear_blocks' \in Seq(GearBlocks)
    BY <1>1, <1>3, <2>2, ConcatOf DEF GearListener
  <2>4. gear_next' \in 1..LastGear + 1 /\ gear_next' <= gear_head' + 1
    BY <1>1, <1>3 DEF GearListener
  <2> QED
    BY <1>3, <2>3, <2>4 DEF GearListener, TypeInv, SenderInv
<1>4. CASE EthListener
  <2>1. eth_next..eth_head \subseteq EthBlocks /\ eth_next <= eth_head
    BY <1>1, <1>4 DEF EthListener, EthBlocks
  <2>2. Blocks(eth_next, eth_head) \in Seq(EthBlocks)
    BY <1>1, <2>1, BlocksOf, SeqOfSubset, SMTT(30)
  <2>3. eth_blocks' \in Seq(EthBlocks)
    BY <1>1, <1>4, <2>2, ConcatOf DEF EthListener
  <2>4. eth_next' \in 1..LastEth + 1
    BY <1>1, <1>4 DEF EthListener
  <2> QED
    BY <1>4, <2>3, <2>4 DEF EthListener, TypeInv, SenderInv
<1>5. CASE GearListenerFails \/ UNCHANGED vars
  <2>1. UNCHANGED <<chains, listeners, latest_checkpoint, channels, sender, processed>>
    BY <1>5 DEF GearListenerFails, vars
  <2> QED
    BY <2>1 DEF TypeInv, SenderInv
<1>6. CASE EthListenerFails
  <2>1. eth_next' \in 1..LastEth + 1
    BY <1>1, <1>6 DEF EthListenerFails, RestartBlock
  <2> QED
    BY <1>6, <2>1 DEF EthListenerFails, TypeInv, SenderInv
<1>7. CASE ExtractEvents \/ ExtractEventsFails
  <2>1. Head(eth_blocks) \in EthBlocks /\ eth_blocks' \in Seq(EthBlocks)
    BY <1>1, <1>7, TailOf DEF ExtractEvents, ExtractEventsFails
  <2>2. Found(Head(eth_blocks)) \in Seq(Txs)
    BY <2>1, FoundOf
  <2>3. events' = events \/ events' = events \o Found(Head(eth_blocks))
    BY <1>7 DEF ExtractEvents, ExtractEventsFails
  <2>4. events' \in Seq(Txs)
    <3>1. events \o Found(Head(eth_blocks)) \in Seq(Txs)
      BY <1>1, <2>2, ConcatOf
    <3> QED
      BY <1>1, <2>3, <3>1
  <2>5. UNCHANGED <<gear_head, eth_head, gear_next, eth_next, gear_blocks, latest_checkpoint,
                    checkpoints, sender, processed>>
    BY <1>7 DEF ExtractEvents, ExtractEventsFails
  <2> QED
    BY <2>1, <2>4, <2>5 DEF TypeInv, SenderInv
<1>8. CASE ExtractCheckpoint \/ ExtractCheckpointFails
  <2>1. Head(gear_blocks) \in GearBlocks /\ gear_blocks' \in Seq(GearBlocks)
    BY <1>1, <1>8, TailOf DEF ExtractCheckpoint, ExtractCheckpointFails
  <2> DEFINE found == CheckpointAt[Head(gear_blocks)]
  <2>2. found \in Nat
    BY <2>1, ChainAssumption
  <2>3. /\ checkpoints' \in {checkpoints, Append(checkpoints, found)}
        /\ latest_checkpoint' \in {latest_checkpoint, found}
    BY <1>8 DEF ExtractCheckpoint, ExtractCheckpointFails
  <2> HIDE DEF found
  <2>4. checkpoints' \in Seq(Nat) /\ latest_checkpoint' \in Nat
    <3>1. Append(checkpoints, found) \in Seq(Nat) /\ latest_checkpoint \in Nat
      BY <1>1, <2>2, AppendOf DEF TypeInv
    <3> QED
      BY <1>1, <2>2, <2>3, <3>1
  <2>5. UNCHANGED <<gear_head, eth_head, gear_next, eth_next, eth_blocks, events, sender, processed>>
    BY <1>8 DEF ExtractCheckpoint, ExtractCheckpointFails
  <2> QED
    BY <2>1, <2>4, <2>5 DEF TypeInv, SenderInv
<1>9. CASE FinalizeGear \/ FinalizeEth
  <2>1. gear_head' \in GearBlocks /\ eth_head' \in EthBlocks /\ gear_next' = gear_next
        /\ gear_next' <= gear_head' + 1
    <3>1. gear_next <= gear_head + 1
      BY DEF TypeInv
    <3>2. \/ gear_head < LastGear /\ gear_head' = gear_head + 1 /\ UNCHANGED <<eth_head, gear_next>>
          \/ eth_head < LastEth /\ eth_head' = eth_head + 1 /\ UNCHANGED <<gear_head, gear_next>>
      BY <1>9 DEF FinalizeGear, FinalizeEth
    <3> QED
      BY <1>1, <3>1, <3>2 DEF GearBlocks, EthBlocks
  <2>2. UNCHANGED <<listeners, latest_checkpoint, channels, sender, processed>>
    BY <1>9 DEF FinalizeGear, FinalizeEth
  <2> QED
    BY <2>1, <2>2 DEF TypeInv, SenderInv
<1>10. CASE \E t \in Txs : OthersSubmit(t)
  <2>1. processed' \subseteq Txs
    BY <1>1, <1>10 DEF OthersSubmit
  <2> QED
    BY <1>10, <2>1 DEF OthersSubmit, TypeInv, SenderInv
<1> QED
  BY <1>2, <1>3, <1>4, <1>5, <1>6, <1>7, <1>8, <1>9, <1>10 DEF Next, Work, SenderSteps

--------------------------------------------------------------------------------
(* Checkpoints. *)

LEMMA CheckpointStep ==
    ASSUME TypeInv, SenderInv, CheckpointInv, [Next]_vars
    PROVE  CheckpointInv'
<1> USE DEF chains, listeners, channels, sender, tasks, history
<1>1. /\ gear_head \in GearBlocks /\ Finalized \in Nat /\ latest \in Nat /\ latest_checkpoint \in Nat
      /\ gear_blocks \in Seq(GearBlocks) /\ checkpoints \in Seq(Nat) /\ waiting \in Seq(Txs)
      /\ processed \subseteq Txs /\ GearBlocks \subseteq Nat
      /\ \A t \in Txs : SlotOf[t] \in Nat
  BY ChainAssumption DEF TypeInv, Finalized, GearBlocks
<1>2. /\ \A b \in ToSet(gear_blocks) : b <= gear_head
      /\ \A c \in ToSet(checkpoints) : c <= Finalized
      /\ latest_checkpoint <= Finalized /\ latest <= Finalized
      /\ \A t \in processed : SlotOf[t] <= Finalized
  BY DEF CheckpointInv, ProvedByCheckpoint
<1>3. ASSUME UNCHANGED <<gear_head, latest_checkpoint>>,
             \A b \in ToSet(gear_blocks') : b <= gear_head,
             \A c \in ToSet(checkpoints') : c <= Finalized,
             latest' <= Finalized,
             \A t \in processed' : SlotOf[t] <= Finalized
      PROVE  CheckpointInv'
  BY <1>2, <1>3 DEF CheckpointInv, ProvedByCheckpoint, Finalized
<1>4. CASE GearListener
  <2>1. /\ gear_next \in Nat /\ gear_next <= gear_head
        /\ gear_next..gear_head \subseteq GearBlocks
    BY <1>1, <1>4, ChainAssumption DEF GearListener, GearBlocks, TypeInv
  <2>2. /\ Blocks(gear_next, gear_head) \in Seq(GearBlocks)
        /\ ToSet(Blocks(gear_next, gear_head)) = gear_next..gear_head
    BY <1>1, <2>1, BlocksOf, SeqOfSubset, SMTT(30)
  <2>3. /\ gear_blocks' = gear_blocks \o Blocks(gear_next, gear_head)
        /\ UNCHANGED <<gear_head, latest_checkpoint, checkpoints, latest, processed>>
    BY <1>4 DEF GearListener
  <2>4. ToSet(gear_blocks') = ToSet(gear_blocks) \cup (gear_next..gear_head)
    <3> DEFINE new == Blocks(gear_next, gear_head)
    <3>1. /\ gear_blocks \in Seq(GearBlocks) /\ new \in Seq(GearBlocks)
          /\ ToSet(new) = gear_next..gear_head /\ gear_blocks' = gear_blocks \o new
      BY <1>1, <2>2, <2>3
    <3> HIDE DEF new
    <3>2. ToSet(gear_blocks \o new) = ToSet(gear_blocks) \cup ToSet(new)
      BY <3>1, ConcatOf, ZenonT(30)
    <3> QED
      BY <3>1, <3>2
  <2>5. \A b \in ToSet(gear_blocks') : b <= gear_head
    BY <1>1, <1>2, <2>1, <2>4
  <2> QED
    BY <1>2, <1>3, <2>3, <2>5
<1>5. CASE \/ EthListener \/ GearListenerFails \/ EthListenerFails \/ ExtractEvents \/ ExtractEventsFails
           \/ TakeEvent \/ SenderEnds \/ FinalizeEth \/ UNCHANGED vars
  <2>1. UNCHANGED <<gear_head, gear_blocks, latest_checkpoint, checkpoints, latest, processed>>
    BY <1>5 DEF EthListener, GearListenerFails, EthListenerFails, ExtractEvents, ExtractEventsFails,
                TakeEvent, SenderEnds, FinalizeEth, vars
  <2> QED
    BY <1>2, <1>3, <2>1
<1>6. CASE ExtractCheckpoint \/ ExtractCheckpointFails
  <2> DEFINE b == Head(gear_blocks)
             found == CheckpointAt[b]
  <2>1. /\ gear_blocks # <<>> /\ gear_blocks' = Tail(gear_blocks)
        /\ checkpoints' \in {checkpoints, Append(checkpoints, found)}
        /\ latest_checkpoint' \in {latest_checkpoint, found}
        /\ UNCHANGED <<gear_head, latest, processed>>
    BY <1>6 DEF ExtractCheckpoint, ExtractCheckpointFails
  <2>2. b \in GearBlocks /\ ToSet(gear_blocks) = {b} \cup ToSet(gear_blocks')
    BY <1>1, <2>1, TailOf
  <2>3. b <= gear_head
    BY <1>2, <2>2
  <2>4. found \in Nat /\ found <= Finalized
    BY <1>1, <2>2, <2>3, ChainAssumption DEF Finalized
  <2> HIDE DEF found
  <2>5. ToSet(Append(checkpoints, found)) = ToSet(checkpoints) \cup {found}
    BY <1>1, <2>4, AppendOf
  <2>6. \A c \in ToSet(checkpoints') : c <= Finalized
    BY <1>2, <2>1, <2>4, <2>5
  <2> QED
    BY <1>2, <2>1, <2>2, <2>4, <2>6 DEF CheckpointInv, ProvedByCheckpoint, Finalized
<1>7. CASE TakeCheckpoint
  <2>1. /\ checkpoints # <<>> /\ checkpoints' = Tail(checkpoints) /\ latest' \in {latest, Head(checkpoints)}
        /\ UNCHANGED <<gear_head, gear_blocks, latest_checkpoint, processed>>
    BY <1>7 DEF TakeCheckpoint
  <2>2. ToSet(checkpoints) = {Head(checkpoints)} \cup ToSet(checkpoints')
    BY <1>1, <2>1, TailOf
  <2>3. latest' <= Finalized /\ \A c \in ToSet(checkpoints') : c <= Finalized
    BY <1>2, <2>1, <2>2
  <2> QED
    BY <1>2, <1>3, <2>1, <2>3
<1>8. CASE Submit \/ SubmitRejected \/ SenderFails
  <2>1. /\ latest' \in {0, latest}
        /\ UNCHANGED <<gear_head, gear_blocks, latest_checkpoint, checkpoints>>
    BY <1>8 DEF Submit, SubmitRejected, SenderFails, SenderRestarts
  <2>2. \/ processed' = processed
        \/ Due(cursor) # {} /\ processed' = processed \cup {waiting[Current]}
    BY <1>8 DEF Submit, SubmitRejected, SenderFails
  <2>3. Due(cursor) # {} => SlotOf[waiting[Current]] <= Finalized
    <3> SUFFICES ASSUME Due(cursor) # {} PROVE SlotOf[waiting[Current]] <= Finalized
      OBVIOUS
    <3>1. SlotOf[waiting[Current]] <= latest /\ waiting[Current] \in Txs
      BY CurrentOf
    <3> QED
      BY <1>1, <1>2, <3>1
  <2>4. \A t \in processed' : SlotOf[t] <= Finalized
    BY <1>2, <2>2, <2>3
  <2>5. latest' <= Finalized
    BY <1>1, <1>2, <2>1
  <2> QED
    BY <1>2, <1>3, <2>1, <2>4, <2>5
<1>9. CASE FinalizeGear
  <2>1. gear_head < LastGear /\ gear_head' = gear_head + 1
        /\ UNCHANGED <<gear_blocks, latest_checkpoint, checkpoints, latest, processed>>
    BY <1>9 DEF FinalizeGear
  <2>2. gear_head' \in GearBlocks /\ gear_head <= gear_head'
    BY <1>1, <2>1, ChainAssumption DEF GearBlocks
  <2>3. Finalized <= Finalized' /\ Finalized' \in Nat
    BY <1>1, <2>2, ChainAssumption DEF Finalized
  <2>4. \A b \in ToSet(gear_blocks) : b \in Nat
    BY <1>1, ToSetOf
  <2>5. \A c \in ToSet(checkpoints) : c \in Nat
    BY <1>1, ToSetOf
  <2>6. gear_head \in Nat /\ gear_head' \in Nat
    BY <1>1, <2>2
  <2>7. \A b \in ToSet(gear_blocks) : b <= gear_head'
    BY <1>2, <2>1, <2>4, <2>6
  <2>8. \A c \in ToSet(checkpoints) : c <= Finalized'
    BY <1>1, <1>2, <2>3, <2>5
  <2>9. latest_checkpoint <= Finalized' /\ latest <= Finalized'
    BY <1>1, <1>2, <2>3
  <2>10. \A t \in processed : SlotOf[t] <= Finalized'
    BY <1>1, <1>2, <2>3
  <2> QED
    BY <2>1, <2>7, <2>8, <2>9, <2>10 DEF CheckpointInv, ProvedByCheckpoint
<1>10. CASE \E t \in Txs : OthersSubmit(t)
  <2>1. PICK t \in Txs : OthersSubmit(t)
    BY <1>10
  <2>2. \A u \in processed' : SlotOf[u] <= Finalized
    BY <1>2, <2>1 DEF OthersSubmit, Finalized
  <2>3. UNCHANGED <<gear_head, gear_blocks, latest_checkpoint, checkpoints, latest>>
    BY <2>1 DEF OthersSubmit
  <2> QED
    BY <1>2, <1>3, <2>2, <2>3
<1> QED
  BY <1>4, <1>5, <1>6, <1>7, <1>8, <1>9, <1>10 DEF Next, Work

--------------------------------------------------------------------------------
(* Events. *)

\* Where an event may be.
Somewhere(t) == t \in ToSet(events) \cup ToSet(waiting) \cup processed \cup Unsupported \cup lost

LEMMA EventStep ==
    ASSUME TypeInv, SenderInv, EventsAccounted, [Next]_vars
    PROVE  EventsAccounted'
<1> USE DEF chains, listeners, channels, sender, tasks, history
<1>1. /\ eth_blocks \in Seq(EthBlocks) /\ events \in Seq(Txs) /\ waiting \in Seq(Txs)
      /\ eth_next \in Nat /\ eth_head \in Nat /\ eth_next \in 1..LastEth + 1 /\ eth_head \in 1..LastEth
      /\ LastEth \in Nat
  BY ChainAssumption DEF TypeInv, EthBlocks
<1>2. mode' = mode /\ running' \subseteq running
  BY DEF Next, Work, vars, GearListener, EthListener, ExtractEvents, ExtractCheckpoint, TakeEvent,
         TakeCheckpoint, Submit, SubmitRejected, SenderEnds, GearListenerFails, EthListenerFails,
         ExtractEventsFails, ExtractCheckpointFails, SenderFails, FinalizeGear, FinalizeEth,
         OthersSubmit, CallFails, Retry, Stop
<1> SUFFICES ASSUME "sender" \in running, mode # "manual",
                    NEW e \in 1..eth_next' - 1, NEW t \in ToSet(Found(e)')
             PROVE  e \in ToSet(eth_blocks') \/ Somewhere(t)'
  BY <1>2 DEF EventsAccounted, Somewhere
<1>3. t \in ToSet(Found(e))
  BY <1>2 DEF Found
<1>4. e \in 1..eth_next - 1 => e \in ToSet(eth_blocks) \/ Somewhere(t)
  BY <1>3 DEF EventsAccounted, Somewhere
<1>5. CASE EthListener
  <2>1. /\ eth_next <= eth_head /\ eth_next' = eth_head + 1
        /\ eth_blocks' = eth_blocks \o Blocks(eth_next, eth_head)
        /\ UNCHANGED <<events, waiting, processed, lost>>
    BY <1>5 DEF EthListener
  <2>2. eth_next..eth_head \subseteq EthBlocks
    BY <1>1 DEF EthBlocks
  <2>3. /\ Blocks(eth_next, eth_head) \in Seq(EthBlocks)
        /\ ToSet(Blocks(eth_next, eth_head)) = eth_next..eth_head
    BY <1>1, <2>1, <2>2, BlocksOf, SeqOfSubset
  <2>4. ToSet(eth_blocks') = ToSet(eth_blocks) \cup (eth_next..eth_head)
    BY <1>1, <2>1, <2>3, ConcatOf
  <2>5. e \in 1..eth_next - 1 \/ e \in eth_next..eth_head
    BY <1>1, <2>1
  <2> QED
    BY <1>4, <2>1, <2>4, <2>5 DEF Somewhere
<1>6. CASE EthListenerFails
  <2>1. eth_next' = 1
    BY <1>6 DEF EthListenerFails, RestartBlock
  <2> QED
    BY <2>1
<1>7. CASE ExtractEvents \/ ExtractEventsFails
  <2> DEFINE b == Head(eth_blocks)
  <2>1. /\ eth_blocks # <<>> /\ eth_blocks' = Tail(eth_blocks)
        /\ \/ events' = events \o Found(b) /\ lost' = lost
           \/ events' = events /\ lost' = lost \cup ToSet(Found(b))
        /\ UNCHANGED <<eth_next, waiting, processed>>
    BY <1>7 DEF ExtractEvents, ExtractEventsFails
  <2>2. b \in EthBlocks /\ ToSet(eth_blocks) = {b} \cup ToSet(eth_blocks')
    BY <1>1, <2>1, TailOf
  <2>3. Found(b) \in Seq(Txs)
    BY <2>2, FoundOf
  <2>4. ToSet(events \o Found(b)) = ToSet(events) \cup ToSet(Found(b))
    BY <1>1, <2>3, ConcatOf
  <2> HIDE DEF b
  <2>5. ToSet(Found(b)) \subseteq ToSet(events') \cup lost' /\ ToSet(events) \subseteq ToSet(events')
        /\ lost \subseteq lost'
    BY <2>1, <2>4
  <2>6. CASE e = b
    BY <1>3, <2>5, <2>6 DEF Somewhere
  <2>7. CASE e # b
    BY <1>4, <2>1, <2>2, <2>5, <2>7 DEF Somewhere
  <2> QED
    BY <2>6, <2>7
<1>8. CASE TakeEvent
  <2>1. /\ events # <<>> /\ events' = Tail(events) /\ waiting' = Append(waiting, Head(events))
        /\ UNCHANGED <<eth_next, eth_blocks, processed, lost>>
    BY <1>8 DEF TakeEvent
  <2>2. Head(events) \in Txs /\ ToSet(events) = {Head(events)} \cup ToSet(events')
    BY <1>1, <2>1, TailOf
  <2>3. ToSet(waiting') = ToSet(waiting) \cup {Head(events)}
    BY <1>1, <2>1, <2>2, AppendOf
  <2> QED
    BY <1>4, <2>1, <2>2, <2>3 DEF Somewhere
<1>9. CASE Submit
  <2>1. /\ Due(cursor) # {} /\ waiting' = RemoveAt(waiting, Current)
        /\ processed \subseteq processed'
        /\ waiting[Current] \in processed' \cup Unsupported
        /\ UNCHANGED <<eth_next, eth_blocks, events, lost>>
    BY <1>9 DEF Submit, Remaining
  <2>2. Current \in 1..Len(waiting)
    BY <2>1, CurrentOf
  <2>3. ToSet(waiting) \subseteq ToSet(waiting') \cup {waiting[Current]}
    BY <1>1, <2>1, <2>2, RemoveAtOf
  <2> QED
    BY <1>4, <2>1, <2>3 DEF Somewhere
<1>10. CASE SubmitRejected \/ SenderFails \/ \E u \in Txs : OthersSubmit(u)
  <2>1. /\ processed \subseteq processed' /\ waiting' = waiting
        /\ UNCHANGED <<eth_next, eth_blocks, events, lost>>
    BY <1>10 DEF SubmitRejected, SenderFails, SenderRestarts, KeptOnError, OthersSubmit
  <2> QED
    BY <1>4, <2>1 DEF Somewhere
<1>11. CASE \/ GearListener \/ GearListenerFails \/ ExtractCheckpoint \/ ExtractCheckpointFails
            \/ TakeCheckpoint \/ SenderEnds \/ FinalizeGear \/ FinalizeEth \/ UNCHANGED vars
  <2>1. UNCHANGED <<eth_next, eth_blocks, events, waiting, processed, lost>>
    BY <1>11 DEF GearListener, GearListenerFails, ExtractCheckpoint, ExtractCheckpointFails,
                 TakeCheckpoint, SenderEnds, FinalizeGear, FinalizeEth, vars
  <2> QED
    BY <1>4, <2>1 DEF Somewhere
<1> QED
  BY <1>5, <1>6, <1>7, <1>8, <1>9, <1>10, <1>11 DEF Next, Work

--------------------------------------------------------------------------------
(* The theorems. *)

\* Every reachable state satisfies the inductive invariant.
THEOREM InductiveInvariant == Spec => []IInv
<1>1. Init => IInv
  <2> SUFFICES ASSUME Init PROVE IInv
    OBVIOUS
  <2>1. ToSet(<<>>) = {}
    BY DEF ToSet
  <2>2. events \in Seq(Txs)
    <3>1. CASE events = <<>>
      BY <3>1
    <3>2. ASSUME NEW t \in Txs, events = <<t>> PROVE events \in Seq(Txs)
      BY <3>2
    <3> QED
      BY <3>1, <3>2 DEF Init
  <2>3. TypeInv /\ SenderInv
    BY <2>2, ChainAssumption DEF Init, TypeInv, SenderInv, GearBlocks, EthBlocks
  <2>4. Finalized \in Nat
    BY <2>3, ChainAssumption DEF TypeInv, Finalized
  <2>5. CheckpointInv
    BY <2>1, <2>4 DEF Init, CheckpointInv, ProvedByCheckpoint
  <2>6. EventsAccounted
    BY DEF Init, EventsAccounted
  <2> QED
    BY <2>3, <2>5, <2>6 DEF IInv
<1>2. IInv /\ [Next]_vars => IInv'
  BY TypeStep, CheckpointStep, EventStep DEF IInv
<1> QED
  BY <1>1, <1>2, PTL DEF Spec

\* No task of the token relayer forgets an event: not the listener that starts again,
\* not the sender whose submission fails, is rejected or is answered too late.
THEOREM NoEventForgotten == Spec => []EventsAccounted
<1>1. IInv => EventsAccounted
  BY DEF IInv
<1> QED
  BY <1>1, InductiveInvariant, PTL

\* Whatever vft-manager has processed is at or before a checkpoint of the light client.
THEOREM NothingBeforeItsCheckpoint == Spec => []ProvedByCheckpoint
<1>1. IInv => ProvedByCheckpoint
  BY DEF IInv, CheckpointInv
<1> QED
  BY <1>1, InductiveInvariant, PTL
================================================================================
