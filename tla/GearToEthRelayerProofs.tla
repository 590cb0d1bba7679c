------------------------ MODULE GearToEthRelayerProofs -------------------------
(****************************************************************************)
(* The Gear -> Ethereum token relayer, for every chain, every number of      *)
(* failures and all three relayers: what it relays is covered by a root that *)
(* Ethereum holds, no message is left behind by a root that is there, and    *)
(* none is relayed twice as long as no block is sent to the extractors twice. *)
(*                                                                           *)
(* The last one needs that a message is in one place at a time, from the     *)
(* block that queued it to the transaction, which is what OnceInv says.      *)
(****************************************************************************)
EXTENDS GearToEthRelayer, FiniteSetTheorems, TLAPS

TypeInv ==
    /\ TypeOK
    /\ \A t \in running \cap Counting : attempts[t] < MAX_RETRIES

OnEthereum(r) == \E e \in 1..eth_head : r \in ToSet(RootsIn[e])

\* Every root on its way has come from Ethereum.
RootInv ==
    /\ eth_next <= eth_head + 1
    /\ \A e \in ToSet(eth_blocks) : e <= eth_head
    /\ \A r \in ToSet(roots) \cup acc_roots : OnEthereum(r)
    /\ RelayedUnderCoveringRoot

IsPaid(m) == \E b \in 1..gear_head : m \in ToSet(PaidIn[b])

\* Every nonce, and every message past the filter, has come from a payment.
PaidInv ==
    mode = "paid" =>
        /\ gear_next <= gear_head + 1
        /\ \A b \in ToSet(paid_blocks) : b <= gear_head
        /\ \A m \in ToSet(paid) \cup ToSet(pending_nonces) \cup ToSet(filtered) \cup acc_messages :
              IsPaid(m)
        /\ \A p \in Leaving : IsPaid(p[1])

Distinct(s) == \A i, j \in DOMAIN s : s[i] = s[j] => i = j

\* A message, or the block that queued it, is in one place.
Seen == ToSet(messages) \cup pending_messages \cup ToSet(filtered) \cup acc_messages

OnceInv ==
    ~Repeats =>
        /\ mode = "manual" => blocks = <<>>
        /\ mode # "manual" =>
              /\ \A m \in Seen : BlockOf[m] < gear_next /\ BlockOf[m] \notin ToSet(blocks)
              /\ \A p \in Leaving : BlockOf[p[1]] < gear_next /\ BlockOf[p[1]] \notin ToSet(blocks)
        /\ Distinct(blocks) /\ \A b \in ToSet(blocks) : b < gear_next
        /\ Distinct(messages) /\ Distinct(filtered)
        /\ \A m \in ToSet(messages) : m \notin pending_messages \cup ToSet(filtered) \cup acc_messages
        /\ \A m \in pending_messages : m \notin ToSet(filtered) \cup acc_messages
        /\ \A m \in ToSet(filtered) : m \notin acc_messages
        /\ \A p \in Leaving : p[1] \notin Seen
        /\ \A p, q \in Leaving : p[1] = q[1] => p = q

\* The inductive invariant.
IInv == TypeInv /\ RootInv /\ NoCoveredMessageWaits /\ PaidInv /\ OnceInv

--------------------------------------------------------------------------------
(* Sequences, and the numbers of a set in their order. *)

LEMMA TailOf ==
    ASSUME NEW S, NEW s \in Seq(S), s # <<>>
    PROVE  /\ Tail(s) \in Seq(S) /\ Head(s) \in S
           /\ Head(s) \in ToSet(s) /\ ToSet(Tail(s)) \subseteq ToSet(s)
           /\ Distinct(s) => Distinct(Tail(s)) /\ Head(s) \notin ToSet(Tail(s))
<1>1. /\ Len(s) \in Nat \ {0} /\ DOMAIN s = 1..Len(s)
      /\ DOMAIN Tail(s) = 1..(Len(s) - 1)
      /\ \A i \in 1..(Len(s) - 1) : Tail(s)[i] = s[i + 1] /\ i + 1 \in 1..Len(s) /\ i + 1 # 1
      /\ Head(s) = s[1] /\ 1 \in 1..Len(s)
  OBVIOUS
<1>2. Tail(s) \in Seq(S) /\ Head(s) \in S
  OBVIOUS
<1>3. Head(s) \in ToSet(s) /\ ToSet(Tail(s)) \subseteq ToSet(s)
  BY <1>1 DEF ToSet
<1>4. ASSUME Distinct(s) PROVE Distinct(Tail(s)) /\ Head(s) \notin ToSet(Tail(s))
  <2>1. Distinct(Tail(s))
    <3> SUFFICES ASSUME NEW i \in 1..(Len(s) - 1), NEW j \in 1..(Len(s) - 1), Tail(s)[i] = Tail(s)[j]
                 PROVE  i = j
      BY <1>1 DEF Distinct
    <3>1. s[i + 1] = s[j + 1] /\ i + 1 \in DOMAIN s /\ j + 1 \in DOMAIN s
      BY <1>1
    <3>2. i + 1 = j + 1
      BY <1>4, <3>1 DEF Distinct
    <3> QED
      BY <3>2
  <2>2. Head(s) \notin ToSet(Tail(s))
    BY <1>1, <1>4 DEF ToSet, Distinct
  <2> QED
    BY <2>1, <2>2
<1> QED
  BY <1>2, <1>3, <1>4

LEMMA ToSetOf ==
    ASSUME NEW S, NEW s \in Seq(S)
    PROVE  ToSet(s) \subseteq S
BY DEF ToSet

LEMMA ConcatOf ==
    ASSUME NEW S, NEW s \in Seq(S), NEW t \in Seq(S)
    PROVE  /\ s \o t \in Seq(S)
           /\ ToSet(s \o t) = ToSet(s) \cup ToSet(t)
           /\ Distinct(s) /\ Distinct(t) /\ ToSet(s) \cap ToSet(t) = {} => Distinct(s \o t)
<1> DEFINE u == s \o t
<1>1. /\ Len(s) \in Nat /\ Len(t) \in Nat /\ u \in Seq(S)
      /\ DOMAIN s = 1..Len(s) /\ DOMAIN t = 1..Len(t) /\ DOMAIN u = 1..(Len(s) + Len(t))
      /\ \A i \in 1..Len(s) : u[i] = s[i]
      /\ \A i \in 1..(Len(s) + Len(t)) : i > Len(s) => u[i] = t[i - Len(s)]
  OBVIOUS
<1> HIDE DEF u
<1>2. \A i \in DOMAIN u : \/ i \in DOMAIN s /\ u[i] = s[i]
                          \/ i - Len(s) \in DOMAIN t /\ u[i] = t[i - Len(s)]
  BY <1>1
<1>3. ToSet(u) \subseteq ToSet(s) \cup ToSet(t)
  BY <1>2 DEF ToSet
<1>4. ToSet(s) \subseteq ToSet(u)
  BY <1>1 DEF ToSet
<1>5. ToSet(t) \subseteq ToSet(u)
  <2> SUFFICES ASSUME NEW j \in DOMAIN t PROVE t[j] \in ToSet(u)
    BY DEF ToSet
  <2>1. j + Len(s) \in DOMAIN u /\ u[j + Len(s)] = t[j]
    BY <1>1
  <2> QED
    BY <2>1 DEF ToSet
<1>6. ASSUME Distinct(s), Distinct(t), ToSet(s) \cap ToSet(t) = {} PROVE Distinct(u)
  <2> SUFFICES ASSUME NEW i \in DOMAIN u, NEW j \in DOMAIN u, u[i] = u[j] PROVE i = j
    BY DEF Distinct
  <2>1. CASE i \in DOMAIN s /\ j \in DOMAIN s
    BY <1>1, <1>6, <2>1 DEF Distinct
  <2>2. CASE i \notin DOMAIN s /\ j \notin DOMAIN s
    <3>1. i - Len(s) \in DOMAIN t /\ j - Len(s) \in DOMAIN t /\ t[i - Len(s)] = t[j - Len(s)]
      BY <1>2, <2>2
    <3>2. i - Len(s) = j - Len(s)
      BY <1>6, <3>1 DEF Distinct
    <3> QED
      BY <1>1, <3>2
  <2>3. CASE \/ i \in DOMAIN s /\ j \notin DOMAIN s
             \/ j \in DOMAIN s /\ i \notin DOMAIN s
    BY <1>1, <1>2, <1>6, <2>3 DEF ToSet
  <2> QED
    BY <2>1, <2>2, <2>3
<1> QED
  BY <1>1, <1>3, <1>4, <1>5, <1>6 DEF u

LEMMA AppendOf ==
    ASSUME NEW S, NEW s \in Seq(S), NEW x \in S
    PROVE  Append(s, x) \in Seq(S) /\ ToSet(Append(s, x)) = ToSet(s) \cup {x}
<1>1. /\ Len(s) \in Nat /\ DOMAIN s = 1..Len(s) /\ DOMAIN Append(s, x) = 1..(Len(s) + 1)
      /\ \A i \in 1..Len(s) : Append(s, x)[i] = s[i]
      /\ Append(s, x)[Len(s) + 1] = x /\ Len(s) + 1 \in 1..(Len(s) + 1)
      /\ \A i \in 1..(Len(s) + 1) : i \in 1..Len(s) \/ i = Len(s) + 1
      /\ \A i \in 1..Len(s) : i \in 1..(Len(s) + 1)
  OBVIOUS
<1> QED
  BY <1>1 DEF ToSet

\* Induction: every non-empty set of naturals has a least element.
LEMMA LeastNatural ==
    ASSUME NEW S, S \subseteq Nat, S # {}
    PROVE  \E n \in S : \A m \in S : n <= m
<1> DEFINE R == OpToRel(<, Nat)
<1>1. R = {p \in Nat \X Nat : p[1] < p[2]}
  BY DEF OpToRel
<1>2. IsWellFoundedOn(R, Nat)
  BY NatLessThanWellFounded
<1> HIDE DEF R
<1>3. PICK n \in S : \A m \in S : <<m, n>> \notin R
  BY <1>2, WFMin
<1>4. \A a, b \in Nat : a < b => <<a, b>> \in R
  BY <1>1
<1>5. ASSUME NEW m \in S PROVE n <= m
  <2>1. m \in Nat /\ n \in Nat /\ <<m, n>> \notin R
    BY <1>3
  <2>2. ~(m < n)
    BY <1>4, <2>1
  <2> QED
    BY <2>1, <2>2
<1> QED
  BY <1>5

\* Counting the smaller ones numbers the elements of a set.
LEMMA RankIsABijection ==
    ASSUME NEW S, S \subseteq Nat, IsFiniteSet(S)
    PROVE  /\ \A i \in 1..Cardinality(S) : \E x \in S : Cardinality({y \in S : y < x}) = i - 1
           /\ \A x \in S : Cardinality({y \in S : y < x}) + 1 \in 1..Cardinality(S)
           /\ \A x, z \in S : Cardinality({y \in S : y < x}) = Cardinality({y \in S : y < z}) => x = z
<1> DEFINE n == Cardinality(S)
           below(x) == {y \in S : y < x}
           rank(x) == Cardinality(below(x))
<1>1. n \in Nat
  BY FS_CardinalityType
<1>2. ASSUME NEW x \in S PROVE rank(x) \in Nat /\ rank(x) + 1 \in 1..n /\ IsFiniteSet(below(x))
  <2>1. below(x) \subseteq S /\ x \notin below(x) /\ S \ {x} \subseteq S /\ below(x) \subseteq S \ {x}
    <3>1. \A y \in S : y < x => y # x
      OBVIOUS
    <3> QED
      BY <3>1
  <2>2. IsFiniteSet(S \ {x}) /\ Cardinality(S \ {x}) = n - 1
    BY FS_RemoveElement
  <2>3. IsFiniteSet(below(x)) /\ rank(x) <= n - 1
    <3> HIDE DEF below
    <3> QED
      BY <2>1, <2>2, FS_Subset
  <2>4. rank(x) \in Nat
    BY <2>3, FS_CardinalityType
  <2> QED
    BY <1>1, <2>3, <2>4
<1>3. ASSUME NEW x \in S, NEW z \in S, x < z PROVE rank(x) < rank(z)
  <2>1. below(x) \cup {x} \subseteq below(z) /\ x \notin below(x)
    <3>1. \A y \in S : y < x => y < z
      BY <1>3
    <3>2. ~(x < x)
      OBVIOUS
    <3> QED
      BY <1>3, <3>1, <3>2
  <2>2. IsFiniteSet(below(x)) /\ IsFiniteSet(below(z)) /\ rank(x) \in Nat /\ rank(z) \in Nat
    BY <1>2
  <2> HIDE DEF below
  <2>3. Cardinality(below(x) \cup {x}) = rank(x) + 1
    BY <2>1, <2>2, FS_AddElement
  <2>4. rank(x) + 1 <= rank(z)
    BY <2>1, <2>2, <2>3, FS_Subset
  <2> QED
    BY <2>2, <2>4
<1>4. \A x, z \in S : rank(x) = rank(z) => x = z
  <2> SUFFICES ASSUME NEW x \in S, NEW z \in S, rank(x) = rank(z), x # z PROVE FALSE
    OBVIOUS
  <2>1. x \in Nat /\ z \in Nat /\ rank(x) \in Nat /\ rank(z) \in Nat
    BY <1>2
  <2>2. CASE x < z
    <3>1. rank(x) < rank(z)
      BY <1>3, <2>2
    <3> HIDE DEF rank
    <3> QED
      BY <2>1, <3>1
  <2>3. CASE z < x
    <3>1. rank(z) < rank(x)
      BY <1>3, <2>3
    <3> HIDE DEF rank
    <3> QED
      BY <2>1, <3>1
  <2>4. x < z \/ z < x
    BY <2>1
  <2> QED
    BY <2>2, <2>3, <2>4
<1> HIDE DEF rank
<1> DEFINE f == [x \in S |-> rank(x) + 1]
<1>5. f \in Injection(S, 1..n)
  <2>1. f \in [S -> 1..n]
    BY <1>2
  <2>2. \A x, z \in S : f[x] = f[z] => x = z
    <3> SUFFICES ASSUME NEW x \in S, NEW z \in S, f[x] = f[z] PROVE x = z
      OBVIOUS
    <3>1. rank(x) + 1 = rank(z) + 1 /\ rank(x) \in Nat /\ rank(z) \in Nat
      BY <1>2
    <3>2. rank(x) = rank(z)
      BY <3>1
    <3> QED
      BY <1>4, <3>2
  <2> HIDE DEF f
  <2> QED
    BY <2>1, <2>2 DEF Injection, IsInjective
<1>6. IsFiniteSet(1..n) /\ Cardinality(1..n) = n
  BY <1>1, FS_Interval
<1>7. f \in Surjection(S, 1..n)
  BY <1>5, <1>6, FS_Injection
<1>8. \A i \in 1..n : \E x \in S : rank(x) = i - 1
  <2> SUFFICES ASSUME NEW i \in 1..n PROVE \E x \in S : rank(x) = i - 1
    OBVIOUS
  <2>1. PICK x \in S : f[x] = i
    <3> HIDE DEF f
    <3> QED
      BY <1>7 DEF Surjection
  <2>2. rank(x) \in Nat /\ rank(x) + 1 = i
    BY <1>2, <2>1
  <2> QED
    BY <2>2
<1> QED
  BY <1>2, <1>4, <1>8 DEF rank

LEMMA ToSeqOf ==
    ASSUME NEW S, S \subseteq Nat, IsFiniteSet(S)
    PROVE  /\ ToSeq(S) \in Seq(S) /\ DOMAIN ToSeq(S) = 1..Cardinality(S)
           /\ ToSet(ToSeq(S)) = S /\ Distinct(ToSeq(S))
<1> DEFINE n == Cardinality(S)
           rank(x) == Cardinality({y \in S : y < x})
           s == ToSeq(S)
<1>1. n \in Nat
  BY FS_CardinalityType
<1>2. /\ \A i \in 1..n : \E x \in S : rank(x) = i - 1
      /\ \A x \in S : rank(x) + 1 \in 1..n
      /\ \A x, z \in S : rank(x) = rank(z) => x = z
  BY RankIsABijection
<1>3. s = [i \in 1..n |-> CHOOSE x \in S : rank(x) = i - 1]
  BY DEF ToSeq
<1> HIDE DEF rank, s
<1>4. \A i \in 1..n : s[i] \in S /\ rank(s[i]) = i - 1
  BY <1>2, <1>3
<1>5. s \in Seq(S)
  BY <1>1, <1>3, <1>4
<1>6. ToSet(s) = S
  <2> SUFFICES ASSUME NEW x \in S PROVE \E i \in 1..n : s[i] = x
    BY <1>3, <1>4 DEF ToSet
  <2>1. rank(x) \in Nat
    <3>1. IsFiniteSet({y \in S : y < x})
      BY FS_Subset
    <3> QED
      BY <3>1, FS_CardinalityType DEF rank
  <2>2. PICK i \in 1..n : i = rank(x) + 1
    BY <1>2
  <2>3. s[i] \in S /\ rank(s[i]) = rank(x)
    BY <1>4, <2>1, <2>2
  <2> QED
    BY <1>2, <2>3
<1>7. Distinct(s)
  BY <1>3, <1>4 DEF Distinct
<1> QED
  BY <1>3, <1>5, <1>6, <1>7 DEF s

\* The blocks that a listener sends.
LEMMA BlocksOf ==
    ASSUME NEW first \in Nat, NEW last \in Nat, first <= last
    PROVE  LET new == [i \in 1..(last + 1 - first) |-> first + i - 1]
           IN new \in Seq(first..last) /\ ToSet(new) = first..last /\ Distinct(new)
<1> DEFINE new == [i \in 1..(last + 1 - first) |-> first + i - 1]
<1>1. last + 1 - first \in Nat /\ \A i \in 1..(last + 1 - first) : first + i - 1 \in first..last
  OBVIOUS
<1>2. new \in Seq(first..last)
  BY <1>1
<1>3. ASSUME NEW b \in first..last PROVE b \in ToSet(new)
  <2>1. b - first + 1 \in 1..(last + 1 - first) /\ first + (b - first + 1) - 1 = b
    OBVIOUS
  <2>2. new[b - first + 1] = b
    BY <2>1
  <2> HIDE DEF new
  <2>3. DOMAIN new = 1..(last + 1 - first)
    BY DEF new
  <2> QED
    BY <2>1, <2>2, <2>3 DEF ToSet
<1>4. ToSet(new) = first..last
  BY <1>1, <1>3 DEF ToSet
<1>5. Distinct(new)
  BY DEF Distinct
<1> QED
  BY <1>2, <1>4, <1>5

LEMMA SeqOfSubset ==
    ASSUME NEW S, NEW T, S \subseteq T, NEW s \in Seq(S)
    PROVE  s \in Seq(T)
OBVIOUS

LEMMA MessagesInOf ==
    ASSUME NEW b
    PROVE  /\ MessagesIn(b) \in Seq(Messages) /\ Distinct(MessagesIn(b))
           /\ ToSet(MessagesIn(b)) = {m \in Messages : BlockOf[m] = b}
<1> DEFINE S == {m \in Messages : BlockOf[m] = b}
<1>1. S \subseteq Messages /\ S \subseteq Nat /\ IsFiniteSet(S)
  BY ChainAssumption, FS_Subset
<1> HIDE DEF S
<1>2. ToSeq(S) \in Seq(S) /\ ToSet(ToSeq(S)) = S /\ Distinct(ToSeq(S))
  BY <1>1, ToSeqOf
<1>3. ToSeq(S) \in Seq(Messages)
  BY <1>1, <1>2, SeqOfSubset
<1> QED
  BY <1>2, <1>3 DEF MessagesIn, S

--------------------------------------------------------------------------------
(* The filter and the accumulator. *)

LEMMA MatchedOf ==
    ASSUME NEW msgs, msgs \subseteq Messages, NEW nonces \in Seq(Messages)
    PROVE  /\ Matched(msgs, nonces).send = ToSet(nonces) \cap msgs
           /\ Matched(msgs, nonces).msgs = msgs \ ToSet(nonces)
           /\ Matched(msgs, nonces).nonces \in Seq(Messages)
           /\ ToSet(Matched(msgs, nonces).nonces) \subseteq ToSet(nonces)
<1> DEFINE last(m) == CHOOSE i \in DOMAIN nonces :
                         nonces[i] = m /\ \A j \in DOMAIN nonces : nonces[j] = m => j <= i
           send == ToSet(nonces) \cap msgs
           S == DOMAIN nonces \ {last(m) : m \in send}
           left == ToSeq(S)
           kept == [i \in DOMAIN left |-> nonces[left[i]]]
<1>1. Matched(msgs, nonces) = [send |-> send, msgs |-> msgs \ send, nonces |-> kept]
  BY DEF Matched
<1>2. S \subseteq DOMAIN nonces /\ S \subseteq Nat /\ IsFiniteSet(S)
  <2>1. Len(nonces) \in Nat /\ DOMAIN nonces = 1..Len(nonces)
    OBVIOUS
  <2>2. IsFiniteSet(1..Len(nonces)) /\ 1..Len(nonces) \subseteq Nat
    BY <2>1, FS_Interval
  <2>3. S \subseteq 1..Len(nonces)
    BY <2>1
  <2> HIDE DEF S
  <2> QED
    BY <2>1, <2>2, <2>3, FS_Subset
<1> HIDE DEF S
<1>3. left \in Seq(S) /\ DOMAIN left = 1..Cardinality(S) /\ Cardinality(S) \in Nat
  BY <1>2, ToSeqOf, FS_CardinalityType
<1> HIDE DEF left
<1>4. \A i \in 1..Cardinality(S) : left[i] \in DOMAIN nonces
  BY <1>2, <1>3
<1>5. kept \in Seq(Messages) /\ ToSet(kept) \subseteq ToSet(nonces)
  <2>1. kept = [i \in 1..Cardinality(S) |-> nonces[left[i]]]
    BY <1>3
  <2> HIDE DEF kept
  <2>2. \A i \in 1..Cardinality(S) : kept[i] \in Messages /\ kept[i] \in ToSet(nonces)
    BY <1>4, <2>1 DEF ToSet
  <2>3. kept \in Seq(Messages)
    BY <1>3, <2>1, <2>2
  <2> QED
    BY <2>1, <2>2, <2>3 DEF ToSet
<1> HIDE DEF kept, send
<1> QED
  BY <1>1, <1>5 DEF send

\* A set of blocks has a first one.
LEMMA FirstBlock ==
    ASSUME NEW S, S \subseteq GearBlocks, S # {}
    PROVE  \E r \in S : \A q \in S : ~Before(q, r)
<1> DEFINE signers == {Signer[r] : r \in S}
<1>1. GearBlocks \subseteq Nat /\ signers \subseteq Nat /\ signers # {}
  <2>1. GearBlocks \subseteq Nat
    BY DEF GearBlocks
  <2>2. Signer \in [GearBlocks -> Nat]
    BY ChainAssumption
  <2>3. PICK r \in S : TRUE
    OBVIOUS
  <2> QED
    BY <2>1, <2>2, <2>3
<1>2. PICK a \in signers : \A c \in signers : a <= c
  BY <1>1, LeastNatural
<1> DEFINE T == {r \in S : Signer[r] = a}
<1>3. T \subseteq Nat /\ T # {}
  BY <1>1
<1>4. PICK r \in T : \A q \in T : r <= q
  BY <1>3, LeastNatural
<1>5. ASSUME NEW q \in S PROVE ~Before(q, r)
  <2>1. Signer[q] \in Nat /\ Signer[r] \in Nat /\ Signer[r] = a /\ a <= Signer[q] /\ q \in Nat /\ r \in Nat
    BY <1>1, <1>2, ChainAssumption
  <2>2. Signer[q] = a => r <= q
    BY <1>4
  <2> QED
    BY <2>1, <2>2 DEF Before
<1> QED
  BY <1>4, <1>5

LEMMA FindOf ==
    ASSUME acc_roots \subseteq GearBlocks, NEW m \in Messages
    PROVE  /\ Find(m) # None => Find(m) \in acc_roots /\ Covers(Find(m), m)
           /\ Find(m) = None => \A r \in acc_roots : ~Covers(r, m)
<1> DEFINE later == {r \in acc_roots : ~Before(r, BlockOf[m])}
           next == CHOOSE r \in later : \A q \in later : ~Before(q, r)
<1>1. Find(m) = IF later # {} /\ Signer[next] = Signer[BlockOf[m]] THEN next ELSE None
  BY DEF Find
<1>2. BlockOf[m] \in Nat /\ Signer[BlockOf[m]] \in Nat /\ GearBlocks \subseteq Nat
  BY ChainAssumption DEF GearBlocks
<1>3. later # {} => next \in later /\ \A q \in later : ~Before(q, next)
  BY FirstBlock
<1> HIDE DEF next
<1>4. ASSUME Find(m) # None PROVE Find(m) \in acc_roots /\ Covers(Find(m), m)
  <2>1. Find(m) = next /\ Signer[next] = Signer[BlockOf[m]] /\ next \in acc_roots
        /\ ~Before(next, BlockOf[m])
    BY <1>1, <1>3, <1>4
  <2>2. next \in Nat
    BY <1>2, <2>1
  <2> QED
    BY <1>2, <2>1, <2>2 DEF Before, Covers
<1>5. ASSUME Find(m) = None, NEW r \in acc_roots, Covers(r, m) PROVE FALSE
  <2>1. r \in later
    BY <1>2, <1>5, ChainAssumption DEF Before, Covers
  <2>2. next \in acc_roots /\ ~Before(next, BlockOf[m]) /\ ~Before(r, next)
    BY <1>3, <2>1
  <2>3. next \in GearBlocks /\ next # None /\ Signer[next] \in Nat /\ Signer[r] \in Nat
    BY <2>2, ChainAssumption
  <2>4. Signer[next] = Signer[BlockOf[m]]
    BY <1>2, <1>5, <2>2, <2>3 DEF Before, Covers
  <2> QED
    BY <1>1, <1>5, <2>1, <2>3, <2>4
<1> QED
  BY <1>4, <1>5

\* What leaves the accumulator for a root.
LEMMA ReadyOf ==
    ASSUME NEW ready, ready \subseteq Messages, NEW r \in GearBlocks
    PROVE  LET sent == [i \in 1..Cardinality(ready) |-> <<ToSeq(ready)[i], r>>]
           IN sent \in Seq(Messages \X GearBlocks) /\ ToSet(sent) = {<<m, r>> : m \in ready}
<1> DEFINE n == Cardinality(ready)
           q == ToSeq(ready)
           sent == [i \in 1..n |-> <<q[i], r>>]
<1>1. ready \subseteq Nat /\ IsFiniteSet(ready)
  BY ChainAssumption, FS_Subset
<1>2. q \in Seq(ready) /\ DOMAIN q = 1..n /\ ToSet(q) = ready /\ n \in Nat
  BY <1>1, ToSeqOf, FS_CardinalityType
<1> HIDE DEF q, n
<1>3. \A i \in 1..n : q[i] \in ready
  BY <1>2
<1>4. sent \in Seq(Messages \X GearBlocks)
  BY <1>2, <1>3
<1>5. \A m \in ready : \E i \in 1..n : q[i] = m
  BY <1>2 DEF ToSet
<1>6. ToSet(sent) = {<<m, r>> : m \in ready}
  BY <1>3, <1>5 DEF ToSet
<1> QED
  BY <1>4, <1>6 DEF q, n

--------------------------------------------------------------------------------
(* Types. *)

LEMMA AfterErrorTypes ==
    ASSUME TypeInv, NEW t, AfterError(t), mode' = mode
    PROVE  /\ running' \subseteq Tasks(mode)'
           /\ attempts' \in [Counting -> 0..MAX_RETRIES]
           /\ \A u \in running' \cap Counting : attempts'[u] < MAX_RETRIES
<1>1. running \subseteq Tasks(mode) /\ attempts \in [Counting -> 0..MAX_RETRIES]
      /\ MAX_RETRIES \in Nat \ {0}
  BY ChainAssumption DEF TypeInv, TypeOK
<1>2. running' \subseteq running /\ t \in running
  BY DEF AfterError
<1>3. CASE t \notin Counting
  BY <1>1, <1>2, <1>3 DEF AfterError, Tasks, TypeInv
<1>4. CASE t \in Counting
  <2>1. attempts' = [attempts EXCEPT ![t] = attempts[t] + 1] /\ attempts[t] < MAX_RETRIES
        /\ attempts[t] \in 0..MAX_RETRIES
    BY <1>1, <1>2, <1>4 DEF AfterError, TypeInv
  <2>2. t \notin running' \/ attempts[t] + 1 < MAX_RETRIES
    BY <1>4 DEF AfterError
  <2>3. running' \subseteq Tasks(mode)'
    BY <1>1, <1>2 DEF Tasks
  <2>4. attempts' \in [Counting -> 0..MAX_RETRIES]
    <3>1. attempts[t] + 1 \in 0..MAX_RETRIES
      BY <1>1, <2>1
    <3> QED
      BY <1>1, <2>1, <3>1
  <2>5. \A u \in running' \cap Counting : attempts'[u] < MAX_RETRIES
    BY <1>1, <1>2, <2>1, <2>2 DEF TypeInv
  <2> QED
    BY <2>3, <2>4, <2>5
<1> QED
  BY <1>3, <1>4

LEMMA StopTypes ==
    ASSUME TypeInv, NEW t, Stop(t), mode' = mode
    PROVE  /\ running' \subseteq Tasks(mode)'
           /\ attempts' \in [Counting -> 0..MAX_RETRIES]
           /\ \A u \in running' \cap Counting : attempts'[u] < MAX_RETRIES
BY DEF TypeInv, TypeOK, Stop, Tasks

\* A task that has not failed.
LEMMA GoesOnTypes ==
    ASSUME TypeInv, UNCHANGED <<running, attempts, mode>>
    PROVE  /\ running' \subseteq Tasks(mode)'
           /\ attempts' \in [Counting -> 0..MAX_RETRIES]
           /\ \A u \in running' \cap Counting : attempts'[u] < MAX_RETRIES
BY DEF TypeInv, TypeOK, Tasks

LEMMA ListenerTypes ==
    ASSUME TypeInv,
           \/ GearListener \/ EthListener \/ GearListenerFails \/ EthListenerFails
           \/ FinalizeGear \/ FinalizeEth
    PROVE  TypeInv'
<1> USE DEF chains, listeners, channels1, filter, acc, sender, tasks, losses
<1>1. /\ gear_head \in 1..LastGear /\ eth_head \in 1..LastEth /\ LastGear \in Nat /\ LastEth \in Nat
      /\ gear_next \in 1..LastGear + 1 /\ eth_next \in 1..LastEth + 1
      /\ blocks \in Seq(GearBlocks) /\ paid_blocks \in Seq(GearBlocks) /\ eth_blocks \in Seq(EthBlocks)
  BY ChainAssumption DEF TypeInv, TypeOK, GearBlocks, EthBlocks
<1>2. CASE GearListener
  <2> DEFINE new == [i \in 1..(gear_head + 1 - gear_next) |-> gear_next + i - 1]
  <2>1. new \in Seq(GearBlocks)
    <3>1. gear_next <= gear_head /\ gear_next..gear_head \subseteq GearBlocks
      BY <1>1, <1>2 DEF GearListener, GearBlocks
    <3>2. new \in Seq(gear_next..gear_head)
      BY <1>1, <3>1, BlocksOf
    <3> HIDE DEF new
    <3> QED
      BY <3>1, <3>2, SeqOfSubset
  <2> HIDE DEF new
  <2>2. blocks' \in Seq(GearBlocks) /\ paid_blocks' \in Seq(GearBlocks)
    BY <1>1, <1>2, <2>1, ConcatOf DEF GearListener, new
  <2>3. gear_next' \in 1..LastGear + 1
    BY <1>1, <1>2 DEF GearListener
  <2> QED
    BY <1>2, <2>2, <2>3, GoesOnTypes DEF GearListener, TypeInv, TypeOK
<1>3. CASE EthListener
  <2> DEFINE new == [i \in 1..(eth_head + 1 - eth_next) |-> eth_next + i - 1]
  <2>1. new \in Seq(EthBlocks)
    <3>1. eth_next <= eth_head /\ eth_next..eth_head \subseteq EthBlocks
      BY <1>1, <1>3 DEF EthListener, EthBlocks
    <3>2. new \in Seq(eth_next..eth_head)
      BY <1>1, <3>1, BlocksOf
    <3> HIDE DEF new
    <3> QED
      BY <3>1, <3>2, SeqOfSubset
  <2> HIDE DEF new
  <2>2. eth_blocks' \in Seq(EthBlocks)
    BY <1>1, <1>3, <2>1, ConcatOf DEF EthListener, new
  <2>3. eth_next' \in 1..LastEth + 1
    BY <1>1, <1>3 DEF EthListener
  <2> QED
    BY <1>3, <2>2, <2>3, GoesOnTypes DEF EthListener, TypeInv, TypeOK
<1>4. CASE GearListenerFails
  <2>1. blocks' \in Seq(GearBlocks)
    <3>1. CASE blocks' = blocks
      BY <1>1, <3>1
    <3>2. CASE gear_next <= gear_head /\ blocks' = Append(blocks, gear_next)
      BY <1>1, <3>2, AppendOf DEF GearBlocks
    <3> QED
      BY <1>4, <3>1, <3>2 DEF GearListenerFails
  <2> QED
    BY <1>4, <2>1, AfterErrorTypes DEF GearListenerFails, TypeInv, TypeOK
<1>5. CASE EthListenerFails
  <2>1. eth_next' \in 1..LastEth + 1
    BY <1>1, <1>5 DEF EthListenerFails, RestartBlock
  <2> QED
    BY <1>5, <2>1, AfterErrorTypes DEF EthListenerFails, TypeInv, TypeOK
<1>6. CASE FinalizeGear
  <2>1. gear_head' \in GearBlocks
    BY <1>1, <1>6 DEF FinalizeGear, GearBlocks
  <2> QED
    BY <1>6, <2>1, GoesOnTypes DEF FinalizeGear, TypeInv, TypeOK
<1>7. CASE FinalizeEth
  <2>1. eth_head' \in EthBlocks
    BY <1>1, <1>7 DEF FinalizeEth, EthBlocks
  <2> QED
    BY <1>7, <2>1, GoesOnTypes DEF FinalizeEth, TypeInv, TypeOK
<1> QED
  BY <1>2, <1>3, <1>4, <1>5, <1>6, <1>7

LEMMA ExtractorTypes ==
    ASSUME TypeInv,
           \/ ExtractQueued \/ ExtractPaid \/ ExtractRoots
           \/ ExtractQueuedFails \/ ExtractPaidFails \/ ExtractRootsFails
    PROVE  TypeInv'
<1> USE DEF chains, listeners, channels1, filter, acc, sender, tasks, losses
<1>1. /\ blocks \in Seq(GearBlocks) /\ paid_blocks \in Seq(GearBlocks) /\ eth_blocks \in Seq(EthBlocks)
      /\ messages \in Seq(Messages) /\ filtered \in Seq(Messages) /\ paid \in Seq(Messages)
      /\ roots \in Seq(GearBlocks)
      /\ lost \subseteq Messages /\ lost_roots \subseteq GearBlocks
  BY DEF TypeInv, TypeOK
<1>2. CASE ExtractQueued
  <2>1. /\ blocks' \in Seq(GearBlocks)
        /\ messages' \in Seq(Messages) /\ filtered' \in Seq(Messages)
    BY <1>1, <1>2, TailOf, ConcatOf, MessagesInOf DEF ExtractQueued
  <2> QED
    BY <1>2, <2>1, GoesOnTypes DEF ExtractQueued, TypeInv, TypeOK
<1>3. CASE ExtractPaid
  <2>1. Head(paid_blocks) \in GearBlocks /\ paid_blocks' \in Seq(GearBlocks)
    BY <1>1, <1>3, TailOf DEF ExtractPaid
  <2>2. PaidIn[Head(paid_blocks)] \in Seq(Messages)
    BY <2>1, ChainAssumption
  <2>3. paid' \in Seq(Messages)
    BY <1>1, <1>3, <2>2, ConcatOf DEF ExtractPaid
  <2> QED
    BY <1>3, <2>1, <2>3, GoesOnTypes DEF ExtractPaid, TypeInv, TypeOK
<1>4. CASE ExtractRoots
  <2>1. Head(eth_blocks) \in EthBlocks /\ eth_blocks' \in Seq(EthBlocks)
    BY <1>1, <1>4, TailOf DEF ExtractRoots
  <2>2. RootsIn[Head(eth_blocks)] \in Seq(GearBlocks)
    BY <2>1, ChainAssumption
  <2>3. roots' \in Seq(GearBlocks)
    BY <1>1, <1>4, <2>2, ConcatOf DEF ExtractRoots
  <2> QED
    BY <1>4, <2>1, <2>3, GoesOnTypes DEF ExtractRoots, TypeInv, TypeOK
<1>5. CASE ExtractQueuedFails
  <2>1. blocks' \in Seq(GearBlocks) /\ lost' \subseteq Messages
    BY <1>1, <1>5, TailOf, MessagesInOf DEF ExtractQueuedFails
  <2> QED
    BY <1>5, <2>1, AfterErrorTypes DEF ExtractQueuedFails, TypeInv, TypeOK
<1>6. CASE ExtractPaidFails
  <2>1. Head(paid_blocks) \in GearBlocks /\ paid_blocks' \in Seq(GearBlocks)
    BY <1>1, <1>6, TailOf DEF ExtractPaidFails
  <2>2. PaidIn[Head(paid_blocks)] \in Seq(Messages)
    BY <2>1, ChainAssumption
  <2>3. lost' \subseteq Messages
    BY <1>1, <1>6, <2>2 DEF ExtractPaidFails, ToSet
  <2> QED
    BY <1>6, <2>1, <2>3, AfterErrorTypes DEF ExtractPaidFails, TypeInv, TypeOK
<1>7. CASE ExtractRootsFails
  <2> DEFINE found == RootsIn[Head(eth_blocks)]
  <2>1. Head(eth_blocks) \in EthBlocks /\ eth_blocks' \in Seq(EthBlocks)
    BY <1>1, <1>7, TailOf DEF ExtractRootsFails
  <2>2. found \in Seq(GearBlocks)
    BY <2>1, ChainAssumption
  <2>3. PICK n \in 0..Len(found) :
           /\ roots' = roots \o SubSeq(found, 1, n)
           /\ lost_roots' = lost_roots \cup ToSet(SubSeq(found, n + 1, Len(found)))
    BY <1>7 DEF ExtractRootsFails
  <2> HIDE DEF found
  <2>4. SubSeq(found, 1, n) \in Seq(GearBlocks) /\ SubSeq(found, n + 1, Len(found)) \in Seq(GearBlocks)
    BY <2>2
  <2>5. ToSet(SubSeq(found, n + 1, Len(found))) \subseteq GearBlocks
    <3> DEFINE rest == SubSeq(found, n + 1, Len(found))
    <3>1. rest \in Seq(GearBlocks)
      BY <2>4
    <3> HIDE DEF rest
    <3>2. ToSet(rest) \subseteq GearBlocks
      BY <3>1 DEF ToSet
    <3> QED
      BY <3>2 DEF rest
  <2>6. roots' \in Seq(GearBlocks) /\ lost_roots' \subseteq GearBlocks
    BY <1>1, <2>3, <2>4, <2>5, ConcatOf
  <2> QED
    BY <1>7, <2>1, <2>6, AfterErrorTypes DEF ExtractRootsFails, TypeInv, TypeOK
<1> QED
  BY <1>2, <1>3, <1>4, <1>5, <1>6, <1>7

\* What the filter does with a message or a payment.
Filters(msgs, nonces) ==
    LET send == ToSet(nonces) \cap msgs IN
    /\ pending_messages' = msgs \ ToSet(nonces)
    /\ pending_nonces' \in Seq(Messages) /\ ToSet(pending_nonces') \subseteq ToSet(nonces)
    /\ \/ filtered' = filtered /\ lost' = lost \cup send
       \/ /\ filtered' \in Seq(Messages) /\ ToSet(filtered') = ToSet(filtered) \cup send
          /\ Distinct(filtered) /\ ToSet(filtered) \cap send = {} => Distinct(filtered')
          /\ lost' = lost

LEMMA FilterSendsTypes ==
    ASSUME TypeInv, NEW msgs, msgs \subseteq Messages, NEW nonces \in Seq(Messages),
           FilterSends(msgs, nonces)
    PROVE  Filters(msgs, nonces)
<1> DEFINE result == Matched(msgs, nonces)
           send == ToSet(nonces) \cap msgs
<1>1. /\ result.send = send /\ result.msgs = msgs \ ToSet(nonces)
      /\ result.nonces \in Seq(Messages) /\ ToSet(result.nonces) \subseteq ToSet(nonces)
  BY MatchedOf
<1>2. send \subseteq Messages /\ send \subseteq Nat /\ IsFiniteSet(send)
  BY ChainAssumption, FS_Subset
<1>3. pending_messages' = msgs \ ToSet(nonces)
  BY <1>1 DEF FilterSends
<1>4. CASE "accumulator" \in running
  <2>1. filtered' = filtered \o ToSeq(send) /\ pending_nonces' = result.nonces /\ lost' = lost
    BY <1>1, <1>4 DEF FilterSends
  <2>2. ToSeq(send) \in Seq(send) /\ ToSet(ToSeq(send)) = send /\ Distinct(ToSeq(send))
    <3> HIDE DEF send
    <3> QED
      BY <1>2, ToSeqOf
  <2>3. ToSeq(send) \in Seq(Messages) /\ filtered \in Seq(Messages)
    <3> HIDE DEF send
    <3> QED
      BY <1>2, <2>2, SeqOfSubset DEF TypeInv, TypeOK
  <2>4. /\ filtered' \in Seq(Messages)
        /\ ToSet(filtered') = ToSet(filtered) \cup send
        /\ Distinct(filtered) /\ ToSet(filtered) \cap send = {} => Distinct(filtered')
    <3> HIDE DEF send
    <3> QED
      BY <2>1, <2>2, <2>3, ConcatOf
  <2> QED
    BY <1>1, <1>3, <2>1, <2>4 DEF Filters
<1>5. CASE "accumulator" \notin running
  BY <1>1, <1>3, <1>5 DEF FilterSends, Filters
<1> QED
  BY <1>4, <1>5

\* What the accumulator sends.
LEMMA AccumulatorSendsTypes ==
    ASSUME TypeInv, NEW sent \in Seq(Messages \X GearBlocks), NEW dropped, dropped \subseteq Messages,
           AccumulatorSends(sent, dropped)
    PROVE  /\ out' \in Seq(Messages \X GearBlocks) /\ lost' \subseteq Messages
           /\ ToSet(out') \subseteq ToSet(out) \cup ToSet(sent)
<1>1. out \in Seq(Messages \X GearBlocks) /\ lost \subseteq Messages
  BY DEF TypeInv, TypeOK
<1>2. CASE "sender" \in running
  <2> DEFINE R == Messages \X GearBlocks
  <2>1. out \in Seq(R) /\ sent \in Seq(R)
    BY <1>1
  <2> HIDE DEF R
  <2>2. out \o sent \in Seq(R) /\ ToSet(out \o sent) = ToSet(out) \cup ToSet(sent)
    BY <2>1, ConcatOf
  <2> QED
    BY <1>1, <1>2, <2>2 DEF AccumulatorSends, R
<1>3. CASE "sender" \notin running
  <2>1. \A i \in DOMAIN sent : sent[i] \in Messages \X GearBlocks
    OBVIOUS
  <2> QED
    BY <1>1, <1>3, <2>1 DEF AccumulatorSends
<1> QED
  BY <1>2, <1>3

LEMMA FilterTypes ==
    ASSUME TypeInv, FilterMessage \/ FilterPaid \/ FilterEnds
    PROVE  TypeInv'
<1> USE DEF chains, listeners, channels1, filter, acc, sender, tasks, losses
<1>1. /\ messages \in Seq(Messages) /\ paid \in Seq(Messages) /\ filtered \in Seq(Messages)
      /\ pending_messages \subseteq Messages /\ pending_nonces \in Seq(Messages)
      /\ lost \subseteq Messages
  BY DEF TypeInv, TypeOK
<1>2. CASE FilterMessage
  <2> DEFINE msgs == pending_messages \cup {Head(messages)}
  <2>1. messages' \in Seq(Messages) /\ msgs \subseteq Messages /\ FilterSends(msgs, pending_nonces)
    BY <1>1, <1>2, TailOf DEF FilterMessage
  <2> HIDE DEF msgs
  <2>2. /\ pending_messages' \subseteq Messages /\ pending_nonces' \in Seq(Messages)
        /\ filtered' \in Seq(Messages) /\ lost' \subseteq Messages
    <3>1. Filters(msgs, pending_nonces)
      BY <1>1, <2>1, FilterSendsTypes
    <3> QED
      BY <1>1, <2>1, <3>1 DEF Filters
  <2> QED
    BY <1>2, <2>1, <2>2, GoesOnTypes DEF FilterMessage, TypeInv, TypeOK
<1>3. CASE FilterPaid
  <2> DEFINE nonces == Append(pending_nonces, Head(paid))
  <2>1. paid' \in Seq(Messages) /\ nonces \in Seq(Messages) /\ FilterSends(pending_messages, nonces)
    BY <1>1, <1>3, TailOf, AppendOf DEF FilterPaid
  <2> HIDE DEF nonces
  <2>2. /\ pending_messages' \subseteq Messages /\ pending_nonces' \in Seq(Messages)
        /\ filtered' \in Seq(Messages) /\ lost' \subseteq Messages
    <3>1. Filters(pending_messages, nonces)
      BY <1>1, <2>1, FilterSendsTypes
    <3> QED
      BY <1>1, <2>1, <3>1 DEF Filters
  <2> QED
    BY <1>3, <2>1, <2>2, GoesOnTypes DEF FilterPaid, TypeInv, TypeOK
<1>4. CASE FilterEnds
  BY <1>4, StopTypes DEF FilterEnds, TypeInv, TypeOK
<1> QED
  BY <1>2, <1>3, <1>4

\* The messages of an evicted root, and those that leave with the new one.
Evicted == IF Full THEN {Oldest} ELSE {}
Removed == UNION {Drain(q) : q \in Evicted}
Ready == Drain(Head(roots)) \ Removed

LEMMA AccumulateRootStep ==
    ASSUME TypeInv, AccumulateRoot
    PROVE  /\ Head(roots) \in GearBlocks /\ Head(roots) \in ToSet(roots)
           /\ roots' \in Seq(GearBlocks) /\ ToSet(roots') \subseteq ToSet(roots)
           /\ Evicted \subseteq acc_roots /\ Removed \subseteq Messages /\ Ready \subseteq acc_messages
           /\ acc_roots' = (acc_roots \ Evicted) \cup {Head(roots)}
           /\ acc_messages' = acc_messages \ (Removed \cup Ready)
           /\ lost_roots' = lost_roots \cup Evicted /\ lost' \subseteq Messages
           /\ out' \in Seq(Messages \X GearBlocks)
           /\ ToSet(out') \subseteq ToSet(out) \cup {<<m, Head(roots)>> : m \in Ready}
<1> DEFINE r == Head(roots)
           sent == [i \in 1..Cardinality(Ready) |-> <<ToSeq(Ready)[i], r>>]
<1>1. roots \in Seq(GearBlocks) /\ acc_roots \subseteq GearBlocks /\ acc_messages \subseteq Messages
  BY DEF TypeInv, TypeOK
<1>2. r \in GearBlocks /\ r \in ToSet(roots)
      /\ roots' \in Seq(GearBlocks) /\ ToSet(roots') \subseteq ToSet(roots)
  BY <1>1, TailOf DEF AccumulateRoot
<1>3. Evicted \subseteq acc_roots
  <2>1. CASE Full
    <3>1. acc_roots # {}
      <4>1. Cardinality({}) = 0 /\ ROOTS_CAPACITY \in Nat \ {0}
        BY FS_EmptySet, ChainAssumption
      <4> QED
        BY <2>1, <4>1 DEF Full
    <3>2. Oldest \in acc_roots
      BY <1>1, <3>1, FirstBlock DEF Oldest
    <3> QED
      BY <3>2 DEF Evicted
  <2>2. CASE ~Full
    BY <2>2 DEF Evicted
  <2> QED
    BY <2>1, <2>2
<1>4. Removed \subseteq acc_messages /\ Ready \subseteq acc_messages
  BY DEF Removed, Ready, Drain
<1>5. sent \in Seq(Messages \X GearBlocks) /\ ToSet(sent) = {<<m, r>> : m \in Ready}
  BY <1>1, <1>2, <1>4, ReadyOf
<1>6. AccumulatorSends(sent, Removed)
  BY DEF AccumulateRoot, Ready, Removed, Evicted
<1> HIDE DEF sent
<1>7. /\ out' \in Seq(Messages \X GearBlocks) /\ lost' \subseteq Messages
      /\ ToSet(out') \subseteq ToSet(out) \cup ToSet(sent)
  BY <1>1, <1>4, <1>5, <1>6, AccumulatorSendsTypes
<1>8. /\ acc_roots' = (acc_roots \ Evicted) \cup {r}
      /\ acc_messages' = acc_messages \ (Removed \cup Ready)
      /\ lost_roots' = lost_roots \cup Evicted
  BY DEF AccumulateRoot, Ready, Removed, Evicted
<1> QED
  BY <1>1, <1>2, <1>3, <1>4, <1>5, <1>7, <1>8

\* A message that finds its root leaves with it.
LEMMA AccumulateCoveredStep ==
    ASSUME TypeInv, AccumulateCovered
    PROVE  /\ Head(filtered) \in Messages /\ Head(filtered) \in ToSet(filtered)
           /\ filtered' \in Seq(Messages) /\ ToSet(filtered') \subseteq ToSet(filtered)
           /\ Find(Head(filtered)) \in acc_roots /\ Covers(Find(Head(filtered)), Head(filtered))
           /\ out' \in Seq(Messages \X GearBlocks) /\ lost' \subseteq Messages
           /\ ToSet(out') \subseteq ToSet(out) \cup {<<Head(filtered), Find(Head(filtered))>>}
<1> DEFINE m == Head(filtered)
           r == Find(Head(filtered))
           sent == << <<m, r>> >>
<1>1. filtered \in Seq(Messages) /\ acc_roots \subseteq GearBlocks
  BY DEF TypeInv, TypeOK
<1>2. m \in Messages /\ m \in ToSet(filtered)
      /\ filtered' \in Seq(Messages) /\ ToSet(filtered') \subseteq ToSet(filtered)
  BY <1>1, TailOf DEF AccumulateCovered
<1>3. r \in acc_roots /\ Covers(r, m)
  BY <1>1, <1>2, FindOf DEF AccumulateCovered
<1>4. AccumulatorSends(sent, {})
  BY DEF AccumulateCovered
<1> HIDE DEF m, r
<1>5. sent \in Seq(Messages \X GearBlocks) /\ ToSet(sent) = {<<m, r>>}
  BY <1>1, <1>2, <1>3 DEF ToSet
<1> HIDE DEF sent
<1>6. /\ out' \in Seq(Messages \X GearBlocks) /\ lost' \subseteq Messages
      /\ ToSet(out') \subseteq ToSet(out) \cup ToSet(sent)
  BY <1>4, <1>5, AccumulatorSendsTypes
<1> QED
  BY <1>2, <1>3, <1>5, <1>6 DEF m, r

LEMMA AccumulatorTypes ==
    ASSUME TypeInv,
           \/ AccumulateCovered \/ AccumulateMessage \/ KnownRoot \/ AccumulateRoot
           \/ AccumulatorPanics \/ AccumulatorEnds
    PROVE  TypeInv'
<1> USE DEF chains, listeners, channels1, filter, sender, tasks, losses
<1>1. /\ filtered \in Seq(Messages) /\ roots \in Seq(GearBlocks) /\ lost \subseteq Messages
      /\ acc_messages \subseteq Messages /\ acc_roots \subseteq GearBlocks /\ lost_roots \subseteq GearBlocks
  BY DEF TypeInv, TypeOK
<1>2. CASE AccumulateCovered
  BY <1>2, AccumulateCoveredStep, GoesOnTypes DEF AccumulateCovered, TypeInv, TypeOK
<1>3. CASE AccumulateMessage
  <2>1. filtered' \in Seq(Messages) /\ Head(filtered) \in Messages
    BY <1>1, <1>3, TailOf DEF AccumulateMessage
  <2>2. acc_messages' \subseteq Messages /\ lost' \subseteq Messages
    BY <1>1, <1>3, <2>1 DEF AccumulateMessage
  <2> QED
    BY <1>3, <2>1, <2>2, GoesOnTypes DEF AccumulateMessage, TypeInv, TypeOK
<1>4. CASE KnownRoot
  <2>1. roots' \in Seq(GearBlocks)
    BY <1>1, <1>4, TailOf DEF KnownRoot
  <2> QED
    BY <1>4, <2>1, GoesOnTypes DEF KnownRoot, TypeInv, TypeOK
<1>5. CASE AccumulateRoot
  <2>1. acc_roots' \subseteq GearBlocks /\ acc_messages' \subseteq Messages /\ lost_roots' \subseteq GearBlocks
    BY <1>1, <1>5, AccumulateRootStep
  <2> QED
    BY <1>5, <2>1, AccumulateRootStep, GoesOnTypes DEF AccumulateRoot, TypeInv, TypeOK
<1>6. CASE AccumulatorPanics
  <2>1. roots' \in Seq(GearBlocks)
    BY <1>1, <1>6, TailOf DEF AccumulatorPanics
  <2> QED
    BY <1>6, <2>1, StopTypes DEF AccumulatorPanics, TypeInv, TypeOK
<1>7. CASE AccumulatorEnds
  BY <1>7, StopTypes DEF AccumulatorEnds, acc, TypeInv, TypeOK
<1> QED
  BY <1>2, <1>3, <1>4, <1>5, <1>6, <1>7

LEMMA SenderTypes ==
    ASSUME TypeInv, Submit \/ SubmitFails \/ SenderEnds
    PROVE  TypeInv'
<1> USE DEF chains, listeners, channels1, filter, acc, sender, tasks, losses
<1> DEFINE R == Messages \X GearBlocks
<1>1. out \in Seq(R) /\ submitted \subseteq R /\ lost \subseteq Messages
  BY DEF TypeInv, TypeOK
<1>2. ASSUME out # <<>> PROVE Head(out) \in R /\ Tail(out) \in Seq(R)
  <2> HIDE DEF R
  <2> QED
    BY <1>1, <1>2, TailOf
<1>3. CASE Submit
  <2>1. submitted' \subseteq R /\ out' \in Seq(R)
    BY <1>1, <1>2, <1>3 DEF Submit
  <2> QED
    BY <1>3, <2>1, GoesOnTypes DEF Submit, TypeInv, TypeOK
<1>4. CASE SubmitFails
  <2>1. lost' \subseteq Messages /\ out' \in Seq(R)
    <3>1. out # <<>> => Head(out)[1] \in Messages
      BY <1>2
    <3> HIDE DEF R
    <3> QED
      BY <1>1, <1>2, <1>4, <3>1 DEF SubmitFails
  <2> QED
    BY <1>4, <2>1, AfterErrorTypes DEF SubmitFails, TypeInv, TypeOK
<1>5. CASE SenderEnds
  BY <1>5, StopTypes DEF SenderEnds, TypeInv, TypeOK
<1> QED
  BY <1>3, <1>4, <1>5

\* Every step keeps the types.
LEMMA TypeStep ==
    ASSUME TypeInv, [Next]_vars
    PROVE  TypeInv'
<1>1. CASE UNCHANGED vars
  BY <1>1 DEF vars, chains, listeners, channels1, filter, acc, sender, tasks, losses, TypeInv, TypeOK, Tasks
<1> QED
  BY <1>1, ListenerTypes, ExtractorTypes, FilterTypes, AccumulatorTypes, SenderTypes DEF Next, Work

--------------------------------------------------------------------------------
(* Roots. *)

\* The steps that no root, and nothing that leaves, has a part in.
RootsAside ==
    \/ GearListener \/ GearListenerFails \/ FinalizeGear
    \/ ExtractQueued \/ ExtractPaid \/ ExtractQueuedFails \/ ExtractPaidFails
    \/ FilterMessage \/ FilterPaid \/ FilterEnds
    \/ AccumulateMessage \/ AccumulatorEnds \/ SenderEnds

\* The sender adds nothing to what leaves.
LEMMA LeavingShrinks ==
    ASSUME TypeInv, Submit \/ SubmitFails
    PROVE  Leaving' \subseteq Leaving
<1> DEFINE R == Messages \X GearBlocks
<1>1. out \in Seq(R)
  BY DEF TypeInv, TypeOK
<1> HIDE DEF R
<1>2. out # <<>> => Head(out) \in ToSet(out) /\ ToSet(Tail(out)) \subseteq ToSet(out)
  BY <1>1, TailOf
<1> QED
  BY <1>2 DEF Submit, SubmitFails, Leaving, sender, losses

LEMMA RootStep ==
    ASSUME TypeInv, RootInv, [Next]_vars
    PROVE  RootInv'
<1> USE DEF chains, listeners, channels1, filter, acc, sender, tasks, losses
<1>1. /\ eth_head \in Nat /\ eth_next \in Nat /\ eth_head \in EthBlocks
      /\ eth_blocks \in Seq(EthBlocks) /\ roots \in Seq(GearBlocks)
      /\ out \in Seq(Messages \X GearBlocks)
  BY DEF TypeInv, TypeOK, EthBlocks
<1>2. CASE RootsAside \/ UNCHANGED vars
  <2>1. UNCHANGED <<eth_head, eth_next, eth_blocks, roots, acc_roots, out, submitted>>
    BY <1>2 DEF RootsAside, vars, GearListener, GearListenerFails, FinalizeGear, ExtractQueued,
                ExtractPaid, ExtractQueuedFails, ExtractPaidFails, FilterMessage, FilterPaid,
                FilterEnds, AccumulateMessage, AccumulatorEnds, SenderEnds
  <2> QED
    BY <2>1 DEF RootInv, RelayedUnderCoveringRoot, OnEthereum, Leaving
<1>3. CASE EthListener \/ EthListenerFails
  <2>1. eth_next' <= eth_head + 1 /\ \A e \in ToSet(eth_blocks') : e <= eth_head
    <3>1. CASE EthListener
      <4> DEFINE new == [i \in 1..(eth_head + 1 - eth_next) |-> eth_next + i - 1]
      <4>1. eth_next <= eth_head /\ eth_next..eth_head \subseteq EthBlocks
        <5>1. eth_next <= eth_head
          BY <3>1 DEF EthListener
        <5>2. eth_next \in 1..LastEth + 1 /\ eth_head \in 1..LastEth
          BY DEF TypeInv, TypeOK, EthBlocks
        <5> QED
          BY <5>1, <5>2, ChainAssumption DEF EthBlocks
      <4>2. new \in Seq(eth_next..eth_head) /\ ToSet(new) = eth_next..eth_head
        BY <1>1, <4>1, BlocksOf
      <4>3. eth_blocks' = eth_blocks \o new /\ eth_next' = eth_head + 1
        BY <3>1 DEF EthListener
      <4> HIDE DEF new
      <4>4. ToSet(eth_blocks') = ToSet(eth_blocks) \cup (eth_next..eth_head)
        BY <1>1, <4>1, <4>2, <4>3, ConcatOf, SeqOfSubset, SMTT(30)
      <4> QED
        BY <1>1, <4>3, <4>4 DEF RootInv
    <3>2. CASE EthListenerFails
      BY <1>1, <3>2 DEF EthListenerFails, RestartBlock, RootInv, EthBlocks
    <3> QED
      BY <1>3, <3>1, <3>2
  <2>2. UNCHANGED <<eth_head, roots, acc_roots, out, submitted>>
    BY <1>3 DEF EthListener, EthListenerFails
  <2> QED
    BY <2>1, <2>2 DEF RootInv, RelayedUnderCoveringRoot, OnEthereum, Leaving
<1>4. CASE FinalizeEth
  <2>1. eth_head' = eth_head + 1 /\ 1..eth_head \subseteq 1..eth_head'
    BY <1>1, <1>4 DEF FinalizeEth
  <2>2. UNCHANGED <<eth_next, eth_blocks, roots, acc_roots, out, submitted>>
    BY <1>4 DEF FinalizeEth
  <2>3. eth_next' <= eth_head' + 1 /\ \A e \in ToSet(eth_blocks') : e <= eth_head'
    <3>1. \A e \in ToSet(eth_blocks) : e \in Nat
      <4>1. EthBlocks \subseteq Nat
        BY DEF EthBlocks
      <4> QED
        BY <1>1, <4>1, ToSetOf
    <3> QED
      BY <1>1, <2>1, <2>2, <3>1 DEF RootInv
  <2>4. \A r : OnEthereum(r) => OnEthereum(r)'
    BY <2>1 DEF OnEthereum
  <2>5. RelayedUnderCoveringRoot'
    BY <2>1, <2>2 DEF RootInv, RelayedUnderCoveringRoot, Leaving
  <2> QED
    BY <2>2, <2>3, <2>4, <2>5 DEF RootInv
<1>5. CASE ExtractRoots \/ ExtractRootsFails
  <2> DEFINE found == RootsIn[Head(eth_blocks)]
  <2>1. /\ Head(eth_blocks) \in EthBlocks /\ Head(eth_blocks) \in ToSet(eth_blocks)
        /\ ToSet(eth_blocks') \subseteq ToSet(eth_blocks)
    BY <1>1, <1>5, TailOf DEF ExtractRoots, ExtractRootsFails
  <2>2. found \in Seq(GearBlocks) /\ Head(eth_blocks) \in 1..eth_head
    BY <1>1, <2>1, ChainAssumption DEF RootInv, EthBlocks
  <2>3. PICK n \in 0..Len(found) : roots' = roots \o SubSeq(found, 1, n)
    <3>1. CASE ExtractRoots
      <4>1. roots' = roots \o found
        BY <3>1 DEF ExtractRoots
      <4>2. SubSeq(found, 1, Len(found)) = found /\ Len(found) \in 0..Len(found)
        <5> HIDE DEF found
        <5> QED
          BY <2>2
      <4> QED
        BY <4>1, <4>2
    <3>2. CASE ExtractRootsFails
      BY <3>2 DEF ExtractRootsFails
    <3> QED
      BY <1>5, <3>1, <3>2
  <2> DEFINE sent == SubSeq(found, 1, n)
  <2>4. sent \in Seq(GearBlocks) /\ ToSet(sent) \subseteq ToSet(found)
    <3> HIDE DEF found
    <3>1. sent \in Seq(GearBlocks) /\ DOMAIN sent = 1..n /\ \A i \in 1..n : sent[i] = found[i] /\ i \in DOMAIN found
      BY <2>2
    <3> QED
      BY <3>1 DEF ToSet
  <2>5. \A r \in ToSet(found) : OnEthereum(r)
    BY <2>2 DEF OnEthereum
  <2> HIDE DEF found, sent
  <2>6. ToSet(roots') = ToSet(roots) \cup ToSet(sent)
    BY <1>1, <2>3, <2>4, ConcatOf, ZenonT(30) DEF sent
  <2>7. UNCHANGED <<eth_head, eth_next, acc_roots, out, submitted>>
    BY <1>5 DEF ExtractRoots, ExtractRootsFails
  <2>8. \A r \in ToSet(roots') \cup acc_roots' : OnEthereum(r)
    BY <2>4, <2>5, <2>6, <2>7 DEF RootInv
  <2> QED
    BY <2>1, <2>7, <2>8 DEF RootInv, RelayedUnderCoveringRoot, OnEthereum, Leaving
<1>6. CASE KnownRoot \/ AccumulatorPanics
  <2>1. ToSet(roots') \subseteq ToSet(roots) /\ UNCHANGED <<eth_head, eth_next, eth_blocks, acc_roots, out, submitted>>
    BY <1>1, <1>6, TailOf DEF KnownRoot, AccumulatorPanics
  <2> QED
    BY <2>1 DEF RootInv, RelayedUnderCoveringRoot, OnEthereum, Leaving
<1>7. CASE AccumulateRoot
  <2> DEFINE r == Head(roots)
  <2>1. /\ r \in ToSet(roots) /\ ToSet(roots') \subseteq ToSet(roots)
        /\ acc_roots' \subseteq acc_roots \cup {r} /\ Ready \subseteq acc_messages
        /\ ToSet(out') \subseteq ToSet(out) \cup {<<m, r>> : m \in Ready}
    BY <1>7, AccumulateRootStep
  <2>2. \A m \in Ready : Covers(r, m)
    BY DEF Ready, Drain, Covers
  <2>3. OnEthereum(r)
    BY <2>1 DEF RootInv
  <2>4. UNCHANGED <<eth_head, eth_next, eth_blocks, submitted>>
    BY <1>7 DEF AccumulateRoot
  <2> HIDE DEF r
  <2>5. ASSUME NEW p \in Leaving' PROVE Covers(p[2], p[1]) /\ OnEthereum(p[2])
    <3>1. CASE p \in Leaving
      BY <3>1 DEF RootInv, RelayedUnderCoveringRoot, OnEthereum
    <3>2. CASE p \in {<<m, r>> : m \in Ready}
      BY <2>2, <2>3, <3>2
    <3> QED
      BY <2>1, <2>4, <3>1, <3>2 DEF Leaving
  <2> QED
    BY <2>1, <2>3, <2>4, <2>5 DEF RootInv, RelayedUnderCoveringRoot, OnEthereum
<1>8. CASE AccumulateCovered
  <2> DEFINE m == Head(filtered)
             r == Find(m)
  <2>1. r \in acc_roots /\ Covers(r, m) /\ ToSet(out') \subseteq ToSet(out) \cup {<<m, r>>}
    BY <1>8, AccumulateCoveredStep
  <2>2. UNCHANGED <<eth_head, eth_next, eth_blocks, roots, acc_roots, submitted>>
    BY <1>8 DEF AccumulateCovered
  <2> HIDE DEF m, r
  <2>3. ASSUME NEW p \in Leaving' PROVE Covers(p[2], p[1]) /\ OnEthereum(p[2])
    <3>1. CASE p \in Leaving
      BY <3>1 DEF RootInv, RelayedUnderCoveringRoot, OnEthereum
    <3>2. CASE p = <<m, r>>
      BY <2>1, <3>2 DEF RootInv
    <3> QED
      BY <2>1, <2>2, <3>1, <3>2 DEF Leaving
  <2> QED
    BY <2>2, <2>3 DEF RootInv, RelayedUnderCoveringRoot, OnEthereum
<1>9. CASE Submit \/ SubmitFails
  <2>1. Leaving' \subseteq Leaving
    BY <1>9, LeavingShrinks
  <2>2. UNCHANGED <<eth_head, eth_next, eth_blocks, roots, acc_roots>>
    BY <1>9 DEF Submit, SubmitFails
  <2> QED
    BY <2>1, <2>2 DEF RootInv, RelayedUnderCoveringRoot, OnEthereum
<1> QED
  BY <1>2, <1>3, <1>4, <1>5, <1>6, <1>7, <1>8, <1>9 DEF Next, Work, RootsAside

\* A message comes to wait only when no root covers it, and a root takes along all
\* messages that it covers.
LEMMA CoverStep ==
    ASSUME TypeInv, NoCoveredMessageWaits, [Next]_vars
    PROVE  NoCoveredMessageWaits'
<1> USE DEF chains, listeners, channels1, filter, acc, sender, tasks, losses
<1>1. CASE AccumulateMessage
  <2>1. Head(filtered) \in Messages /\ acc_roots \subseteq GearBlocks
    BY <1>1, TailOf DEF AccumulateMessage, TypeInv, TypeOK
  <2>2. \A r \in acc_roots : ~Covers(r, Head(filtered))
    BY <1>1, <2>1, FindOf DEF AccumulateMessage
  <2>3. acc_messages' \subseteq acc_messages \cup {Head(filtered)} /\ acc_roots' = acc_roots
    BY <1>1 DEF AccumulateMessage
  <2> QED
    BY <2>2, <2>3 DEF NoCoveredMessageWaits
<1>2. CASE AccumulateRoot
  <2> DEFINE r == Head(roots)
  <2>1. /\ acc_roots' \subseteq acc_roots \cup {r}
        /\ acc_messages' = acc_messages \ (Removed \cup Ready)
    BY <1>2, AccumulateRootStep
  <2>2. \A m \in acc_messages' : m \in acc_messages /\ ~Covers(r, m)
    BY <2>1 DEF Ready, Drain, Covers
  <2> HIDE DEF r
  <2> QED
    BY <2>1, <2>2 DEF NoCoveredMessageWaits
<1>3. CASE ~AccumulateMessage /\ ~AccumulateRoot
  <2>1. UNCHANGED <<acc_messages, acc_roots>>
    BY <1>3 DEF Next, Work, vars, GearListener, EthListener, ExtractQueued, ExtractPaid, ExtractRoots,
                FilterMessage, FilterPaid, AccumulateCovered, KnownRoot, Submit, FilterEnds,
                AccumulatorPanics, AccumulatorEnds, SenderEnds, GearListenerFails, EthListenerFails,
                ExtractQueuedFails, ExtractPaidFails, ExtractRootsFails, SubmitFails, FinalizeGear,
                FinalizeEth
  <2> QED
    BY <2>1 DEF NoCoveredMessageWaits
<1> QED
  BY <1>1, <1>2, <1>3

--------------------------------------------------------------------------------
(* Payments. *)

\* The steps that neither payments nor the messages past the filter have a part in.
PaymentsAside ==
    \/ EthListener \/ EthListenerFails \/ GearListenerFails \/ FinalizeEth
    \/ ExtractQueuedFails \/ ExtractRoots \/ ExtractRootsFails
    \/ FilterEnds \/ KnownRoot \/ AccumulatorPanics \/ AccumulatorEnds \/ SenderEnds

LEMMA PaidStep ==
    ASSUME TypeInv, PaidInv, [Next]_vars
    PROVE  PaidInv'
<1> USE DEF chains, listeners, channels1, filter, acc, sender, tasks, losses
<1>1. mode' = mode
  BY DEF Next, Work, vars, GearListener, EthListener, ExtractQueued, ExtractPaid, ExtractRoots,
         FilterMessage, FilterPaid, AccumulateCovered, AccumulateMessage, KnownRoot, AccumulateRoot,
         Submit, FilterEnds, AccumulatorPanics, AccumulatorEnds, SenderEnds, GearListenerFails,
         EthListenerFails, ExtractQueuedFails, ExtractPaidFails, ExtractRootsFails, SubmitFails,
         FinalizeGear, FinalizeEth
<1> SUFFICES ASSUME mode = "paid" PROVE PaidInv'
  BY <1>1 DEF PaidInv
<1>2. /\ gear_head \in Nat /\ gear_next \in Nat /\ gear_head \in 1..LastGear
      /\ gear_next \in 1..LastGear + 1 /\ LastGear \in Nat
      /\ paid_blocks \in Seq(GearBlocks)
      /\ paid \in Seq(Messages) /\ filtered \in Seq(Messages) /\ messages \in Seq(Messages)
      /\ pending_nonces \in Seq(Messages) /\ pending_messages \subseteq Messages
  BY ChainAssumption DEF TypeInv, TypeOK, GearBlocks
<1>3. /\ gear_next <= gear_head + 1
      /\ \A b \in ToSet(paid_blocks) : b <= gear_head
      /\ \A m \in ToSet(paid) \cup ToSet(pending_nonces) \cup ToSet(filtered) \cup acc_messages : IsPaid(m)
      /\ \A p \in Leaving : IsPaid(p[1])
  BY DEF PaidInv
<1>4. CASE PaymentsAside \/ UNCHANGED vars
  <2>1. UNCHANGED <<gear_head, gear_next, paid_blocks, paid, pending_nonces, filtered, acc_messages,
                    out, submitted>>
    BY <1>4 DEF PaymentsAside, vars, EthListener, EthListenerFails, GearListenerFails, FinalizeEth,
                ExtractQueuedFails, ExtractRoots, ExtractRootsFails, FilterEnds, KnownRoot,
                AccumulatorPanics, AccumulatorEnds, SenderEnds
  <2> QED
    BY <1>3, <2>1 DEF PaidInv, IsPaid, Leaving
<1>5. CASE GearListener
  <2> DEFINE new == [i \in 1..(gear_head + 1 - gear_next) |-> gear_next + i - 1]
  <2>1. gear_next <= gear_head /\ gear_next..gear_head \subseteq GearBlocks
    BY <1>2, <1>5 DEF GearListener, GearBlocks
  <2>2. new \in Seq(gear_next..gear_head) /\ ToSet(new) = gear_next..gear_head
    BY <1>2, <2>1, BlocksOf
  <2>3. paid_blocks' = paid_blocks \o new /\ gear_next' = gear_head + 1
        /\ UNCHANGED <<gear_head, paid, pending_nonces, filtered, acc_messages, out, submitted>>
    BY <1>5 DEF GearListener
  <2> HIDE DEF new
  <2>4. ToSet(paid_blocks') = ToSet(paid_blocks) \cup (gear_next..gear_head)
    <3>1. new \in Seq(GearBlocks)
      BY <2>1, <2>2, SeqOfSubset
    <3> QED
      BY <1>2, <2>2, <2>3, <3>1, ConcatOf
  <2>5. \A b \in ToSet(paid_blocks') : b <= gear_head
    BY <1>2, <1>3, <2>4
  <2> QED
    BY <1>2, <1>3, <2>3, <2>5 DEF PaidInv, IsPaid, Leaving
<1>6. CASE FinalizeGear
  <2>1. gear_head' = gear_head + 1 /\ 1..gear_head \subseteq 1..gear_head'
        /\ UNCHANGED <<gear_next, paid_blocks, paid, pending_nonces, filtered, acc_messages, out, submitted>>
    BY <1>2, <1>6 DEF FinalizeGear
  <2>2. \A m : IsPaid(m) => IsPaid(m)'
    BY <2>1 DEF IsPaid
  <2>3. gear_next' <= gear_head' + 1 /\ \A b \in ToSet(paid_blocks') : b <= gear_head'
    <3>1. \A b \in ToSet(paid_blocks) : b \in Nat
      <4>1. GearBlocks \subseteq Nat
        BY DEF GearBlocks
      <4> QED
        BY <1>2, <4>1, ToSetOf
    <3> QED
      BY <1>2, <1>3, <2>1, <3>1
  <2> QED
    BY <1>3, <2>1, <2>2, <2>3 DEF PaidInv, Leaving
<1>7. CASE ExtractPaid \/ ExtractPaidFails
  <2> DEFINE b == Head(paid_blocks)
  <2>1. b \in GearBlocks /\ b \in ToSet(paid_blocks) /\ ToSet(paid_blocks') \subseteq ToSet(paid_blocks)
    BY <1>2, <1>7, TailOf DEF ExtractPaid, ExtractPaidFails
  <2>2. PaidIn[b] \in Seq(Messages) /\ b \in 1..gear_head
    BY <1>2, <1>3, <2>1, ChainAssumption DEF GearBlocks
  <2>3. \A m \in ToSet(PaidIn[b]) : IsPaid(m)
    BY <2>2 DEF IsPaid
  <2>4. paid' = paid \/ paid' = paid \o PaidIn[b]
    BY <1>7 DEF ExtractPaid, ExtractPaidFails
  <2> HIDE DEF b
  <2>5. ToSet(paid') \subseteq ToSet(paid) \cup ToSet(PaidIn[b])
    BY <1>2, <2>2, <2>4, ConcatOf, ZenonT(30)
  <2>6. UNCHANGED <<gear_head, gear_next, pending_nonces, filtered, acc_messages, out, submitted>>
    BY <1>7 DEF ExtractPaid, ExtractPaidFails
  <2>7. \A m \in ToSet(paid') : IsPaid(m)
    BY <1>3, <2>3, <2>5
  <2> QED
    BY <1>3, <2>1, <2>6, <2>7 DEF PaidInv, IsPaid, Leaving
<1>8. CASE ExtractQueued
  <2>1. UNCHANGED <<gear_head, gear_next, paid_blocks, paid, pending_nonces, filtered, acc_messages,
                    out, submitted>>
    BY <1>8 DEF ExtractQueued
  <2> QED
    BY <1>3, <2>1 DEF PaidInv, IsPaid, Leaving
<1>9. CASE FilterMessage
  <2> DEFINE msgs == pending_messages \cup {Head(messages)}
  <2>1. msgs \subseteq Messages /\ FilterSends(msgs, pending_nonces)
        /\ UNCHANGED <<gear_head, gear_next, paid_blocks, paid, acc_messages, out, submitted>>
    BY <1>2, <1>9, TailOf DEF FilterMessage
  <2> HIDE DEF msgs
  <2>2. Filters(msgs, pending_nonces)
    BY <1>2, <2>1, FilterSendsTypes
  <2>3. /\ ToSet(pending_nonces') \subseteq ToSet(pending_nonces)
        /\ ToSet(filtered') \subseteq ToSet(filtered) \cup ToSet(pending_nonces)
    BY <2>2 DEF Filters
  <2> QED
    BY <1>3, <2>1, <2>3 DEF PaidInv, IsPaid, Leaving
<1>10. CASE FilterPaid
  <2> DEFINE nonces == Append(pending_nonces, Head(paid))
  <2>1. /\ Head(paid) \in ToSet(paid) /\ ToSet(paid') \subseteq ToSet(paid)
        /\ nonces \in Seq(Messages) /\ ToSet(nonces) = ToSet(pending_nonces) \cup {Head(paid)}
        /\ FilterSends(pending_messages, nonces)
        /\ UNCHANGED <<gear_head, gear_next, paid_blocks, acc_messages, out, submitted>>
    BY <1>2, <1>10, TailOf, AppendOf DEF FilterPaid
  <2> HIDE DEF nonces
  <2>2. Filters(pending_messages, nonces)
    BY <1>2, <2>1, FilterSendsTypes
  <2>3. /\ ToSet(pending_nonces') \subseteq ToSet(nonces)
        /\ ToSet(filtered') \subseteq ToSet(filtered) \cup ToSet(nonces)
    BY <2>2 DEF Filters
  <2> QED
    BY <1>3, <2>1, <2>3 DEF PaidInv, IsPaid, Leaving
<1>11. CASE AccumulateMessage
  <2>1. /\ Head(filtered) \in ToSet(filtered) /\ ToSet(filtered') \subseteq ToSet(filtered)
        /\ acc_messages' \subseteq acc_messages \cup {Head(filtered)}
        /\ UNCHANGED <<gear_head, gear_next, paid_blocks, paid, pending_nonces, out, submitted>>
    BY <1>2, <1>11, TailOf DEF AccumulateMessage
  <2> QED
    BY <1>3, <2>1 DEF PaidInv, IsPaid, Leaving
<1>12. CASE AccumulateCovered
  <2> DEFINE m == Head(filtered)
             r == Find(m)
  <2>1. /\ m \in ToSet(filtered) /\ ToSet(filtered') \subseteq ToSet(filtered)
        /\ ToSet(out') \subseteq ToSet(out) \cup {<<m, r>>}
    BY <1>12, AccumulateCoveredStep
  <2>2. UNCHANGED <<gear_head, gear_next, paid_blocks, paid, pending_nonces, acc_messages, submitted>>
    BY <1>12 DEF AccumulateCovered
  <2> HIDE DEF m, r
  <2>3. \A p \in Leaving' : IsPaid(p[1])
    BY <1>3, <2>1, <2>2 DEF Leaving
  <2> QED
    BY <1>3, <2>1, <2>2, <2>3 DEF PaidInv, IsPaid
<1>13. CASE AccumulateRoot
  <2> DEFINE r == Head(roots)
  <2>1. /\ Ready \subseteq acc_messages /\ acc_messages' \subseteq acc_messages
        /\ ToSet(out') \subseteq ToSet(out) \cup {<<m, r>> : m \in Ready}
    BY <1>13, AccumulateRootStep
  <2>2. UNCHANGED <<gear_head, gear_next, paid_blocks, paid, pending_nonces, filtered, submitted>>
    BY <1>13 DEF AccumulateRoot
  <2> HIDE DEF r
  <2>3. \A p \in Leaving' : IsPaid(p[1])
    BY <1>3, <2>1, <2>2 DEF Leaving
  <2> QED
    BY <1>3, <2>1, <2>2, <2>3 DEF PaidInv, IsPaid
<1>14. CASE Submit \/ SubmitFails
  <2>1. Leaving' \subseteq Leaving
    BY <1>14, LeavingShrinks
  <2>2. UNCHANGED <<gear_head, gear_next, paid_blocks, paid, pending_nonces, filtered, acc_messages>>
    BY <1>14 DEF Submit, SubmitFails
  <2> QED
    BY <1>3, <2>1, <2>2 DEF PaidInv, IsPaid
<1> QED
  BY <1>4, <1>5, <1>6, <1>7, <1>8, <1>9, <1>10, <1>11, <1>12, <1>13, <1>14 DEF Next, Work, PaymentsAside

--------------------------------------------------------------------------------
(* One place for every message. *)

LEMMA SeenTypes ==
    ASSUME TypeInv
    PROVE  Seen \subseteq Messages /\ Leaving \subseteq Messages \X GearBlocks
<1> DEFINE R == Messages \X GearBlocks
<1>1. /\ messages \in Seq(Messages) /\ filtered \in Seq(Messages)
      /\ pending_messages \subseteq Messages /\ acc_messages \subseteq Messages
      /\ out \in Seq(R) /\ submitted \subseteq R
  BY DEF TypeInv, TypeOK
<1> HIDE DEF R
<1>2. ToSet(messages) \subseteq Messages /\ ToSet(filtered) \subseteq Messages /\ ToSet(out) \subseteq R
  BY <1>1, ToSetOf
<1> QED
  BY <1>1, <1>2 DEF Seen, Leaving, R

\* The block that the queue's listener sends is in no channel yet.
LEMMA ListenerOnce ==
    ASSUME TypeInv, OnceInv, GearListener, ~Repeats
    PROVE  OnceInv'
<1> USE DEF chains, listeners, channels1, filter, acc, sender, tasks, losses
<1> DEFINE new == [i \in 1..(gear_head + 1 - gear_next) |-> gear_next + i - 1]
<1>1. /\ gear_head \in Nat /\ gear_next \in Nat /\ gear_head \in 1..LastGear /\ gear_next \in 1..LastGear + 1
      /\ blocks \in Seq(GearBlocks)
  BY ChainAssumption DEF TypeInv, TypeOK, GearBlocks
<1>2. gear_next <= gear_head /\ gear_next..gear_head \subseteq GearBlocks
  BY <1>1, ChainAssumption DEF GearListener, GearBlocks
<1>3. new \in Seq(gear_next..gear_head) /\ ToSet(new) = gear_next..gear_head /\ Distinct(new)
  BY <1>1, <1>2, BlocksOf
<1>4. blocks' = blocks \o new /\ gear_next' = gear_head + 1
      /\ UNCHANGED <<mode, running, messages, pending_messages, filtered, acc_messages, out, submitted>>
  BY DEF GearListener
<1>5. mode # "manual"
  BY DEF GearListener, TypeInv, TypeOK, Tasks
<1> HIDE DEF new
<1>6. new \in Seq(GearBlocks)
  BY <1>2, <1>3, SeqOfSubset
<1>7. /\ Distinct(blocks) /\ \A b \in ToSet(blocks) : b < gear_next
      /\ \A m \in Seen : BlockOf[m] < gear_next /\ BlockOf[m] \notin ToSet(blocks)
      /\ \A p \in Leaving : BlockOf[p[1]] < gear_next /\ BlockOf[p[1]] \notin ToSet(blocks)
  BY <1>5 DEF OnceInv
<1>8. \A b \in ToSet(blocks) : b \notin gear_next..gear_head /\ b < gear_head + 1
  <2>1. \A b \in ToSet(blocks) : b \in Nat
    <3>1. GearBlocks \subseteq Nat
      BY DEF GearBlocks
    <3> QED
      BY <1>1, <3>1, ToSetOf
  <2> QED
    BY <1>1, <1>2, <1>7, <2>1
<1>9. ToSet(blocks') = ToSet(blocks) \cup (gear_next..gear_head) /\ Distinct(blocks')
  BY <1>1, <1>3, <1>4, <1>6, <1>7, <1>8, ConcatOf
<1>10. \A b \in ToSet(blocks') : b < gear_next'
  BY <1>1, <1>4, <1>8, <1>9
<1>11. \A b \in Nat : b < gear_next => b < gear_head + 1 /\ b \notin gear_next..gear_head
  BY <1>1, <1>2
<1>12. Seen' = Seen /\ Leaving' = Leaving
  BY <1>4 DEF Seen, Leaving
<1>13. Seen \subseteq Messages /\ Leaving \subseteq Messages \X GearBlocks
  BY SeenTypes
<1>14. \A m \in Messages : BlockOf[m] \in Nat
  BY ChainAssumption DEF GearBlocks
<1>15. \A m \in Seen : BlockOf[m] < gear_next' /\ BlockOf[m] \notin ToSet(blocks')
  BY <1>4, <1>7, <1>9, <1>11, <1>13, <1>14
<1>16. \A p \in Leaving : BlockOf[p[1]] < gear_next' /\ BlockOf[p[1]] \notin ToSet(blocks')
  <2>1. \A p \in Leaving : p[1] \in Messages
    BY <1>13
  <2> QED
    BY <1>4, <1>7, <1>9, <1>11, <1>14, <2>1
<1> QED
  BY <1>4, <1>5, <1>9, <1>10, <1>12, <1>15, <1>16 DEF OnceInv

\* The messages of a block are read once: the block leaves its channel for good.
LEMMA ExtractorOnce ==
    ASSUME TypeInv, OnceInv, ExtractQueued \/ ExtractQueuedFails, ~Repeats
    PROVE  OnceInv'
<1> USE DEF chains, listeners, channels1, filter, acc, sender, losses
<1> DEFINE b == Head(blocks)
           found == MessagesIn(b)
<1>1. blocks \in Seq(GearBlocks) /\ messages \in Seq(Messages) /\ filtered \in Seq(Messages) /\ blocks # <<>>
  BY DEF TypeInv, TypeOK, ExtractQueued, ExtractQueuedFails
<1>2. mode # "manual"
  BY <1>1 DEF OnceInv
<1>3. /\ Distinct(blocks) /\ \A c \in ToSet(blocks) : c < gear_next
      /\ \A m \in Seen : BlockOf[m] < gear_next /\ BlockOf[m] \notin ToSet(blocks)
      /\ \A p \in Leaving : BlockOf[p[1]] < gear_next /\ BlockOf[p[1]] \notin ToSet(blocks)
  BY <1>2 DEF OnceInv
<1>4. b \in ToSet(blocks) /\ Distinct(Tail(blocks)) /\ b \notin ToSet(Tail(blocks))
      /\ ToSet(Tail(blocks)) \subseteq ToSet(blocks)
  BY <1>1, <1>3, TailOf
<1>5. found \in Seq(Messages) /\ Distinct(found) /\ ToSet(found) = {m \in Messages : BlockOf[m] = b}
  BY MessagesInOf
<1>6. /\ blocks' = Tail(blocks)
      /\ UNCHANGED <<mode, gear_next, pending_messages, acc_messages, out, submitted>>
  BY DEF ExtractQueued, ExtractQueuedFails
<1>7. \/ messages' = messages /\ filtered' = filtered
      \/ messages' = messages \o found /\ filtered' = filtered
      \/ messages' = messages /\ filtered' = filtered \o found
  BY DEF ExtractQueued, ExtractQueuedFails
<1> HIDE DEF found, b
<1>8. /\ Distinct(messages) /\ Distinct(filtered)
      /\ \A m \in ToSet(messages) : m \notin pending_messages \cup ToSet(filtered) \cup acc_messages
      /\ \A m \in pending_messages : m \notin ToSet(filtered) \cup acc_messages
      /\ \A m \in ToSet(filtered) : m \notin acc_messages
      /\ \A p \in Leaving : p[1] \notin Seen
      /\ \A p, q \in Leaving : p[1] = q[1] => p = q
  BY DEF OnceInv
<1>9. /\ \A m \in ToSet(found) : m \notin Seen /\ BlockOf[m] < gear_next /\ BlockOf[m] \notin ToSet(Tail(blocks))
      /\ \A p \in Leaving : p[1] \notin ToSet(found)
  BY <1>3, <1>4, <1>5
<1>10. Leaving' = Leaving
  BY <1>6 DEF Leaving
<1>11. CASE messages' = messages /\ filtered' = filtered
  <2>1. Seen' = Seen
    BY <1>6, <1>11 DEF Seen
  <2> QED
    BY <1>2, <1>3, <1>4, <1>6, <1>8, <1>10, <1>11, <2>1 DEF OnceInv
<1>12. CASE messages' = messages \o found /\ filtered' = filtered
  <2>1. ToSet(messages) \cap ToSet(found) = {}
    BY <1>9 DEF Seen
  <2>2. ToSet(messages') = ToSet(messages) \cup ToSet(found) /\ Distinct(messages')
    BY <1>1, <1>5, <1>8, <1>12, <2>1, ConcatOf
  <2>3. Seen' = Seen \cup ToSet(found)
    BY <1>6, <1>12, <2>2 DEF Seen
  <2>4. \A m \in ToSet(messages') : m \notin pending_messages \cup ToSet(filtered) \cup acc_messages
    BY <1>8, <1>9, <2>2 DEF Seen
  <2> QED
    BY <1>2, <1>3, <1>4, <1>6, <1>8, <1>9, <1>10, <1>12, <2>2, <2>3, <2>4 DEF OnceInv
<1>13. CASE messages' = messages /\ filtered' = filtered \o found
  <2>1. ToSet(filtered) \cap ToSet(found) = {}
    BY <1>9 DEF Seen
  <2>2. ToSet(filtered') = ToSet(filtered) \cup ToSet(found) /\ Distinct(filtered')
    BY <1>1, <1>5, <1>8, <1>13, <2>1, ConcatOf
  <2>3. Seen' = Seen \cup ToSet(found)
    BY <1>6, <1>13, <2>2 DEF Seen
  <2>4. /\ \A m \in ToSet(messages) : m \notin pending_messages \cup ToSet(filtered') \cup acc_messages
        /\ \A m \in pending_messages : m \notin ToSet(filtered') \cup acc_messages
        /\ \A m \in ToSet(filtered') : m \notin acc_messages
    BY <1>8, <1>9, <2>2 DEF Seen
  <2> QED
    BY <1>2, <1>3, <1>4, <1>6, <1>8, <1>9, <1>10, <1>13, <2>2, <2>3, <2>4 DEF OnceInv
<1> QED
  BY <1>7, <1>11, <1>12, <1>13

\* A message that finds its nonce leaves the filter's map.
LEMMA FilterOnce ==
    ASSUME TypeInv, OnceInv, FilterMessage \/ FilterPaid, ~Repeats
    PROVE  OnceInv'
<1> USE DEF chains, listeners, channels1, acc, sender, tasks, losses
<1>1. /\ messages \in Seq(Messages) /\ paid \in Seq(Messages) /\ filtered \in Seq(Messages)
      /\ pending_nonces \in Seq(Messages) /\ pending_messages \subseteq Messages
  BY DEF TypeInv, TypeOK
<1>2. /\ Distinct(messages) /\ Distinct(filtered)
      /\ \A m \in ToSet(messages) : m \notin pending_messages \cup ToSet(filtered) \cup acc_messages
      /\ \A m \in pending_messages : m \notin ToSet(filtered) \cup acc_messages
      /\ \A m \in ToSet(filtered) : m \notin acc_messages
      /\ \A p \in Leaving : p[1] \notin Seen
  BY DEF OnceInv
<1>3. PICK msgs, nonces :
         /\ Filters(msgs, nonces) /\ Distinct(messages')
         /\ ToSet(messages') \subseteq ToSet(messages) \ msgs
         /\ pending_messages \subseteq msgs /\ msgs \subseteq pending_messages \cup ToSet(messages)
  <2>1. CASE FilterMessage
    <3> DEFINE msgs == pending_messages \cup {Head(messages)}
    <3>1. /\ msgs \subseteq Messages /\ FilterSends(msgs, pending_nonces)
          /\ Distinct(messages') /\ ToSet(messages') \subseteq ToSet(messages)
          /\ Head(messages) \in ToSet(messages) /\ Head(messages) \notin ToSet(messages')
      BY <1>1, <1>2, <2>1, TailOf DEF FilterMessage
    <3>2. pending_messages \subseteq msgs /\ msgs \subseteq pending_messages \cup ToSet(messages)
          /\ ToSet(messages') \subseteq ToSet(messages) \ msgs
      BY <1>2, <3>1
    <3> HIDE DEF msgs
    <3>3. Filters(msgs, pending_nonces)
      BY <1>1, <3>1, FilterSendsTypes
    <3> QED
      BY <3>1, <3>2, <3>3
  <2>2. CASE FilterPaid
    <3> DEFINE nonces == Append(pending_nonces, Head(paid))
    <3>1. nonces \in Seq(Messages) /\ FilterSends(pending_messages, nonces) /\ messages' = messages
      BY <1>1, <2>2, TailOf, AppendOf DEF FilterPaid
    <3> HIDE DEF nonces
    <3>2. Filters(pending_messages, nonces)
      BY <1>1, <3>1, FilterSendsTypes
    <3> QED
      BY <1>2, <3>1, <3>2
  <2> QED
    BY <2>1, <2>2
<1>4. UNCHANGED <<mode, running, gear_next, blocks, acc_messages, out, submitted>>
  BY DEF FilterMessage, FilterPaid
<1>5. Leaving' = Leaving
  BY <1>4 DEF Leaving
<1> DEFINE send == ToSet(nonces) \cap msgs
<1>6. /\ pending_messages' = msgs \ send
      /\ \/ filtered' = filtered
         \/ /\ ToSet(filtered') = ToSet(filtered) \cup send
            /\ Distinct(filtered) /\ ToSet(filtered) \cap send = {} => Distinct(filtered')
  BY <1>3 DEF Filters
<1>7. send \subseteq msgs
  OBVIOUS
<1> HIDE DEF send
<1>8. \A m \in msgs : m \notin ToSet(filtered) \cup acc_messages
  BY <1>2, <1>3
<1>9. Distinct(filtered') /\ ToSet(filtered') \subseteq ToSet(filtered) \cup send
  BY <1>2, <1>6, <1>7, <1>8
<1>10. Seen' \subseteq Seen
  BY <1>3, <1>4, <1>6, <1>7, <1>9 DEF Seen
<1>11. /\ \A m \in ToSet(messages') : m \notin pending_messages' \cup ToSet(filtered') \cup acc_messages
       /\ \A m \in pending_messages' : m \notin ToSet(filtered') \cup acc_messages
       /\ \A m \in ToSet(filtered') : m \notin acc_messages
  BY <1>2, <1>3, <1>6, <1>7, <1>8, <1>9
<1> QED
  BY <1>3, <1>4, <1>5, <1>9, <1>10, <1>11 DEF OnceInv

\* A message leaves the accumulator with one root.
LEMMA AccumulatorOnce ==
    ASSUME TypeInv, OnceInv, AccumulateCovered \/ AccumulateMessage \/ AccumulateRoot, ~Repeats
    PROVE  OnceInv'
<1> USE DEF chains, listeners, channels1, filter, tasks, sender
<1>1. filtered \in Seq(Messages)
  BY DEF TypeInv, TypeOK
<1>2. /\ Distinct(filtered)
      /\ \A m \in ToSet(messages) : m \notin pending_messages \cup ToSet(filtered) \cup acc_messages
      /\ \A m \in pending_messages : m \notin ToSet(filtered) \cup acc_messages
      /\ \A m \in ToSet(filtered) : m \notin acc_messages
      /\ \A p \in Leaving : p[1] \notin Seen
      /\ \A p, q \in Leaving : p[1] = q[1] => p = q
  BY DEF OnceInv
<1>3. /\ mode # "manual" => \A m \in Seen : BlockOf[m] < gear_next /\ BlockOf[m] \notin ToSet(blocks)
      /\ mode # "manual" => \A p \in Leaving : BlockOf[p[1]] < gear_next /\ BlockOf[p[1]] \notin ToSet(blocks)
  BY DEF OnceInv
<1>4. UNCHANGED <<mode, running, gear_next, blocks, messages, pending_messages, submitted>>
  BY DEF AccumulateCovered, AccumulateMessage, AccumulateRoot
<1>5. PICK gone, r :
         /\ Distinct(filtered') /\ ToSet(filtered') \subseteq ToSet(filtered) \ gone
         /\ gone \subseteq ToSet(filtered) \cup acc_messages
         /\ acc_messages' \subseteq (acc_messages \cup ToSet(filtered)) \ (gone \cup ToSet(filtered'))
         /\ ToSet(out') \subseteq ToSet(out) \cup {<<m, r>> : m \in gone}
  <2>1. CASE AccumulateCovered
    <3> DEFINE m == Head(filtered)
               r == Find(m)
    <3>1. /\ filtered' = Tail(filtered) /\ filtered # <<>> /\ acc_messages' = acc_messages
      BY <2>1 DEF AccumulateCovered
    <3>2. ToSet(out') \subseteq ToSet(out) \cup {<<m, r>>}
      BY <2>1, AccumulateCoveredStep
    <3>3. m \in ToSet(filtered) /\ m \notin ToSet(filtered') /\ Distinct(filtered')
          /\ ToSet(filtered') \subseteq ToSet(filtered)
      BY <1>1, <1>2, <3>1, TailOf
    <3> HIDE DEF m, r
    <3> DEFINE gone == {m}
    <3>4. ToSet(out') \subseteq ToSet(out) \cup {<<x, r>> : x \in gone}
      BY <3>2
    <3>5. /\ gone \subseteq ToSet(filtered) \cup acc_messages
          /\ ToSet(filtered') \subseteq ToSet(filtered) \ gone
          /\ acc_messages' \subseteq (acc_messages \cup ToSet(filtered)) \ (gone \cup ToSet(filtered'))
      BY <1>2, <3>1, <3>3
    <3> HIDE DEF gone
    <3> QED
      BY <3>3, <3>4, <3>5
  <2>2. CASE AccumulateMessage
    <3> DEFINE m == Head(filtered)
    <3>1. /\ filtered' = Tail(filtered) /\ filtered # <<>> /\ acc_messages' \subseteq acc_messages \cup {m}
          /\ out' = out
      BY <2>2 DEF AccumulateMessage
    <3>2. m \in ToSet(filtered) /\ m \notin ToSet(filtered') /\ Distinct(filtered')
          /\ ToSet(filtered') \subseteq ToSet(filtered)
      BY <1>1, <1>2, <3>1, TailOf
    <3> HIDE DEF m
    <3> DEFINE gone == {}
    <3>3. ToSet(out') \subseteq ToSet(out) \cup {<<x, 0>> : x \in gone}
      BY <3>1
    <3>4. /\ gone \subseteq ToSet(filtered) \cup acc_messages
          /\ ToSet(filtered') \subseteq ToSet(filtered) \ gone
          /\ acc_messages' \subseteq (acc_messages \cup ToSet(filtered)) \ (gone \cup ToSet(filtered'))
      BY <1>2, <3>1, <3>2
    <3> HIDE DEF gone
    <3> QED
      BY <3>2, <3>3, <3>4
  <2>3. CASE AccumulateRoot
    <3> DEFINE r == Head(roots)
    <3>1. filtered' = filtered
      BY <2>3 DEF AccumulateRoot
    <3>2. /\ Ready \subseteq acc_messages /\ acc_messages' = acc_messages \ (Removed \cup Ready)
          /\ ToSet(out') \subseteq ToSet(out) \cup {<<m, r>> : m \in Ready}
      BY <2>3, AccumulateRootStep
    <3> HIDE DEF r
    <3>3. PICK gone : gone = Ready
      OBVIOUS
    <3>4. /\ gone \subseteq acc_messages /\ acc_messages' \subseteq acc_messages \ gone
          /\ ToSet(out') \subseteq ToSet(out) \cup {<<m, r>> : m \in gone}
      BY <3>2, <3>3
    <3>5. /\ gone \subseteq ToSet(filtered) \cup acc_messages
          /\ ToSet(filtered') \subseteq ToSet(filtered) \ gone
          /\ acc_messages' \subseteq (acc_messages \cup ToSet(filtered)) \ (gone \cup ToSet(filtered'))
      BY <1>2, <3>1, <3>4
    <3> QED
      BY <1>2, <3>1, <3>4, <3>5
  <2> QED
    BY <2>1, <2>2, <2>3
<1>6. Leaving' \subseteq Leaving \cup {<<m, r>> : m \in gone}
  BY <1>4, <1>5 DEF Leaving
<1>7. Seen' \subseteq Seen \ gone /\ gone \subseteq Seen
  BY <1>2, <1>4, <1>5 DEF Seen
<1>8. ASSUME NEW p \in Leaving'
      PROVE  /\ p[1] \notin Seen'
             /\ mode # "manual" => BlockOf[p[1]] < gear_next /\ BlockOf[p[1]] \notin ToSet(blocks)
  <2>1. CASE p \in Leaving
    BY <1>2, <1>3, <1>7, <2>1
  <2>2. CASE p \notin Leaving
    <3>1. PICK m \in gone : p = <<m, r>>
      BY <1>6, <2>2
    <3>2. p[1] = m
      BY <3>1
    <3> QED
      BY <1>3, <1>7, <3>2
  <2> QED
    BY <2>1, <2>2
<1>9. ASSUME NEW p \in Leaving', NEW q \in Leaving', p[1] = q[1] PROVE p = q
  <2>1. CASE p \in Leaving /\ q \in Leaving
    BY <1>2, <1>9, <2>1
  <2>2. CASE p \notin Leaving \/ q \notin Leaving
    <3>1. p[1] \in gone
      BY <1>6, <1>9, <2>2
    <3>2. p \notin Leaving /\ q \notin Leaving
      BY <1>2, <1>7, <1>9, <3>1
    <3>3. PICK m \in gone, n \in gone : p = <<m, r>> /\ q = <<n, r>>
      BY <1>6, <3>2
    <3>4. m = n
      BY <1>9, <3>3
    <3> QED
      BY <3>3, <3>4
  <2> QED
    BY <2>1, <2>2
<1>10. /\ \A m \in ToSet(messages) : m \notin pending_messages \cup ToSet(filtered') \cup acc_messages'
       /\ \A m \in pending_messages : m \notin ToSet(filtered') \cup acc_messages'
       /\ \A m \in ToSet(filtered') : m \notin acc_messages'
  BY <1>2, <1>5
<1>11. mode # "manual" => \A m \in Seen' : BlockOf[m] < gear_next /\ BlockOf[m] \notin ToSet(blocks)
  BY <1>3, <1>7
<1> QED
  BY <1>4, <1>5, <1>8, <1>9, <1>10, <1>11 DEF OnceInv

\* The steps that no message moves in.
MessagesAside ==
    \/ EthListener \/ EthListenerFails \/ FinalizeGear \/ FinalizeEth
    \/ ExtractPaid \/ ExtractPaidFails \/ ExtractRoots \/ ExtractRootsFails
    \/ FilterEnds \/ KnownRoot \/ AccumulatorPanics \/ AccumulatorEnds \/ SenderEnds

\* No task starts again.
LEMMA RepeatsForGood ==
    ASSUME [Next]_vars, Repeats
    PROVE  Repeats'
<1> USE DEF chains, tasks, AfterError, Stop
<1>1. mode' = mode /\ running' \subseteq running
  BY DEF Next, Work, vars, GearListener, EthListener, ExtractQueued, ExtractPaid, ExtractRoots,
         FilterMessage, FilterPaid, AccumulateCovered, AccumulateMessage, KnownRoot, AccumulateRoot,
         Submit, FilterEnds, AccumulatorPanics, AccumulatorEnds, SenderEnds, GearListenerFails,
         EthListenerFails, ExtractQueuedFails, ExtractPaidFails, ExtractRootsFails, SubmitFails,
         FinalizeGear, FinalizeEth
<1> QED
  BY <1>1 DEF Repeats

LEMMA OnceStep ==
    ASSUME TypeInv, OnceInv, [Next]_vars
    PROVE  OnceInv'
<1> USE DEF chains, listeners, channels1, filter, acc, sender, tasks, losses
<1>1. CASE Repeats
  BY <1>1, RepeatsForGood DEF OnceInv
<1> SUFFICES ASSUME ~Repeats PROVE OnceInv'
  BY <1>1
<1>2. CASE MessagesAside \/ UNCHANGED vars
  <2>1. UNCHANGED <<mode, gear_next, blocks, messages, pending_messages, filtered, acc_messages, out, submitted>>
    BY <1>2 DEF MessagesAside, vars, EthListener, EthListenerFails, FinalizeGear, FinalizeEth,
                ExtractPaid, ExtractPaidFails, ExtractRoots, ExtractRootsFails, FilterEnds, KnownRoot,
                AccumulatorPanics, AccumulatorEnds, SenderEnds
  <2>2. Seen' = Seen /\ Leaving' = Leaving
    BY <2>1 DEF Seen, Leaving
  <2> QED
    BY <2>1, <2>2 DEF OnceInv
<1>3. CASE GearListenerFails
  <2>1. UNCHANGED <<mode, gear_next, messages, pending_messages, filtered, acc_messages, out, submitted>>
    BY <1>3 DEF GearListenerFails
  <2>2. blocks' = blocks
    BY <1>3 DEF GearListenerFails, Repeats, Tasks
  <2>3. Seen' = Seen /\ Leaving' = Leaving
    BY <2>1 DEF Seen, Leaving
  <2> QED
    BY <2>1, <2>2, <2>3 DEF OnceInv
<1>4. CASE Submit \/ SubmitFails
  <2>1. UNCHANGED <<mode, gear_next, blocks, messages, pending_messages, filtered, acc_messages>>
    BY <1>4 DEF Submit, SubmitFails
  <2>2. Seen' = Seen /\ Leaving' \subseteq Leaving
    BY <1>4, <2>1, LeavingShrinks DEF Seen
  <2> QED
    BY <2>1, <2>2 DEF OnceInv
<1>5. CASE GearListener
  BY <1>5, ListenerOnce
<1>6. CASE ExtractQueued \/ ExtractQueuedFails
  BY <1>6, ExtractorOnce
<1>7. CASE FilterMessage \/ FilterPaid
  BY <1>7, FilterOnce
<1>8. CASE AccumulateCovered \/ AccumulateMessage \/ AccumulateRoot
  BY <1>8, AccumulatorOnce
<1> QED
  BY <1>2, <1>3, <1>4, <1>5, <1>6, <1>7, <1>8 DEF Next, Work, MessagesAside

--------------------------------------------------------------------------------
(* The theorems. *)

LEMMA InitIInv ==
    ASSUME Init
    PROVE  IInv
<1>1. /\ Distinct(<<>>) /\ ToSet(<<>>) = {}
      /\ \A m : Distinct(<<m>>) /\ ToSet(<<m>>) = {m}
  BY DEF Distinct, ToSet
<1>2. filtered \in Seq(Messages) /\ Distinct(filtered) /\ (mode # "manual" => filtered = <<>>)
  <2>1. CASE mode = "manual"
    <3>1. PICK m \in Messages : filtered = <<m>>
      BY <2>1 DEF Init
    <3> QED
      BY <1>1, <2>1, <3>1
  <2>2. CASE mode # "manual"
    BY <1>1, <2>2 DEF Init
  <2> QED
    BY <2>1, <2>2
<1>3. Leaving = {} /\ Seen = ToSet(filtered)
  BY <1>1 DEF Init, Leaving, Seen
<1>4. TypeInv
  BY <1>2, ChainAssumption DEF Init, TypeInv, TypeOK, GearBlocks, EthBlocks, Counting
<1>5. RootInv
  BY <1>1, <1>3 DEF Init, RootInv, RelayedUnderCoveringRoot
<1>6. NoCoveredMessageWaits
  BY DEF Init, NoCoveredMessageWaits
<1>7. PaidInv
  BY <1>1, <1>2, <1>3 DEF Init, PaidInv
<1>8. OnceInv
  BY <1>1, <1>2, <1>3 DEF Init, OnceInv
<1> QED
  BY <1>4, <1>5, <1>6, <1>7, <1>8 DEF IInv

\* Every reachable state satisfies the inductive invariant.
THEOREM InductiveInvariant == Spec => []IInv
<1>1. Init => IInv
  BY InitIInv
<1>2. IInv /\ [Next]_vars => IInv'
  BY TypeStep, RootStep, CoverStep, PaidStep, OnceStep DEF IInv
<1> QED
  BY <1>1, <1>2, PTL DEF Spec

\* Channels, maps, vectors and task counters of the token relayer have their types: in
\* particular no counting task fails more than MAX_RETRIES times.
THEOREM RelayerTypes == Spec => []TypeOK
<1>1. IInv => TypeOK
  BY DEF IInv, TypeInv
<1> QED
  BY <1>1, InductiveInvariant, PTL

\* The accumulator's find and drain: a message leaves with a root that Ethereum holds,
\* that the same authority set has signed and that is not older than the message.
THEOREM CoveringRoots == Spec => []RelayedUnderCoveringRoot
<1>1. IInv => RelayedUnderCoveringRoot
  BY DEF IInv, RootInv
<1> QED
  BY <1>1, InductiveInvariant, PTL

\* The accumulator never holds a message together with a root that covers it, whatever
\* order the two channels bring them in and whatever the listener's restart repeats.
THEOREM NothingCoveredWaits == Spec => []NoCoveredMessageWaits
<1>1. IInv => NoCoveredMessageWaits
  BY DEF IInv
<1> QED
  BY <1>1, InductiveInvariant, PTL

\* One transaction per message while no block is sent to the extractors again, and the
\* paid relayer sends none without a payment.
THEOREM MessagesRelayedOnce == Spec => []RelayedOnce
<1>1. IInv => RelayedOnce
  <2> SUFFICES ASSUME IInv, NEW m \in Messages
               PROVE  /\ ~Repeats => \A p, q \in Leaving : p[1] = m /\ q[1] = m => p = q
                      /\ ~Repeats /\ (\E p \in Leaving : p[1] = m)
                           => m \notin acc_messages \cup pending_messages
                      /\ mode = "paid" /\ m \in acc_messages \cup {p[1] : p \in Leaving} => IsPaid(m)
    BY DEF RelayedOnce, IsPaid
  <2>1. /\ ~Repeats => \A p, q \in Leaving : p[1] = m /\ q[1] = m => p = q
        /\ ~Repeats => \A p \in Leaving : p[1] \notin Seen
    BY DEF IInv, OnceInv
  <2>2. ~Repeats /\ (\E p \in Leaving : p[1] = m) => m \notin acc_messages \cup pending_messages
    BY <2>1 DEF Seen
  <2>3. mode = "paid" /\ m \in acc_messages \cup {p[1] : p \in Leaving} => IsPaid(m)
    BY DEF IInv, PaidInv
  <2> QED
    BY <2>1, <2>2, <2>3
<1> QED
  BY <1>1, InductiveInvariant, PTL
================================================================================
