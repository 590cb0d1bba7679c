------------------------ MODULE EthereumContractsProofs ------------------------
(****************************************************************************)
(* Proofs about EthereumContracts, for any set of provable roots, messages,  *)
(* tokens and block numbers.                                                 *)
(****************************************************************************)
EXTENDS EthereumContracts, FiniteSetTheorems, NaturalsInduction, WellFoundedInduction, TLAPS

TypeOK ==
    /\ blockRoot \in [BlockNumbers -> Roots]
    /\ delivered \subseteq Messages

\* A nonce is marked exactly when a message that carries it was delivered.
NoncesMatch == processed = {m.nonce : m \in delivered}

IInv == TypeOK /\ RootsAreProven /\ NoncesMatch /\ DeliveredAreProven

LEMMA InitInv ==
    ASSUME Init
    PROVE  IInv
BY RelayerAssumption
   DEF Init, IInv, TypeOK, RootsAreProven, NoncesMatch, DeliveredAreProven

LEMMA StoreStep ==
    ASSUME IInv, NEW b \in BlockNumbers, NEW r \in Roots, StoreMerkleRoot(b, r)
    PROVE  IInv'
<1>1. TypeOK' /\ NoncesMatch' /\ DeliveredAreProven'
  BY DEF IInv, TypeOK, NoncesMatch, DeliveredAreProven, StoreMerkleRoot
<1>2. RootsAreProven'
  BY DEF IInv, TypeOK, RootsAreProven, StoreMerkleRoot
<1> QED
  BY <1>1, <1>2 DEF IInv

\* Delivering a message that Accept lets through.
LEMMA AcceptStep ==
    ASSUME IInv, NEW b \in BlockNumbers, NEW m \in Messages, Accept(b, m), UNCHANGED relayerVars
    PROVE  IInv'
<1>1. TypeOK' /\ RootsAreProven'
  BY DEF IInv, TypeOK, RootsAreProven, Accept, relayerVars
<1>2. NoncesMatch'
  BY DEF IInv, NoncesMatch, Accept
<1>3. PublicInputs(b, blockRoot[b]) \in Provable /\ m \in Leaves[blockRoot[b]]
  BY DEF IInv, RootsAreProven, Accept, ProvenInBlock
<1>4. DeliveredAreProven'
  <2>1. ASSUME NEW n \in delivered'
        PROVE  \E c \in BlockNumbers, r \in Roots :
                   PublicInputs(c, r) \in Provable /\ n \in Leaves[r]
    BY <1>3 DEF IInv, TypeOK, DeliveredAreProven, Accept
  <2>2. ASSUME NEW n \in delivered', NEW p \in delivered', n.nonce = p.nonce
        PROVE  n = p
    BY <2>2 DEF IInv, NoncesMatch, DeliveredAreProven, Accept
  <2> QED
    BY <2>1, <2>2 DEF DeliveredAreProven
<1> QED
  BY <1>1, <1>2, <1>4 DEF IInv

\* Steps that leave the roots and the delivered messages alone.
LEMMA OtherStep ==
    ASSUME IInv, UNCHANGED <<blockRoot, processed, delivered>>
    PROVE  IInv'
BY DEF IInv, TypeOK, RootsAreProven, NoncesMatch, DeliveredAreProven

LEMMA NextStep ==
    ASSUME IInv, [Next]_vars
    PROVE  IInv'
<1>1. ASSUME NEW b \in BlockNumbers, NEW m \in Messages,
             ProcessTransfer(b, m) \/ ProcessUpdate(b, m) \/ ProcessForeign(b, m)
      PROVE  IInv'
  BY <1>1, AcceptStep DEF ProcessTransfer, ProcessUpdate, ProcessForeign
<1>2. ASSUME NEW b \in BlockNumbers, NEW r \in Roots, StopOnConflict(b, r)
      PROVE  IInv'
  BY <1>2, OtherStep DEF StopOnConflict
<1>3. ASSUME NEW t \in Tokens, NEW a \in Amounts, RequestBridging(t, a)
      PROVE  IInv'
  BY <1>3, OtherStep DEF RequestBridging, relayerVars
<1>4. ASSUME NEW x, UpgradeByAdmin(x) \/ ChangeAdminByAdmin(x)
      PROVE  IInv'
  BY <1>4, OtherStep DEF UpgradeByAdmin, ChangeAdminByAdmin, relayerVars
<1>5. CASE UNCHANGED vars
  BY <1>5, OtherStep DEF vars, relayerVars
<1> QED
  BY <1>1, <1>2, <1>3, <1>4, <1>5, StoreStep DEF Next

\* IInv is an inductive invariant.
THEOREM Invariance == Spec => []IInv
BY InitInv, NextStep, PTL DEF Spec

\* Ethereum holds only proven roots.
THEOREM StoredRootsAreProven == Spec => []RootsAreProven
<1>1. IInv => RootsAreProven
  BY DEF IInv
<1> QED
  BY Invariance, <1>1, PTL

\* Only messages of proven roots are delivered, and each nonce once.
THEOREM DeliveryIsSoundAndOnce == Spec => []DeliveredAreProven
<1>1. IInv => DeliveredAreProven
  BY DEF IInv
<1> QED
  BY Invariance, <1>1, PTL

\* A stored root is never exchanged for another one.
THEOREM RootsAreStable == Spec => RootNeverReplaced
<1> DEFINE Stable == \A b \in BlockNumbers : blockRoot[b] # ZeroRoot => blockRoot'[b] = blockRoot[b]
<1>1. ASSUME IInv, [Next]_vars PROVE [Stable]_vars
  <2>1. ASSUME NEW b \in BlockNumbers, NEW r \in Roots, StoreMerkleRoot(b, r) PROVE Stable
    BY <1>1, <2>1 DEF IInv, TypeOK, StoreMerkleRoot
  <2>2. ASSUME blockRoot' = blockRoot PROVE Stable
    BY <2>2
  <2> QED
    BY <1>1, <2>1, <2>2
       DEF Next, StopOnConflict, ProcessTransfer, ProcessUpdate, ProcessForeign, RequestBridging,
           UpgradeByAdmin, ChangeAdminByAdmin, relayerVars
<1> QED
  BY Invariance, <1>1, PTL DEF Spec, RootNeverReplaced

\* The emergency stop shuts the direction from Gear for good.
THEOREM EmergencyStopIsFinal == Spec => StopIsFinal
<1>1. ASSUME [Next]_vars
      PROVE  [emergencyStop =>
                 /\ UNCHANGED <<relayerVars, processed, governance, delivered>>
                 /\ proxyAdmin = Updater => UNCHANGED <<proxyAdmin, implementation>>]_vars
  BY <1>1 DEF Next, StoreMerkleRoot, StopOnConflict, ProcessTransfer, ProcessUpdate,
              ProcessForeign, Accept, ProvenInBlock, RequestBridging, UpgradeByAdmin,
              ChangeAdminByAdmin, proxyVars
<1> QED
  BY <1>1, PTL DEF Spec, StopIsFinal

\* The proxy is changed by the governance through a delivered message while
\* ProxyUpdater is its admin, and by nothing but its admin's calls afterwards.
THEOREM ProxyObeysItsAdmin == Spec => ProxyFollowsItsAdmin
<1> DEFINE Same == UNCHANGED <<proxyAdmin, implementation>>
           ByMessage ==
             /\ proxyAdmin = Updater
             /\ ~emergencyStop
             /\ \E m \in delivered' \ delivered :
                   /\ m.receiver = "ProxyUpdater" /\ m.sender = governance
                   /\ \E b \in BlockNumbers :
                         PublicInputs(b, blockRoot[b]) \in Provable /\ m \in Leaves[blockRoot[b]]
                   /\ Obeyed(m)
           ByAdmin ==
             /\ proxyAdmin # Updater
             /\ UNCHANGED <<relayerVars, processed, tokenVars, governance, delivered>>
<1>1. ASSUME IInv, [Next]_vars PROVE [Same \/ ByMessage \/ ByAdmin]_vars
  <2>1. ASSUME NEW b \in BlockNumbers, NEW m \in Messages, ProcessUpdate(b, m), ~Same
        PROVE  ByMessage
    <3>1. m \in delivered' \ delivered
      BY <1>1, <2>1 DEF IInv, NoncesMatch, ProcessUpdate, Accept
    <3>2. /\ ~emergencyStop
          /\ PublicInputs(b, blockRoot[b]) \in Provable
          /\ m \in Leaves[blockRoot[b]]
      BY <1>1, <2>1 DEF IInv, RootsAreProven, ProcessUpdate, Accept, ProvenInBlock
    <3>3. proxyAdmin = Updater /\ Obeyed(m)
      BY <2>1 DEF ProcessUpdate, UpdateProxy, Obeyed
    <3> QED
      BY <2>1, <3>1, <3>2, <3>3 DEF ProcessUpdate
  <2>2. ASSUME NEW x, UpgradeByAdmin(x) \/ ChangeAdminByAdmin(x) PROVE ByAdmin
    BY <2>2 DEF UpgradeByAdmin, ChangeAdminByAdmin
  <2>3. ASSUME NEW b \in BlockNumbers, NEW r \in Roots, StoreMerkleRoot(b, r) \/ StopOnConflict(b, r)
        PROVE  Same
    BY <2>3 DEF StoreMerkleRoot, StopOnConflict, proxyVars
  <2>4. ASSUME NEW b \in BlockNumbers, NEW m \in Messages, ProcessTransfer(b, m) \/ ProcessForeign(b, m)
        PROVE  Same
    BY <2>4 DEF ProcessTransfer, ProcessForeign, proxyVars
  <2>5. ASSUME NEW t \in Tokens, NEW a \in Amounts, RequestBridging(t, a) PROVE Same
    BY <2>5 DEF RequestBridging, proxyVars
  <2> HIDE DEF Same, ByMessage, ByAdmin
  <2> QED
    BY <1>1, <2>1, <2>2, <2>3, <2>4, <2>5 DEF Next
<1> QED
  BY Invariance, <1>1, PTL DEF Spec, ProxyFollowsItsAdmin

--------------------------------------------------------------------------------
(****************************************************************************)
(* The ledger.  What delivered messages carried is a sum over a set, so the  *)
(* proof needs that the sum does not depend on the order in which the set is *)
(* taken apart.  A token that nobody touched yet also has no requests and no *)
(* transfers, or the first of them would not find its balances in order.     *)
(****************************************************************************)
\* A token's part of the ledger, with what was paid for it as a parameter.
LedgerOf(t, paid) ==
    /\ tokenSupplyType[t] = "Unknown" => /\ locked[t] = 0 /\ held[t] = Held0[t]
                                         /\ requested[t] = 0 /\ paid = 0
    /\ tokenSupplyType[t] = "Ethereum" => /\ locked[t] + paid = requested[t]
                                          /\ held[t] + locked[t] = Held0[t]
    /\ tokenSupplyType[t] = "Gear" => /\ held[t] + requested[t] = Held0[t] + paid
                                      /\ locked[t] = 0

LedgerTypes ==
    /\ held \in [Tokens -> Nat]
    /\ locked \in [Tokens -> Nat]
    /\ requested \in [Tokens -> Nat]
    /\ tokenSupplyType \in [Tokens -> {"Unknown", "Ethereum", "Gear"}]
    /\ IsFiniteSet(delivered)

LedgerInv == LedgerTypes /\ \A t \in Tokens : LedgerOf(t, Paid(t))

\* A set of naturals has a least element.
LEMMA LeastNatural ==
    ASSUME NEW S, S \subseteq Nat, S # {}
    PROVE  \E n \in S : \A m \in S : n <= m
<1> DEFINE R == OpToRel(<, Nat)
<1>1. R = {p \in Nat \X Nat : p[1] < p[2]}
  BY DEF OpToRel
<1>2. IsWellFoundedOn(R, Nat)
  BY NatLessThanWellFounded
<1> HIDE DEF R
<1>3. PICK n \in S : \A m \in S : <<m, n>> \notin R
  BY <1>2, WFMin
<1>4. \A a, b \in Nat : a < b => <<a, b>> \in R
  BY <1>1
<1>5. ASSUME NEW m \in S PROVE n <= m
  <2>1. m \in Nat /\ n \in Nat /\ <<m, n>> \notin R
    BY <1>3
  <2>2. ~(m < n)
    BY <1>4, <2>1
  <2> QED
    BY <2>1, <2>2
<1> QED
  BY <1>5

\* One step of the fold that Total is.
Chosen(s) == CHOOSE m \in s : TRUE
SumStep(g, s) == IF s = {} THEN 0 ELSE Chosen(s).amount + g[s \ {Chosen(s)}]

LEMMA ChosenOf ==
    ASSUME NEW s, IsFiniteSet(s), s # {}
    PROVE  /\ Chosen(s) \in s
           /\ IsFiniteSet(s \ {Chosen(s)})
           /\ Cardinality(s) \in Nat \ {0}
           /\ Cardinality(s \ {Chosen(s)}) = Cardinality(s) - 1
<1>1. Chosen(s) \in s
  BY DEF Chosen
<1> QED
  BY <1>1, FS_RemoveElement, FS_CardinalityType, FS_EmptySet

LEMMA SumExists ==
    ASSUME NEW S, IsFiniteSet(S)
    PROVE  \E g : g = [s \in SUBSET S |-> SumStep(g, s)]
<1> DEFINE D(n) == {s \in SUBSET S : Cardinality(s) <= n}
           Missing == {n \in Nat : ~ \E g : g = [s \in D(n) |-> SumStep(g, s)]}
<1>1. \A s \in SUBSET S : IsFiniteSet(s) /\ Cardinality(s) \in Nat /\ (Cardinality(s) = 0 <=> s = {})
  BY FS_Subset, FS_CardinalityType, FS_EmptySet
<1>2. Missing = {}
  <2> SUFFICES ASSUME Missing # {} PROVE FALSE
    OBVIOUS
  <2>1. PICK n \in Missing : \A m \in Missing : n <= m
    BY LeastNatural
  <2>2. CASE n = 0
    <3> DEFINE g == [s \in D(n) |-> 0]
    <3>1. \A s \in D(n) : s = {}
      BY <1>1, <2>2
    <3>2. g = [s \in D(n) |-> SumStep(g, s)]
      BY <3>1 DEF SumStep
    <3> QED
      BY <2>1, <3>2
  <2>3. CASE n # 0
    <3>1. n - 1 \in Nat /\ n - 1 \notin Missing
      <4>1. Missing \subseteq Nat
        OBVIOUS
      <4> HIDE DEF Missing
      <4> QED
        BY <2>1, <2>3, <4>1
    <3>2. PICK g : g = [s \in D(n - 1) |-> SumStep(g, s)]
      BY <3>1
    <3> DEFINE f == [s \in D(n) |-> SumStep(g, s)]
    <3>3. ASSUME NEW s \in D(n), s # {} PROVE f[s \ {Chosen(s)}] = g[s \ {Chosen(s)}]
      <4>1. s \ {Chosen(s)} \in D(n - 1) /\ s \ {Chosen(s)} \in D(n)
        BY <1>1, <2>1, <3>3, ChosenOf
      <4> HIDE DEF D
      <4> QED
        BY <3>2, <4>1
    <3>4. \A s \in D(n) : SumStep(g, s) = SumStep(f, s)
      <4> HIDE DEF f, D
      <4> QED
        BY <3>3 DEF SumStep
    <3>5. f = [s \in D(n) |-> SumStep(f, s)]
      BY <3>4
    <3> QED
      BY <2>1, <3>5
  <2> QED
    BY <2>2, <2>3
<1>3. D(Cardinality(S)) = SUBSET S /\ Cardinality(S) \in Nat
  BY <1>1, FS_Subset
<1>4. \E g : g = [s \in D(Cardinality(S)) |-> SumStep(g, s)]
  BY <1>2, <1>3
<1> QED
  BY <1>3, <1>4

\* Two folds agree on the sets that both are defined for.
LEMMA SumUnique ==
    ASSUME NEW S, IsFiniteSet(S), NEW f, NEW g,
           \A s \in SUBSET S : f[s] = SumStep(f, s),
           \A s \in SUBSET S : g[s] = SumStep(g, s)
    PROVE  f[S] = g[S]
<1> DEFINE Off == {n \in Nat : \E s \in SUBSET S : Cardinality(s) = n /\ f[s] # g[s]}
<1>1. \A s \in SUBSET S : IsFiniteSet(s) /\ Cardinality(s) \in Nat
  BY FS_Subset, FS_CardinalityType
<1>2. Off = {}
  <2> SUFFICES ASSUME Off # {} PROVE FALSE
    OBVIOUS
  <2>1. PICK n \in Off : \A m \in Off : n <= m
    BY LeastNatural
  <2>2. PICK s \in SUBSET S : Cardinality(s) = n /\ f[s] # g[s]
    BY <2>1
  <2>3. s # {}
    BY <2>2 DEF SumStep
  <2> DEFINE r == s \ {Chosen(s)}
  <2>4. r \in SUBSET S /\ Cardinality(r) = n - 1 /\ n \in Nat /\ n # 0
    BY <1>1, <2>2, <2>3, ChosenOf
  <2>5. n - 1 \in Nat /\ n - 1 \notin Off
    <3> HIDE DEF Off, r
    <3> QED
      BY <2>1, <2>4
  <2>6. f[r] = g[r]
    BY <2>4, <2>5
  <2> QED
    BY <2>2, <2>3, <2>6 DEF SumStep
<1> QED
  BY <1>1, <1>2

LEMMA TotalUnfolds ==
    ASSUME NEW S, IsFiniteSet(S)
    PROVE  Total(S) = IF S = {} THEN 0 ELSE Chosen(S).amount + Total(S \ {Chosen(S)})
<1> DEFINE fold(T) == CHOOSE g : g = [s \in SUBSET T |-> SumStep(g, s)]
<1>1. \A T : Total(T) = fold(T)[T]
  BY DEF Total, MapThenSumSet, MapThenFoldSet, SumStep, Chosen
<1>2. ASSUME NEW T, IsFiniteSet(T) PROVE \A s \in SUBSET T : fold(T)[s] = SumStep(fold(T), s)
  <2>1. fold(T) = [s \in SUBSET T |-> SumStep(fold(T), s)]
    BY <1>2, SumExists
  <2> HIDE DEF fold
  <2> QED
    BY <2>1
<1> HIDE DEF fold
<1>3. CASE S = {}
  BY <1>1, <1>2, <1>3 DEF SumStep
<1>4. CASE S # {}
  <2> DEFINE r == S \ {Chosen(S)}
  <2>1. IsFiniteSet(r) /\ r \in SUBSET S
    BY <1>4, ChosenOf
  <2>2. fold(r)[r] = fold(S)[r]
    BY <1>2, <2>1, SumUnique
  <2>3. fold(S)[S] = Chosen(S).amount + fold(S)[r]
    BY <1>2, <1>4 DEF SumStep
  <2> QED
    BY <1>1, <1>4, <2>2, <2>3
<1> QED
  BY <1>3, <1>4

\* A sum of naturals is one, and any element can be taken out of it.
LEMMA TotalOf ==
    ASSUME NEW S, IsFiniteSet(S), \A m \in S : m.amount \in Nat
    PROVE  /\ Total(S) \in Nat
           /\ \A m \in S : Total(S) = m.amount + Total(S \ {m})
<1> DEFINE Good(s) == /\ Total(s) \in Nat
                      /\ \A m \in s : Total(s) = m.amount + Total(s \ {m})
           Off == {n \in Nat : \E s \in SUBSET S : Cardinality(s) = n /\ ~Good(s)}
<1>1. \A s \in SUBSET S : IsFiniteSet(s) /\ Cardinality(s) \in Nat /\ (Cardinality(s) = 0 <=> s = {})
  BY FS_Subset, FS_CardinalityType, FS_EmptySet
<1>2. Off = {}
  <2> SUFFICES ASSUME Off # {} PROVE FALSE
    OBVIOUS
  <2>1. PICK n \in Off : \A m \in Off : n <= m
    BY LeastNatural
  <2>2. PICK s \in SUBSET S : Cardinality(s) = n /\ ~Good(s)
    BY <2>1
  <2>3. s # {}
    BY <1>1, <2>2, TotalUnfolds
  <2>4. ASSUME NEW r \in SUBSET s, r # s PROVE Good(r)
    <3>1. r \in SUBSET S /\ Cardinality(r) \in Nat /\ Cardinality(r) < n /\ n \in Nat
      BY <1>1, <2>2, <2>4, FS_Subset
    <3>2. Cardinality(r) \notin Off
      <4> HIDE DEF Off
      <4> QED
        BY <2>1, <3>1
    <3> QED
      BY <3>1, <3>2
  <2> DEFINE c == Chosen(s)
  <2>5. c \in s /\ c.amount \in Nat /\ Total(s) = c.amount + Total(s \ {c})
    BY <1>1, <2>3, ChosenOf, TotalUnfolds
  <2> HIDE DEF c
  <2>6. Total(s) \in Nat
    BY <2>4, <2>5
  <2>7. ASSUME NEW m \in s, m # c PROVE Total(s) = m.amount + Total(s \ {m})
    <3> DEFINE r == (s \ {c}) \ {m}
    <3>1. Good(r) /\ Good(s \ {c}) /\ Good(s \ {m})
      BY <2>4, <2>5
    <3>2. r = (s \ {m}) \ {c} /\ c \in s \ {m} /\ m \in s \ {c} /\ m.amount \in Nat
      BY <2>5, <2>7
    <3>3. /\ Total(r) \in Nat
          /\ Total(s \ {c}) = m.amount + Total(r)
          /\ Total(s \ {m}) = c.amount + Total(r)
      BY <3>1, <3>2
    <3> HIDE DEF r, Off
    <3> QED
      BY <2>5, <3>2, <3>3
  <2> QED
    BY <2>2, <2>5, <2>6, <2>7
<1>3. Cardinality(S) \in Nat
  BY <1>1
<1> QED
  BY <1>2, <1>3

\* The sum over a token's transfers is a natural number.
LEMMA PaidType ==
    ASSUME TypeOK, IsFiniteSet(delivered), NEW t \in Tokens
    PROVE  Paid(t) \in Nat
<1>1. IsFiniteSet(Transfers(t)) /\ \A m \in Transfers(t) : m.amount \in Nat
  BY FS_Subset, TokensAssumption DEF Transfers, TypeOK
<1> QED
  BY <1>1, TotalOf DEF Paid

\* Delivering a transfer adds its amount to what its token was paid.
LEMMA PaidStep ==
    ASSUME IInv, IsFiniteSet(delivered), NEW b, NEW m \in Messages, Accept(b, m), NEW t \in Tokens
    PROVE  /\ IsFiniteSet(delivered')
           /\ m.receiver = "ERC20Manager" /\ m.target = t => Paid(t)' = Paid(t) + m.amount
           /\ ~(m.receiver = "ERC20Manager" /\ m.target = t) => Paid(t)' = Paid(t)
<1>1. delivered' = delivered \cup {m} /\ m \notin delivered
  BY DEF Accept, IInv, NoncesMatch
<1>2. IsFiniteSet(delivered') /\ delivered' \subseteq Messages
  BY <1>1, FS_AddElement DEF IInv, TypeOK
<1>3. ASSUME m.receiver = "ERC20Manager", m.target = t PROVE Paid(t)' = Paid(t) + m.amount
  <2>1. m \in Transfers(t)' /\ Transfers(t) = Transfers(t)' \ {m}
    BY <1>1, <1>3 DEF Transfers
  <2>2. IsFiniteSet(Transfers(t)') /\ \A n \in Transfers(t)' : n.amount \in Nat
    BY <1>2, FS_Subset, TokensAssumption DEF Transfers
  <2>3. PICK new : new = Transfers(t)'
    OBVIOUS
  <2>4. Total(new) = m.amount + Total(new \ {m})
    BY <2>1, <2>2, <2>3, TotalOf
  <2>5. Paid(t) = Total(new \ {m}) /\ Paid(t)' = Total(new)
    BY <2>1, <2>3 DEF Paid
  <2>6. Paid(t) \in Nat /\ m.amount \in Nat
    BY <1>3, PaidType, TokensAssumption DEF IInv
  <2> QED
    BY <2>4, <2>5, <2>6
<1>4. ASSUME ~(m.receiver = "ERC20Manager" /\ m.target = t) PROVE Paid(t)' = Paid(t)
  <2>1. Transfers(t)' = Transfers(t)
    BY <1>1, <1>4 DEF Transfers
  <2> QED
    BY <2>1 DEF Paid
<1> QED
  BY <1>2, <1>3, <1>4

\* A release keeps the balances of its token in order when the sum of what was
\* paid grows by the same amount.
LEMMA ReleaseStep ==
    ASSUME LedgerTypes, NEW t \in Tokens, NEW a \in Nat, ReleaseTokens(t, a), UNCHANGED requested,
           NEW paid \in [Tokens -> Nat], \A u \in Tokens : LedgerOf(u, paid[u]),
           IsFiniteSet(delivered')
    PROVE  /\ LedgerTypes'
           /\ \A u \in Tokens : (LedgerOf(u, IF u = t THEN paid[u] + a ELSE paid[u]))'
<1>1. Held0 \in [Tokens -> Nat]
  BY TokensAssumption
<1>2. CASE tokenSupplyType[t] = "Ethereum"
  <2>1. /\ locked[t] >= a
        /\ locked' = [locked EXCEPT ![t] = @ - a]
        /\ held' = [held EXCEPT ![t] = @ + a]
        /\ tokenSupplyType' = tokenSupplyType
    BY <1>2 DEF ReleaseTokens
  <2>2. LedgerTypes'
    BY <2>1 DEF LedgerTypes
  <2> QED
    BY <1>1, <1>2, <2>1, <2>2 DEF LedgerTypes, LedgerOf
<1>3. CASE tokenSupplyType[t] # "Ethereum"
  <2>1. /\ tokenSupplyType' = [tokenSupplyType EXCEPT ![t] = "Gear"]
        /\ held' = [held EXCEPT ![t] = @ + a]
        /\ locked' = locked
    BY <1>3 DEF ReleaseTokens
  <2>2. LedgerTypes'
    BY <2>1 DEF LedgerTypes
  <2> QED
    BY <1>1, <1>3, <2>1, <2>2 DEF LedgerTypes, LedgerOf
<1> QED
  BY <1>2, <1>3

LEMMA RequestStep ==
    ASSUME LedgerInv, IInv, NEW t \in Tokens, NEW a \in Amounts, RequestBridging(t, a)
    PROVE  LedgerInv'
<1>1. Held0 \in [Tokens -> Nat] /\ a \in Nat
  BY TokensAssumption
<1>2. \A u \in Tokens : Paid(u)' = Paid(u) /\ Paid(u) \in Nat
  BY PaidType DEF RequestBridging, Paid, Transfers, LedgerInv, LedgerTypes, IInv
<1>3. /\ held[t] >= a
      /\ held' = [held EXCEPT ![t] = @ - a]
      /\ requested' = [requested EXCEPT ![t] = @ + a]
      /\ delivered' = delivered
      /\ tokenSupplyType[t] = "Gear" => UNCHANGED <<locked, tokenSupplyType>>
      /\ tokenSupplyType[t] # "Gear" => /\ tokenSupplyType' = [tokenSupplyType EXCEPT ![t] = "Ethereum"]
                                        /\ locked' = [locked EXCEPT ![t] = @ + a]
  BY DEF RequestBridging
<1>4. LedgerTypes'
  BY <1>1, <1>3 DEF LedgerInv, LedgerTypes
<1>5. ASSUME NEW u \in Tokens PROVE LedgerOf(u, Paid(u))'
  <2>1. PICK paid \in Nat : paid = Paid(u) /\ paid = Paid(u)'
    BY <1>2
  <2>2. LedgerOf(u, paid)
    BY <2>1 DEF LedgerInv
  <2>3. LedgerTypes
    BY DEF LedgerInv
  <2>4. LedgerOf(u, paid)'
    <3>1. CASE u # t
      BY <1>3, <2>2, <2>3, <3>1 DEF LedgerTypes, LedgerOf
    <3>2. CASE u = t /\ tokenSupplyType[t] = "Gear"
      BY <1>1, <1>3, <2>2, <2>3, <3>2 DEF LedgerTypes, LedgerOf
    <3>3. CASE u = t /\ tokenSupplyType[t] # "Gear"
      BY <1>1, <1>3, <2>2, <2>3, <3>3 DEF LedgerTypes, LedgerOf
    <3> QED
      BY <3>1, <3>2, <3>3
  <2> QED
    BY <2>1, <2>4 DEF LedgerOf
<1> QED
  BY <1>4, <1>5 DEF LedgerInv

LEMMA TransferStep ==
    ASSUME LedgerInv, IInv, NEW b \in BlockNumbers, NEW m \in Messages, ProcessTransfer(b, m)
    PROVE  LedgerInv'
<1> DEFINE t == m.target
<1>1. t \in Tokens /\ m.amount \in Nat
  BY TokensAssumption DEF ProcessTransfer
<1>2. PICK paid \in [Tokens -> Nat] : \A u \in Tokens : paid[u] = Paid(u)
  <2> DEFINE f == [u \in Tokens |-> Paid(u)]
  <2>1. f \in [Tokens -> Nat] /\ \A u \in Tokens : f[u] = Paid(u)
    BY PaidType DEF LedgerInv, LedgerTypes, IInv
  <2> QED
    BY <2>1
<1>3. /\ IsFiniteSet(delivered')
      /\ \A u \in Tokens : Paid(u)' = IF u = t THEN paid[u] + m.amount ELSE paid[u]
  BY <1>1, <1>2, PaidStep DEF ProcessTransfer, LedgerInv, LedgerTypes
<1>4. \A u \in Tokens : LedgerOf(u, paid[u])
  BY <1>2 DEF LedgerInv
<1>5. LedgerTypes' /\ \A u \in Tokens : (LedgerOf(u, IF u = t THEN paid[u] + m.amount ELSE paid[u]))'
  BY <1>1, <1>3, <1>4, ReleaseStep DEF ProcessTransfer, LedgerInv
<1> QED
  BY <1>3, <1>5 DEF LedgerInv, LedgerOf

\* Steps that release and lock nothing.
LEMMA NoTokenStep ==
    ASSUME LedgerInv, IInv, UNCHANGED tokenVars,
           \/ UNCHANGED delivered
           \/ \E b \in BlockNumbers, m \in Messages : Accept(b, m) /\ m.receiver # "ERC20Manager"
    PROVE  LedgerInv'
<1>1. IsFiniteSet(delivered') /\ \A u \in Tokens : Paid(u)' = Paid(u)
  <2>1. CASE UNCHANGED delivered
    BY <2>1 DEF Paid, Transfers, LedgerInv, LedgerTypes
  <2>2. ASSUME NEW b, NEW m \in Messages, Accept(b, m), m.receiver # "ERC20Manager"
        PROVE  IsFiniteSet(delivered') /\ \A u \in Tokens : Paid(u)' = Paid(u)
    <3>1. IsFiniteSet(delivered')
      BY <2>2, FS_AddElement DEF Accept, LedgerInv, LedgerTypes
    <3> QED
      BY <2>2, <3>1, PaidStep DEF LedgerInv, LedgerTypes
  <2> QED
    BY <2>1, <2>2
<1>2. LedgerTypes'
  BY <1>1 DEF LedgerInv, LedgerTypes, tokenVars
<1> QED
  BY <1>1, <1>2 DEF LedgerInv, LedgerOf, tokenVars

\* Whatever is sent to Gear and delivered from there, the balances add up.
THEOREM LedgerAddsUp == Spec => []LedgerMatchesEvents
<1>1. Init => LedgerInv
  <2> SUFFICES ASSUME Init PROVE LedgerInv
    OBVIOUS
  <2>1. LedgerTypes
    BY TokensAssumption, FS_EmptySet DEF Init, LedgerTypes
  <2>2. Total({}) = 0
    BY TotalUnfolds, FS_EmptySet
  <2>3. \A t \in Tokens : Paid(t) = 0
    <3>1. \A t \in Tokens : Transfers(t) = {}
      BY DEF Init, Transfers
    <3> QED
      BY <2>2, <3>1 DEF Paid
  <2> QED
    BY <2>1, <2>3 DEF Init, LedgerInv, LedgerOf
<1>2. ASSUME LedgerInv, IInv, [Next]_vars PROVE LedgerInv'
  <2>1. ASSUME NEW b \in BlockNumbers, NEW r \in Roots, StoreMerkleRoot(b, r) \/ StopOnConflict(b, r)
        PROVE  LedgerInv'
    BY <1>2, <2>1, NoTokenStep DEF StoreMerkleRoot, StopOnConflict
  <2>2. ASSUME NEW b \in BlockNumbers, NEW m \in Messages, ProcessUpdate(b, m) \/ ProcessForeign(b, m)
        PROVE  LedgerInv'
    <3>1. Accept(b, m) /\ m.receiver # "ERC20Manager" /\ UNCHANGED tokenVars
      BY <2>2 DEF ProcessUpdate, ProcessForeign
    <3> QED
      BY <1>2, <3>1, NoTokenStep
  <2>3. ASSUME NEW x, UpgradeByAdmin(x) \/ ChangeAdminByAdmin(x)
        PROVE  LedgerInv'
    BY <1>2, <2>3, NoTokenStep DEF UpgradeByAdmin, ChangeAdminByAdmin
  <2>4. CASE UNCHANGED vars
    BY <1>2, <2>4, NoTokenStep DEF vars
  <2> QED
    BY <1>2, <2>1, <2>2, <2>3, <2>4, RequestStep, TransferStep DEF Next
<1>3. LedgerInv => LedgerMatchesEvents
  BY DEF LedgerInv, LedgerTypes, LedgerOf, LedgerMatchesEvents
<1> QED
  BY <1>1, <1>2, <1>3, Invariance, PTL DEF Spec
================================================================================
