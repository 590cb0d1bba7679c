----------------------------- MODULE ServicesProofs ----------------------------
(****************************************************************************)
(* Proofs about the services that do not share state: the receipts and the   *)
(* administration of the vft-manager, the searches of the Gear client, the   *)
(* kill switch relayer, the historical proxy and the proof storage.          *)
(****************************************************************************)
EXTENDS SubmitReceipt, KillSwitch, ProofStorage, VftManagerAdmin, HistoricalProxy,
        GearClient, FiniteSetTheorems, WellFoundedInduction, TLAPS

--------------------------------------------------------------------------------
(****************************************************************************)
(* vft-manager: the receipts, for any set of them, any number of submissions *)
(* and any TX_HISTORY_DEPTH.                                                 *)
(****************************************************************************)
\* A non-empty set of naturals has a first element, and Min is it.
LEMMA MinProperty ==
    ASSUME NEW S \in SUBSET Nat, S # {}
    PROVE  Min(S) \in S /\ \A y \in S : Min(S) <= y
<1> DEFINE R == {ss \in Nat \X Nat : ss[1] < ss[2]}
<1>1. IsWellFoundedOn(R, Nat)
  BY NatLessThanWellFounded DEF OpToRel
<1> HIDE DEF R
<1>2. PICK x \in S : \A y \in S : <<y, x>> \notin R
  BY <1>1, WFMin
<1>3. \A y \in S : x <= y
  <2> SUFFICES ASSUME NEW y \in S PROVE x <= y
    OBVIOUS
  <2>1. x \in Nat /\ y \in Nat
    OBVIOUS
  <2>2. ~(y < x)
    BY <1>2, <2>1 DEF R
  <2> QED
    BY <2>1, <2>2
<1> QED
  BY <1>3 DEF Min

\* What submit_receipt refuses, without Min.
LEMMA RefusedMeaning ==
    ASSUME TypeOK, NEW k \in Keys
    PROVE  Rejected(k) <=> \/ k \in transactions
                          \/ /\ Cardinality(transactions) >= TX_HISTORY_DEPTH
                             /\ \A x \in transactions : k < x
<1>1. Cardinality(transactions) >= TX_HISTORY_DEPTH => transactions # {}
  BY FS_EmptySet, DepthAssumption DEF TypeOK
<1>2. transactions \in SUBSET Nat /\ k \in Nat
  BY KeysAssumption DEF TypeOK
<1>3. ASSUME transactions # {}
      PROVE  k < Min(transactions) <=> \A x \in transactions : k < x
  <2> DEFINE first == Min(transactions)
  <2>1. first \in transactions /\ \A y \in transactions : first <= y
    BY <1>2, <1>3, MinProperty
  <2> HIDE DEF first
  <2>2. k < first <=> \A x \in transactions : k < x
    <3>1. ASSUME k < first, NEW x \in transactions PROVE k < x
      BY <1>2, <2>1, <3>1
    <3> QED
      BY <2>1, <3>1
  <2> QED
    BY <2>2 DEF first
<1> QED
  BY <1>1, <1>3 DEF Rejected, TooOld

\* What the reply hook leaves in the set.
LEMMA RecordProperty ==
    ASSUME TypeOK, HistoryBounded, NEW k \in Keys
    PROVE  /\ Record(k) \subseteq Keys
           /\ IsFiniteSet(Record(k))
           /\ Cardinality(Record(k)) <= TX_HISTORY_DEPTH
           /\ k \in Record(k)
           /\ Record(k) \subseteq transactions \cup {k}
<1> DEFINE S == IF TX_HISTORY_DEPTH <= Cardinality(transactions)
                  THEN transactions \ {Min(transactions)} ELSE transactions
<1>1. Cardinality(transactions) \in Nat /\ TX_HISTORY_DEPTH \in Nat \ {0}
  BY FS_CardinalityType, DepthAssumption DEF TypeOK
<1>2. IsFiniteSet(S) /\ Cardinality(S) \in Nat /\ Cardinality(S) < TX_HISTORY_DEPTH
  <2>1. CASE TX_HISTORY_DEPTH <= Cardinality(transactions)
    <3>1. transactions # {} /\ transactions \in SUBSET Nat
      BY <1>1, <2>1, FS_EmptySet, KeysAssumption DEF TypeOK
    <3>2. Min(transactions) \in transactions
      BY <3>1, MinProperty
    <3>3. IsFiniteSet(S) /\ Cardinality(S) = Cardinality(transactions) - 1
      BY <2>1, <3>2, FS_RemoveElement DEF TypeOK
    <3> QED
      BY <1>1, <3>3 DEF HistoryBounded
  <2>2. CASE ~(TX_HISTORY_DEPTH <= Cardinality(transactions))
    BY <1>1, <2>2 DEF TypeOK
  <2> QED
    BY <2>1, <2>2
<1>3. Record(k) = S \cup {k}
  BY DEF Record
<1>4. S \subseteq transactions
  OBVIOUS
<1> HIDE DEF S
<1>5. IsFiniteSet(S \cup {k}) /\ Cardinality(S \cup {k}) <= TX_HISTORY_DEPTH
  <2>1. /\ IsFiniteSet(S \cup {k})
        /\ Cardinality(S \cup {k}) = IF k \in S THEN Cardinality(S) ELSE Cardinality(S) + 1
    BY <1>2, FS_AddElement
  <2> QED
    BY <1>1, <1>2, <2>1
<1> QED
  BY <1>3, <1>4, <1>5 DEF TypeOK

\* Recording a transaction that was not refused keeps every refusal.
LEMMA RecordKeepsRefusals ==
    ASSUME TypeOK, HistoryBounded, NEW k \in Keys, ~Rejected(k), transactions' = Record(k),
           TypeOK', NEW j \in Keys, Rejected(j) \/ j = k
    PROVE  Rejected(j)'
<1>1. Cardinality(transactions) \in Nat /\ TX_HISTORY_DEPTH \in Nat \ {0}
  BY FS_CardinalityType, DepthAssumption DEF TypeOK
<1>2. transactions \in SUBSET Nat /\ k \in Nat /\ j \in Nat
  BY KeysAssumption DEF TypeOK
<1>3. CASE ~(TX_HISTORY_DEPTH <= Cardinality(transactions))
  <2>1. transactions' = transactions \cup {k}
    BY <1>3 DEF Record
  <2>2. j \in transactions \/ j = k
    BY <1>1, <1>3, RefusedMeaning
  <2> QED
    BY <2>1, <2>2 DEF Rejected
<1>4. CASE TX_HISTORY_DEPTH <= Cardinality(transactions)
  <2> DEFINE first == Min(transactions)
  <2>1. first \in transactions /\ \A y \in transactions : first <= y
    <3>1. transactions # {}
      BY <1>1, <1>4, FS_EmptySet DEF TypeOK
    <3> QED
      BY <1>2, <3>1, MinProperty
  <2>2. transactions' = (transactions \ {first}) \cup {k}
    BY <1>4 DEF Record
  <2> HIDE DEF first
  <2>3. k \notin transactions /\ first < k
    <3>1. k \notin transactions /\ ~(\A x \in transactions : k < x)
      BY <1>1, <1>4, RefusedMeaning
    <3> QED
      BY <1>2, <2>1, <3>1
  <2>4. Cardinality(transactions') = Cardinality(transactions)
    <3>1. /\ IsFiniteSet(transactions \ {first})
          /\ Cardinality(transactions \ {first}) = Cardinality(transactions) - 1
      BY <2>1, FS_RemoveElement DEF TypeOK
    <3>2. k \notin transactions \ {first}
      BY <2>3
    <3>3. Cardinality(transactions') = Cardinality(transactions) - 1 + 1
      BY <2>2, <3>1, <3>2, FS_AddElement
    <3> QED
      BY <1>1, <3>3
  <2>5. j \in transactions' \/ \A x \in transactions' : j < x
    <3>1. j \in transactions \/ j = k \/ \A x \in transactions : j < x
      BY RefusedMeaning
    <3>2. CASE j = k \/ j \in transactions \ {first}
      BY <2>2, <3>2
    <3>3. CASE j = first
      BY <1>2, <2>1, <2>2, <2>3, <3>3
    <3>4. CASE \A x \in transactions : j < x
      BY <1>2, <2>1, <2>2, <2>3, <3>4
    <3> QED
      BY <3>1, <3>2, <3>3, <3>4
  <2>6. Cardinality(transactions') >= TX_HISTORY_DEPTH
    BY <1>1, <1>4, <2>4
  <2>7. Rejected(j)' <=> \/ j \in transactions'
                        \/ /\ Cardinality(transactions') >= TX_HISTORY_DEPTH
                           /\ \A x \in transactions' : j < x
    <3>1. transactions' # {} /\ transactions' \in SUBSET Nat
      BY <2>2, <1>2
    <3>2. Min(transactions') \in transactions'
          /\ \A y \in transactions' : Min(transactions') <= y
      BY <3>1, MinProperty
    <3> QED
      BY <1>2, <3>1, <3>2 DEF Rejected, TooOld
  <2> QED
    BY <2>5, <2>6, <2>7
<1> QED
  BY <1>3, <1>4

--------------------------------------------------------------------------------
\* While submissions do not race, one call is outstanding at most, its receipt is
\* not refused, and every receipt that was paid out and recorded is refused.
SerialInv ==
    ~raced =>
        /\ \A s, u \in Submissions : InFlight(s) /\ InFlight(u) => s = u
        /\ \A s \in Submissions : InFlight(s) => ~Rejected(key[s])
        /\ \A s \in Submissions : call[s] = "recorded" => Rejected(key[s])
        /\ \A s, u \in Submissions :
              call[s] = "recorded" /\ call[u] = "recorded" /\ key[s] = key[u] => s = u

ReceiptInv ==
    /\ TypeOK
    /\ HistoryBounded
    /\ \A s \in Submissions : call[s] # "none" => key[s] \in Keys
    /\ OnlyPaidAreRemembered
    /\ SerialInv

LEMMA ReceiptInitInv ==
    ASSUME ReceiptInit
    PROVE  ReceiptInv
<1>1. TypeOK
  BY FS_EmptySet DEF ReceiptInit, TypeOK, CallState
<1>2. HistoryBounded
  BY FS_EmptySet, DepthAssumption DEF ReceiptInit, HistoryBounded
<1>3. OnlyPaidAreRemembered /\ \A s \in Submissions : call[s] # "none" => key[s] \in Keys
  BY DEF ReceiptInit, OnlyPaidAreRemembered
<1>4. SerialInv
  BY DEF ReceiptInit, SerialInv, InFlight
<1> QED
  BY <1>1, <1>2, <1>3, <1>4 DEF ReceiptInv

LEMMA SubmitStep ==
    ASSUME ReceiptInv, NEW s \in Submissions, NEW k \in Keys, submit_receipt(s, k)
    PROVE  ReceiptInv'
<1>1. TypeOK' /\ HistoryBounded' /\ \A u \in Submissions : call'[u] # "none" => key'[u] \in Keys
  BY DEF ReceiptInv, TypeOK, CallState, HistoryBounded, submit_receipt
<1>2. OnlyPaidAreRemembered'
  BY DEF ReceiptInv, TypeOK, OnlyPaidAreRemembered, Payouts, submit_receipt
<1>3. \A j : Rejected(j)' <=> Rejected(j)
  BY DEF Rejected, TooOld, submit_receipt
<1>4. SerialInv'
  BY <1>3 DEF ReceiptInv, TypeOK, SerialInv, InFlight, submit_receipt
<1> QED
  BY <1>1, <1>2, <1>4 DEF ReceiptInv

LEMMA HandleReplyStep ==
    ASSUME ReceiptInv, NEW s \in Submissions, HandleReply(s)
    PROVE  /\ ReceiptInv'
           /\ ~raced => \A j \in Keys : Rejected(j) => Rejected(j)'
<1>1. key[s] \in Keys
  BY DEF ReceiptInv, HandleReply
<1>2. /\ transactions' \subseteq Keys /\ IsFiniteSet(transactions')
      /\ Cardinality(transactions') <= TX_HISTORY_DEPTH
      /\ transactions' \subseteq transactions \cup {key[s]}
  BY <1>1, RecordProperty DEF ReceiptInv, HandleReply
<1>3. TypeOK' /\ HistoryBounded' /\ \A u \in Submissions : call'[u] # "none" => key'[u] \in Keys
  BY <1>2 DEF ReceiptInv, TypeOK, CallState, HistoryBounded, HandleReply
<1>4. OnlyPaidAreRemembered'
  BY <1>2 DEF ReceiptInv, TypeOK, OnlyPaidAreRemembered, Payouts, HandleReply
<1>5. ASSUME ~raced, NEW j \in Keys, Rejected(j) \/ j = key[s]
      PROVE  Rejected(j)'
  <2>1. ~Rejected(key[s])
    BY <1>5 DEF ReceiptInv, SerialInv, InFlight, HandleReply
  <2> QED
    BY <1>1, <1>3, <1>5, <2>1, RecordKeepsRefusals DEF ReceiptInv, HandleReply
<1>6. SerialInv'
  <2> SUFFICES ASSUME ~raced
               PROVE  SerialInv'
    BY DEF SerialInv, HandleReply
  <2>1. \A u \in Submissions : ~InFlight(u)'
    BY DEF ReceiptInv, TypeOK, SerialInv, InFlight, HandleReply
  <2>2. ASSUME NEW u \in Submissions, call'[u] = "recorded"
        PROVE  Rejected(key[u])'
    BY <1>1, <1>5, <2>2 DEF ReceiptInv, TypeOK, SerialInv, HandleReply
  <2>3. ASSUME NEW u \in Submissions, call[u] = "recorded" PROVE key[u] # key[s]
    BY <2>3 DEF ReceiptInv, SerialInv, InFlight, HandleReply
  <2> QED
    BY <2>1, <2>2, <2>3 DEF ReceiptInv, TypeOK, SerialInv, HandleReply
<1> QED
  BY <1>3, <1>4, <1>5, <1>6 DEF ReceiptInv

\* The other steps leave the set and the keys alone.
LEMMA ReceiptQuietStep ==
    ASSUME ReceiptInv,
           \/ \E s \in Submissions : VftPayout(s) \/ HandleReplyPanics(s)
           \/ pause \/ unpause \/ UNCHANGED receiptVars
    PROVE  ReceiptInv'
<1>1. UNCHANGED <<transactions, key, raced>> /\ is_paused' \in BOOLEAN
  BY DEF ReceiptInv, TypeOK, VftPayout, HandleReplyPanics, pause, unpause, receiptVars
<1>2. /\ call' \in [Submissions -> CallState]
      /\ \A u \in Submissions :
            /\ call[u] = "none" <=> call'[u] = "none"
            /\ call[u] \in {"yes", "recorded"} => call'[u] \in {"yes", "recorded"}
            /\ call[u] = "recorded" <=> call'[u] = "recorded"
            /\ call'[u] \in {"sent", "yes", "fail"} => call[u] \in {"sent", "yes", "fail"}
  BY DEF ReceiptInv, TypeOK, CallState, VftPayout, HandleReplyPanics, pause, unpause, receiptVars
<1>3. TypeOK' /\ HistoryBounded' /\ \A u \in Submissions : call'[u] # "none" => key'[u] \in Keys
  BY <1>1, <1>2 DEF ReceiptInv, TypeOK, HistoryBounded
<1>4. OnlyPaidAreRemembered'
  BY <1>1, <1>2 DEF ReceiptInv, OnlyPaidAreRemembered, Payouts
<1>5. \A j : Rejected(j)' <=> Rejected(j)
  BY <1>1 DEF Rejected, TooOld
<1>6. SerialInv'
  BY <1>1, <1>2, <1>5 DEF ReceiptInv, SerialInv, InFlight
<1> QED
  BY <1>3, <1>4, <1>6 DEF ReceiptInv

LEMMA ReceiptInvStep ==
    ASSUME ReceiptInv, [ReceiptNext]_receiptVars
    PROVE  ReceiptInv'
BY SubmitStep, HandleReplyStep, ReceiptQuietStep DEF ReceiptNext

\* ReceiptInv is an inductive invariant.
THEOREM ReceiptInvariance == ReceiptSpec => []ReceiptInv
BY ReceiptInitInv, ReceiptInvStep, PTL DEF ReceiptSpec

\* The state of the program keeps its type.
THEOREM ReceiptTypeCorrect == ReceiptSpec => []TypeOK
<1>1. ReceiptInv => TypeOK
  BY DEF ReceiptInv
<1> QED
  BY ReceiptInvariance, <1>1, PTL

\* The set of processed transactions stays within its bound.
THEOREM HistoryStaysBounded == ReceiptSpec => []HistoryBounded
<1>1. ReceiptInv => HistoryBounded
  BY DEF ReceiptInv
<1> QED
  BY ReceiptInvariance, <1>1, PTL

\* Nothing is remembered that was not paid out.
THEOREM RememberedWerePaid == ReceiptSpec => []OnlyPaidAreRemembered
<1>1. ReceiptInv => OnlyPaidAreRemembered
  BY DEF ReceiptInv
<1> QED
  BY ReceiptInvariance, <1>1, PTL

\* Submissions that do not race are paid out once, however small the history.
THEOREM SerialSubmissionsPaidOnce == ReceiptSpec => []PaidOnceUnlessRaced
<1>1. ReceiptInv => PaidOnceUnlessRaced
  BY DEF ReceiptInv, SerialInv, InFlight, PaidOnceUnlessRaced, PaidOnce, Payouts
<1> QED
  BY ReceiptInvariance, <1>1, PTL

\* Eviction reopens no receipt while submissions do not race.
THEOREM RefusalsAreStable == ReceiptSpec => RefusedStaysRefused
<1> DEFINE Stable == ~raced' => \A k \in Keys : Rejected(k) => Rejected(k)'
<1>1. ASSUME ReceiptInv, [ReceiptNext]_receiptVars PROVE [Stable]_receiptVars
  <2>1. ASSUME NEW s \in Submissions, HandleReply(s) PROVE Stable
    BY <1>1, <2>1, HandleReplyStep DEF HandleReply
  <2>2. ASSUME transactions' = transactions PROVE Stable
    BY <2>2 DEF Rejected, TooOld
  <2> QED
    BY <1>1, <2>1, <2>2 DEF ReceiptNext, submit_receipt, VftPayout, HandleReplyPanics, pause, unpause
<1> QED
  BY ReceiptInvariance, <1>1, PTL DEF ReceiptSpec, RefusedStaysRefused

--------------------------------------------------------------------------------
(****************************************************************************)
(* vft-manager: the token map.  update_vfts builds new maps while the old    *)
(* ones are in use, so both pairs have to be inverse.                        *)
(****************************************************************************)
Inverses(f, g) ==
    /\ \A x \in DOMAIN f : f[x] \in DOMAIN g /\ g[f[x]] = x
    /\ \A y \in DOMAIN g : g[y] \in DOMAIN f /\ f[g[y]] = y

UpdateRecord(u) == [map |-> u.map, left |-> u.left, v2e |-> u.v2e, e2v |-> u.e2v]

TokenInv ==
    /\ disturbed \in BOOLEAN
    /\ update \in [Requests -> {update[q] : q \in Requests}]
    /\ \A q \in Requests : update[q] # Nobody => update[q] = UpdateRecord(update[q])
    /\ ~disturbed => Inverses(varaToEth, ethToVara)
    /\ \A q \in Requests :
          ~disturbed /\ update[q] # Nobody => Inverses(update[q].v2e, update[q].e2v)

\* Adding a fresh pair keeps two maps inverse.
LEMMA InversesWith ==
    ASSUME NEW f, NEW g, NEW x, NEW y, Inverses(f, g), x \notin DOMAIN f, y \notin DOMAIN g
    PROVE  Inverses(With(f, x, y), With(g, y, x))
BY DEF Inverses, With

\* So does removing a pair.
LEMMA InversesWithout ==
    ASSUME NEW f, NEW g, NEW x \in DOMAIN f, Inverses(f, g)
    PROVE  Inverses(Without(f, x), Without(g, f[x]))
BY DEF Inverses, Without

\* Steps that touch neither the maps nor the updates, but may end an update.
LEMMA TokenQuietStep ==
    ASSUME TokenInv, UNCHANGED <<varaToEth, ethToVara, disturbed>>,
           \/ UNCHANGED update
           \/ \E q \in Requests : update' = [update EXCEPT ![q] = Nobody]
           \/ update' = [q \in Requests |-> Nobody]
    PROVE  TokenInv'
BY DEF TokenInv, UpdateRecord

LEMMA TokenInvStep ==
    ASSUME TokenInv, AdminNext \/ UNCHANGED adminVars
    PROVE  TokenInv'
<1>1. ASSUME NEW c \in Actors, NEW v \in Vfts, NEW e \in Erc20s, MapToken(c, v, e)
      PROVE  TokenInv'
  BY <1>1, InversesWith DEF MapToken, MayInsert, TokenInv, Updating, UpdateRecord
<1>2. ASSUME NEW c \in Actors, NEW v \in Vfts, RemoveToken(c, v)
      PROVE  TokenInv'
  BY <1>2, InversesWithout DEF RemoveToken, TokenInv, Updating, UpdateRecord
<1>3. ASSUME NEW c \in Actors, NEW map \in VftMaps, UpdateVfts(c, map)
      PROVE  TokenInv'
  <2>1. Inverses(<<>>, <<>>)
    BY DEF Inverses
  <2> QED
    BY <1>3, <2>1 DEF UpdateVfts, TokenInv, UpdateRecord, mapVars
<1>4. ASSUME NEW q \in Requests, NEW v \in Vfts, UpdateEntry(q, v)
      PROVE  TokenInv'
  <2> DEFINE w == VftNew(update[q].map, v)
             e == varaToEth[v]
  <2>1. update' = [update EXCEPT ![q] =
                     [map |-> update[q].map, left |-> update[q].left \ {v},
                      v2e |-> With(update[q].v2e, w, e), e2v |-> With(update[q].e2v, e, w)]]
    BY <1>4 DEF UpdateEntry, Carried
  <2>2. disturbed' = (disturbed \/ w \in DOMAIN update[q].v2e \/ e \in DOMAIN update[q].e2v)
    BY <1>4 DEF UpdateEntry
  <2>3. UNCHANGED <<varaToEth, ethToVara>> /\ update[q] # Nobody
    BY <1>4 DEF UpdateEntry, mapVars
  <2> HIDE DEF w, e
  <2>4. ~disturbed' => Inverses(With(update[q].v2e, w, e), With(update[q].e2v, e, w))
    BY <2>2, <2>3, InversesWith DEF TokenInv
  <2> QED
    BY <2>1, <2>2, <2>3, <2>4 DEF TokenInv, UpdateRecord
<1>5. ASSUME NEW q \in Requests, UpdateDone(q)
      PROVE  TokenInv'
  <2>1. CASE update[q].e2v = ethToVara
    BY <1>5, <2>1, TokenQuietStep DEF UpdateDone, mapVars
  <2>2. CASE update[q].e2v # ethToVara
    BY <1>5, <2>2 DEF UpdateDone, TokenInv, UpdateRecord
  <2> QED
    BY <2>1, <2>2
<1>6. ASSUME NEW q \in Requests, UpdatePanics(q) \/ UpgradeDone(q)
      PROVE  TokenInv'
  BY <1>6, TokenQuietStep DEF UpdatePanics, UpgradeDone, mapVars
<1>7. ASSUME NEW c \in Actors, NEW x, UpdateSetting(c, x) \/ SetAdmins(c, x) \/ Pause(c)
                                      \/ Unpause(c) \/ Upgrade(c, x)
      PROVE  TokenInv'
  BY <1>7, TokenQuietStep DEF UpdateSetting, SetAdmins, Pause, Unpause, Upgrade, mapVars
<1>8. ASSUME NEW q, NEW x, VftExits(x) \/ Deposit(x) \/ UpgradeBalance(q, x)
                    \/ UpgradeTransfer(q, x) \/ UpgradePanics(q) \/ UNCHANGED adminVars
      PROVE  TokenInv'
  BY <1>8, TokenQuietStep DEF VftExits, Deposit, UpgradeBalance, UpgradeTransfer, UpgradePanics,
     adminVars, mapVars
<1> QED
  BY <1>1, <1>2, <1>3, <1>4, <1>5, <1>6, <1>7, <1>8 DEF AdminNext

\* Tokens locked for one side are paid out by the other (TokenMap's insert,
\* remove and update_vfts), for any tokens and any replacements.
THEOREM TokenMapsStayInverse == AdminSpec => []TokenMapsAgree
<1>1. AdminInit => TokenInv
  <2>1. Inverses(<<>>, <<>>)
    BY DEF Inverses
  <2> QED
    BY <2>1 DEF AdminInit, TokenInv
<1>2. TokenInv => TokenMapsAgree
  BY DEF TokenInv, Inverses, TokenMapsAgree
<1>3. TokenInv /\ [AdminNext]_adminVars => TokenInv'
  BY TokenInvStep
<1> QED
  BY <1>1, <1>2, <1>3, PTL DEF AdminSpec

--------------------------------------------------------------------------------
(****************************************************************************)
(* vft-manager: the upgrade.  While one runs, the tokens it still has to     *)
(* move are those of the programs it has not come to and of the one whose    *)
(* transfer it awaits.                                                       *)
(****************************************************************************)
Moved(v) == v \in active => balance[v] = 0

\* What an upgrade still has to move.
ToMove(u) == u.left \cup {u.token}

UpgradeRecord(u) == [left |-> u.left, token |-> u.token]

UpgradeShape ==
    /\ balance \in [Vfts -> 0..1]
    /\ DOMAIN varaToEth \subseteq Vfts
    /\ update \in [Requests -> {update[q] : q \in Requests}]
    /\ upgrade \in [Requests -> {upgrade[q] : q \in Requests}]
    /\ \A q \in Requests : update[q] # Nobody =>
          /\ update[q] = UpdateRecord(update[q])
          /\ update[q].map \in VftMaps
          /\ DOMAIN update[q].v2e \subseteq Vfts
    /\ \A q \in Requests : upgrade[q] # Nobody =>
          /\ upgrade[q] = UpgradeRecord(upgrade[q])
          /\ upgrade[q].token \in Vfts \cup {Nobody}

UpgradePaused ==
    /\ newManager # Nobody => paused = TRUE
    /\ Upgrading \/ exited = TRUE => newManager # Nobody

UpgradeMoves ==
    \A v \in DOMAIN varaToEth \ arrived :
        /\ \A q \in Requests : upgrade[q] # Nobody => Moved(v) \/ v \in ToMove(upgrade[q])
        /\ exited = TRUE => Moved(v)

UpgradeInv == UpgradeShape /\ UpgradePaused /\ UpgradeMoves

LEMMA UpgradeInvStep ==
    ASSUME UpgradeInv, AdminNext \/ UNCHANGED adminVars
    PROVE  UpgradeInv'
<1> USE NobodyAssumption DEF UpgradeInv
<1>1. ASSUME NEW c \in Actors, NEW v \in Vfts, NEW e \in Erc20s, MapToken(c, v, e)
      PROVE  UpgradeInv'
  <2>1. UpgradeShape' /\ UpgradePaused'
    BY <1>1 DEF MapToken, With, UpgradeShape, UpgradePaused, Upgrading, roleVars, tokenVars,
       UpdateRecord, UpgradeRecord
  <2>2. UpgradeMoves'
    BY <1>1 DEF MapToken, ensure_admin, With, UpgradeMoves, Upgrading, Moved, ToMove, tokenVars
  <2> QED
    BY <2>1, <2>2
<1>2. ASSUME NEW c \in Actors, NEW v \in Vfts, RemoveToken(c, v)
      PROVE  UpgradeInv'
  BY <1>2 DEF RemoveToken, Without, UpgradeShape, UpgradePaused, UpgradeMoves, Upgrading, Moved,
     ToMove, roleVars, tokenVars, UpdateRecord, UpgradeRecord
<1>3. ASSUME NEW v \in Vfts, VftExits(v) \/ Deposit(v)
      PROVE  UpgradeInv'
  <2>1. UpgradeShape' /\ UpgradePaused'
    <3>1. balance' \in [Vfts -> 0..1]
      BY <1>3 DEF VftExits, Deposit, UpgradeShape
    <3>2. UNCHANGED <<varaToEth, update, upgrade, newManager, paused, exited>>
      BY <1>3 DEF VftExits, Deposit, roleVars, mapVars
    <3> QED
      BY <3>1, <3>2 DEF UpgradeShape, UpgradePaused, Upgrading, UpdateRecord, UpgradeRecord
  <2>2. UpgradeMoves'
    BY <1>3 DEF VftExits, Deposit, UpgradeShape, UpgradeMoves, Upgrading, Moved, ToMove, mapVars
  <2> QED
    BY <2>1, <2>2
<1>4. ASSUME NEW q \in Requests, UpdateDone(q)
      PROVE  UpgradeInv'
  <2>1. UpgradeShape' /\ UpgradePaused'
    BY <1>4 DEF UpdateDone, UpgradeShape, UpgradePaused, Upgrading, roleVars, mapVars, tokenVars,
       UpdateRecord, UpgradeRecord
  <2>2. UpgradeMoves'
    BY <1>4 DEF UpdateDone, UpgradeMoves, Upgrading, Moved, ToMove, mapVars, tokenVars
  <2> QED
    BY <2>1, <2>2
<1>5. ASSUME NEW c \in Actors, NEW m \in Managers, Upgrade(c, m)
      PROVE  UpgradeInv'
  <2>1. UpgradeShape' /\ UpgradePaused'
    BY <1>5 DEF Upgrade, ensure_admin, UpgradeShape, UpgradePaused, Upgrading, roleVars, mapVars,
       tokenVars, UpdateRecord, UpgradeRecord
  <2>2. UpgradeMoves'
    BY <1>5 DEF Upgrade, UpgradeShape, UpgradeMoves, Moved, ToMove, mapVars, tokenVars
  <2> QED
    BY <2>1, <2>2
<1>6. ASSUME NEW q \in Requests, NEW v \in Vfts, UpgradeBalance(q, v)
      PROVE  UpgradeInv'
  <2> DEFINE u == [left |-> upgrade[q].left \ {v},
                   token |-> IF balance[v] > 0 THEN v ELSE Nobody]
  <2>0. /\ upgrade' = [upgrade EXCEPT ![q] = u]
        /\ upgrade[q] # Nobody /\ upgrade[q].token = Nobody
        /\ UNCHANGED <<balance, active, varaToEth, arrived, update, paused, newManager, exited>>
    BY <1>6 DEF UpgradeBalance, roleVars, mapVars, tokenVars
  <2>1. UpgradeShape' /\ UpgradePaused'
    BY <2>0 DEF UpgradeShape, UpgradePaused, Upgrading, UpdateRecord, UpgradeRecord
  <2>2. balance[v] > 0 \/ Moved(v)
    BY DEF UpgradeShape, Moved
  <2>3. \A w \in Vfts : w \in ToMove(upgrade[q]) => Moved(w) \/ w \in ToMove(u)
    BY <2>0, <2>2 DEF ToMove
  <2> HIDE DEF u
  <2>4. UpgradeMoves'
    BY <2>0, <2>3 DEF UpgradeShape, UpgradeMoves, Moved
  <2> QED
    BY <2>1, <2>4
<1>7. ASSUME NEW q \in Requests, NEW ok \in BOOLEAN, UpgradeTransfer(q, ok)
      PROVE  UpgradeInv'
  <2>1. CASE ~ok
    <3>1. /\ upgrade' = [upgrade EXCEPT ![q] = Nobody]
          /\ UNCHANGED <<balance, active, varaToEth, arrived, update, paused, newManager, exited>>
      BY <1>7, <2>1 DEF UpgradeTransfer, AfterRefusal, roleVars, mapVars
    <3> QED
      BY <3>1 DEF UpgradeShape, UpgradePaused, UpgradeMoves, Upgrading, Moved, UpdateRecord,
         UpgradeRecord
  <2>2. CASE ok
    <3>1. PICK k \in Vfts : /\ balance' = [balance EXCEPT ![k] = 0]
                            /\ upgrade' = [upgrade EXCEPT ![q] =
                                             [left |-> upgrade[q].left, token |-> Nobody]]
                            /\ upgrade[q] # Nobody /\ upgrade[q].token = k
      BY <1>7, <2>2 DEF UpgradeTransfer, UpgradeShape, UpgradeRecord
    <3>2. UNCHANGED <<varaToEth, active, arrived, update, paused, newManager, exited>>
      BY <1>7 DEF UpgradeTransfer, roleVars, mapVars
    <3>3. UpgradeShape' /\ UpgradePaused'
      BY <3>1, <3>2 DEF UpgradeShape, UpgradePaused, Upgrading, UpdateRecord, UpgradeRecord
    <3>4. \A v \in Vfts : (Moved(v) => Moved(v)') /\ Moved(k)'
      BY <3>1, <3>2 DEF Moved, UpgradeShape
    <3>5. \A v \in ToMove(upgrade[q]) : v \in ToMove(upgrade'[q]) \/ v = k
      BY <3>1 DEF ToMove, UpgradeShape
    <3>6. \A p \in Requests : p # q => upgrade'[p] = upgrade[p]
      BY <3>1 DEF UpgradeShape
    <3>7. DOMAIN varaToEth \subseteq Vfts
      BY DEF UpgradeShape
    <3>8. UpgradeMoves'
      BY <3>1, <3>2, <3>4, <3>5, <3>6, <3>7 DEF UpgradeMoves
    <3> QED
      BY <3>3, <3>8
  <2> QED
    BY <2>1, <2>2
<1>8. ASSUME NEW q \in Requests, UpgradePanics(q) \/ UpgradeDone(q)
      PROVE  UpgradeInv'
  <2>1. UpgradeShape' /\ UpgradePaused'
    <3>1. UNCHANGED <<varaToEth, balance, newManager, paused>>
      BY <1>8 DEF UpgradePanics, UpgradeDone, roleVars, mapVars, tokenVars
    <3>2. CASE UpgradePanics(q)
      BY <3>1, <3>2 DEF UpgradePanics, UpgradeShape, UpgradePaused, Upgrading, UpdateRecord,
         UpgradeRecord
    <3>3. CASE UpgradeDone(q)
      BY <3>1, <3>3 DEF UpgradeDone, UpgradeShape, UpgradePaused, Upgrading
    <3> QED
      BY <1>8, <3>2, <3>3
  <2>2. UpgradeDone(q) => \A v \in DOMAIN varaToEth \ arrived : Moved(v)
    BY DEF UpgradeDone, UpgradeShape, UpgradeMoves, ToMove
  <2>3. UpgradeMoves'
    BY <1>8, <2>2 DEF UpgradePanics, UpgradeDone, UpgradeShape, UpgradeMoves, Moved, mapVars,
       tokenVars
  <2> QED
    BY <2>1, <2>3
<1>9. ASSUME NEW c \in Actors, Pause(c) \/ Unpause(c)
      PROVE  UpgradeInv'
  BY <1>9 DEF Pause, Unpause, UpgradeShape, UpgradePaused, UpgradeMoves, Upgrading, Moved, mapVars,
     tokenVars, UpdateRecord, UpgradeRecord
<1>10. ASSUME NEW c \in Actors, NEW map \in VftMaps, UpdateVfts(c, map)
       PROVE  UpgradeInv'
  <2>1. UpgradeShape'
    <3>1. PICK u : /\ u = UpdateRecord(u) /\ u.map \in VftMaps /\ DOMAIN u.v2e \subseteq Vfts
                   /\ update' = [update EXCEPT ![calls'] = u]
      <4> DEFINE u == [map |-> map, left |-> DOMAIN varaToEth, v2e |-> <<>>, e2v |-> <<>>]
      <4>1. u = UpdateRecord(u) /\ u.map \in VftMaps /\ DOMAIN u.v2e \subseteq Vfts
        BY DEF UpdateRecord
      <4>2. update' = [update EXCEPT ![calls'] = u]
        BY <1>10 DEF UpdateVfts
      <4> QED
        BY <4>1, <4>2
    <3>2. UNCHANGED <<balance, varaToEth, upgrade>>
      BY <1>10 DEF UpdateVfts, mapVars, tokenVars
    <3>3. \A q \in Requests : update'[q] \in {update[q], u}
      BY <3>1 DEF UpgradeShape
    <3>4. update' \in [Requests -> {update'[q] : q \in Requests}]
      BY <3>1 DEF UpgradeShape
    <3>5. \A q \in Requests : update'[q] # Nobody =>
             /\ update'[q] = UpdateRecord(update'[q])
             /\ update'[q].map \in VftMaps
             /\ DOMAIN update'[q].v2e \subseteq Vfts
      BY <3>1, <3>3 DEF UpgradeShape
    <3> QED
      BY <3>2, <3>4, <3>5 DEF UpgradeShape
  <2> QED
    BY <1>10, <2>1 DEF UpdateVfts, UpgradePaused, UpgradeMoves, Upgrading, Moved, roleVars,
       mapVars, tokenVars
<1>11. ASSUME NEW q \in Requests, NEW v \in Vfts, UpdateEntry(q, v)
       PROVE  UpgradeInv'
  <2>1. UpgradeShape'
    <3>1. VftNew(update[q].map, v) \in Vfts
      BY <1>11, VftMapsAssumption DEF UpdateEntry, VftNew, UpgradeShape
    <3>2. PICK w, e :
             /\ w \in Vfts
             /\ update' = [update EXCEPT ![q] =
                            [map |-> update[q].map, left |-> update[q].left \ {v},
                             v2e |-> With(update[q].v2e, w, e), e2v |-> With(update[q].e2v, e, w)]]
      BY <1>11, <3>1, Zenon DEF UpdateEntry, Carried
    <3>3. update[q] # Nobody /\ UNCHANGED <<balance, varaToEth, upgrade>>
      BY <1>11 DEF UpdateEntry, mapVars, tokenVars
    <3>4. DOMAIN With(update[q].v2e, w, e) \subseteq Vfts
      BY <3>2, <3>3 DEF With, UpgradeShape
    <3> QED
      BY <3>2, <3>3, <3>4 DEF UpgradeShape, UpdateRecord, UpgradeRecord
  <2> QED
    BY <1>11, <2>1 DEF UpdateEntry, UpgradePaused, UpgradeMoves, Upgrading, Moved, roleVars,
       mapVars, tokenVars
<1>12. ASSUME NEW x, NEW y, UpdateSetting(x, y) \/ SetAdmins(x, y) \/ UNCHANGED adminVars
       PROVE  UpgradeInv'
  <2>1. UNCHANGED <<balance, active, update, upgrade, newManager, paused, exited, varaToEth, arrived>>
    BY <1>12 DEF UpdateSetting, SetAdmins, adminVars, roleVars, mapVars, tokenVars
  <2> QED
    BY <2>1 DEF UpgradeShape, UpgradePaused, UpgradeMoves, Upgrading, Moved
<1>13. ASSUME NEW q \in Requests, UpdatePanics(q)
       PROVE  UpgradeInv'
  BY <1>13 DEF UpdatePanics, UpgradeShape, UpgradePaused, UpgradeMoves, Upgrading, Moved, roleVars,
     mapVars, tokenVars, UpdateRecord, UpgradeRecord
<1> QED
  BY <1>1, <1>2, <1>3, <1>4, <1>5, <1>6, <1>7, <1>8, <1>9, <1>10, <1>11,
     <1>12, <1>13 DEF AdminNext

\* upgrade exits only when the old program holds nothing it could have moved,
\* however its awaits interleave with deposits, mappings and update_vfts.
THEOREM UpgradeMovesEverything == AdminSpec => []UpgradeLeavesNothing
<1>1. AdminInit => UpgradeInv
  BY DEF AdminInit, UpgradeInv, UpgradeShape, UpgradePaused, UpgradeMoves, Upgrading
<1>2. UpgradeInv => UpgradeLeavesNothing
  BY DEF UpgradeInv, UpgradePaused, UpgradeMoves, Moved, UpgradeLeavesNothing
<1>3. UpgradeInv /\ [AdminNext]_adminVars => UpgradeInv'
  BY UpgradeInvStep
<1> QED
  BY <1>1, <1>2, <1>3, PTL DEF AdminSpec

--------------------------------------------------------------------------------
(****************************************************************************)
(* Induction: every non-empty set of naturals has a least element.           *)
(****************************************************************************)
LEMMA LeastNatural ==
    ASSUME NEW S, S \subseteq Nat, S # {}
    PROVE  \E n \in S : \A m \in S : n <= m
<1> DEFINE R == OpToRel(<, Nat)
<1>1. R = {p \in Nat \X Nat : p[1] < p[2]}
  BY DEF OpToRel
<1>2. IsWellFoundedOn(R, Nat)
  BY NatLessThanWellFounded
<1> HIDE DEF R
<1>3. PICK n \in S : \A m \in S : <<m, n>> \notin R
  BY <1>2, WFMin
<1>4. \A a, b \in Nat : a < b => <<a, b>> \in R
  BY <1>1
<1>5. ASSUME NEW m \in S PROVE n <= m
  <2>1. m \in Nat /\ n \in Nat /\ <<m, n>> \notin R
    BY <1>3
  <2>2. ~(m < n)
    BY <1>4, <2>1
  <2> QED
    BY <2>1, <2>2
<1> QED
  BY <1>5

--------------------------------------------------------------------------------
(****************************************************************************)
(* The searches of the Gear client.  The set ids of the chain never go down, *)
(* so that a block of the asked set whose parent is of the set before is the *)
(* first of its era, wherever the search came from.                          *)
(****************************************************************************)
LEMMA SetIdsGrow ==
    ASSUME setAt \in SetHistories, NEW a \in 0 .. LastBlock, NEW b \in 0 .. LastBlock, a <= b
    PROVE  setAt[a] <= setAt[b]
<1> DEFINE S == {n \in Nat : n <= LastBlock /\ a <= n /\ setAt[n] < setAt[a]}
<1> USE ClientAssumption
<1>1. /\ \A n \in 0 .. LastBlock : setAt[n] \in Nat
      /\ \A n \in 1 .. LastBlock : setAt[n] \in {setAt[n - 1], setAt[n - 1] + 1}
  BY DEF SetHistories
<1>2. S = {}
  <2> SUFFICES ASSUME S # {} PROVE FALSE
    OBVIOUS
  <2>1. PICK n \in S : \A m \in S : n <= m
    BY LeastNatural
  <2>2. n \in 1 .. LastBlock /\ n - 1 >= a /\ n - 1 \in Nat /\ n - 1 \in 0 .. LastBlock
    BY <1>1, <2>1
  <2>3. setAt[n - 1] < setAt[a]
    BY <1>1, <2>1, <2>2
  <2>4. n - 1 \in S
    BY <2>2, <2>3
  <2> QED
    BY <2>1, <2>2, <2>4
<1> QED
  BY <1>1, <1>2

SearchType ==
    /\ setAt \in SetHistories /\ finalized \in 1 .. LastBlock /\ task \in Tasks
    /\ low \in 0 .. LastBlock /\ high \in 0 .. LastBlock /\ step \in Nat
    /\ found \in 0 .. LastBlock \cup {None}
    /\ cpc \in {"latest", "search_back", "binary_search", "era_back", "era_bisect", "prove", "done"}

\* A block that was found is of the asked set, and the search goes on as the
\* task wants it.
FoundInv ==
    /\ cpc \in {"era_back", "era_bisect"} => task.name = "era"
    /\ cpc = "prove" => task.name = "session"
    /\ cpc \in {"era_back", "era_bisect", "prove"} => found # None
    /\ found # None => setAt[found] = task.set
    /\ cpc # "done" => result.block = None

\* What a call has looked at when it returns.
ResultInv ==
    (cpc = "done" /\ result.block # None) =>
        IF task.name = "era"
        THEN /\ result.block \in 1 .. LastBlock
             /\ setAt[result.block] = task.set
             /\ setAt[result.block - 1] + 1 = task.set
             /\ result.set = setAt[result.block - 1]
        ELSE found \in 1 .. LastBlock /\ result.set = SignedBy(found)

ClientInv == SearchType /\ FoundInv /\ ResultInv

LEMMA FoundKeeps ==
    ASSUME ClientInv, NEW b \in 0 .. LastBlock, setAt[b] = task.set, cpc # "done", Found(b),
           UNCHANGED <<setAt, finalized, task, result>>
    PROVE  ClientInv'
<1>1. SaturatingSub(b, APPROX_SESSION_DURATION_IN_BLOCKS) \in 0 .. LastBlock
  BY ClientAssumption DEF SaturatingSub
<1>2. SearchType'
  BY <1>1, ClientAssumption DEF ClientInv, SearchType, Found
<1>3. FoundInv'
  BY ClientAssumption DEF ClientInv, SearchType, Tasks, FoundInv, Found, None
<1>4. ResultInv'
  BY DEF ResultInv, Found
<1> QED
  BY <1>2, <1>3, <1>4 DEF ClientInv

LEMMA ClientInvStep ==
    ASSUME ClientInv, ClientNext \/ UNCHANGED clientVars
    PROVE  ClientInv'
<1> USE ClientAssumption DEF ClientInv
<1>1. CASE Finalize
  BY <1>1 DEF Finalize, SearchType, FoundInv, ResultInv, SignedBy
<1>2. CASE SearchLatest
  <2>1. CASE setAt[finalized] = task.set
    BY <1>2, <2>1, FoundKeeps DEF SearchLatest, SearchType
  <2>2. CASE setAt[finalized] # task.set
    BY <1>2, <2>2 DEF SearchLatest, SearchType, FoundInv, ResultInv
  <2> QED
    BY <2>1, <2>2
<1>3. CASE SearchBack
  <2> DEFINE next == SaturatingSub(high, step)
  <2>1. next \in 0 .. LastBlock
    BY DEF SaturatingSub, SearchType
  <2> HIDE DEF next
  <2>2. CASE setAt[next] = task.set
    <3>1. Found(next) /\ UNCHANGED <<setAt, finalized, task, result>>
      <4>1. task.set \in Int
        BY DEF SearchType, Tasks
      <4>2. ~(setAt[next] > task.set)
        BY <2>2, <4>1
      <4> QED
        BY <1>3, <2>2, <4>2 DEF SearchBack, next
    <3> QED
      BY <1>3, <2>1, <2>2, <3>1, FoundKeeps DEF SearchBack
  <2>3. CASE setAt[next] # task.set
    <3>1. /\ low' \in {low, next} /\ high' \in {high, next} /\ found' = found /\ step' \in Nat
          /\ cpc' \in {"search_back", "binary_search"}
          /\ UNCHANGED <<setAt, finalized, task, result>>
      BY <1>3, <2>3 DEF SearchBack, next, SearchType
    <3> QED
      BY <1>3, <2>1, <3>1 DEF SearchBack, SearchType, FoundInv, ResultInv
  <2> QED
    BY <2>2, <2>3
<1>4. CASE BinarySearch
  <2> DEFINE mid == (low + high) \div 2
  <2>1. mid \in 0 .. LastBlock
    BY DEF SearchType
  <2> HIDE DEF mid
  <2>2. CASE setAt[mid] = task.set
    BY <1>4, <2>1, <2>2, FoundKeeps DEF BinarySearch, mid
  <2>3. CASE setAt[mid] # task.set
    <3>1. /\ low' \in {low, mid} /\ high' \in {high, mid}
          /\ UNCHANGED <<cpc, step, found, setAt, finalized, task, result>>
      BY <1>4, <2>3 DEF BinarySearch, Narrowed, mid
    <3> QED
      BY <1>4, <2>1, <3>1 DEF BinarySearch, SearchType, FoundInv, ResultInv
  <2> QED
    BY <2>2, <2>3
<1>5. CASE EraBack
  <2>1. SaturatingSub(low, APPROX_SESSION_DURATION_IN_BLOCKS) \in 0 .. LastBlock
    BY DEF SaturatingSub, SearchType
  <2> QED
    BY <1>5, <2>1 DEF EraBack, SearchType, FoundInv, ResultInv
<1>6. CASE EraBisect
  <2> DEFINE mid == (high + low) \div 2
  <2>1. mid \in 0 .. LastBlock
    BY DEF SearchType
  <2> HIDE DEF mid
  <2>2. /\ low' \in {low, mid} /\ high' \in {high, mid} /\ cpc' \in {cpc, "done"}
        /\ UNCHANGED <<setAt, finalized, task, step, found>>
    BY <1>6 DEF EraBisect, mid
  <2>3. cpc' = "done" => /\ setAt[mid] = task.set /\ StartsEra(mid)
                         /\ result' = [block |-> mid, set |-> SignedBy(mid)]
    BY <1>6 DEF EraBisect, mid
  <2>4. cpc' # "done" => UNCHANGED result
    BY <1>6 DEF EraBisect, mid
  <2>5. SearchType' /\ FoundInv'
    BY <1>6, <2>1, <2>2, <2>4 DEF EraBisect, SearchType, FoundInv
  <2>6. ASSUME setAt[mid] = task.set, StartsEra(mid)
        PROVE  mid \in 1 .. LastBlock /\ setAt[mid - 1] + 1 = task.set /\ SignedBy(mid) = setAt[mid - 1]
    <3>1. mid \in 1 .. LastBlock /\ setAt[mid - 1] + 1 = task.set
      BY <2>1, <2>6 DEF StartsEra
    <3>2. setAt[mid - 1] \in Nat
      BY <3>1 DEF SearchType, SetHistories
    <3> QED
      BY <2>6, <3>1, <3>2 DEF SignedBy
  <2>7. ResultInv'
    <3>1. CASE cpc' = "done"
      BY <1>6, <2>2, <2>3, <2>6, <3>1 DEF EraBisect, ResultInv, FoundInv
    <3>2. CASE cpc' # "done"
      BY <3>2 DEF ResultInv
    <3> QED
      BY <3>1, <3>2
  <2> QED
    BY <2>5, <2>7
<1>7. CASE ProveSession
  <2>1. SearchType' /\ FoundInv'
    BY <1>7 DEF ProveSession, SearchType, FoundInv
  <2>2. PICK b \in found .. finalized : SignedBy(b) = SignedBy(found)
                                        /\ result' = [block |-> b, set |-> SignedBy(b)]
    BY <1>7 DEF ProveSession
  <2>3. found \in 1 .. LastBlock /\ task.name = "session" /\ SignedBy(found)' = SignedBy(found)
    BY <1>7 DEF ProveSession, SearchType, FoundInv, SignedBy, None
  <2> QED
    BY <1>7, <2>1, <2>2, <2>3 DEF ProveSession, ResultInv
<1>8. CASE ProveFails \/ UNCHANGED clientVars
  BY <1>8 DEF ProveFails, clientVars, SearchType, FoundInv, ResultInv, SignedBy
<1> QED
  BY <1>1, <1>2, <1>3, <1>4, <1>5, <1>6, <1>7, <1>8 DEF ClientNext, Client

\* find_era_first_block and the search for a finality proof of a set return the
\* right block and the right signer, for every chain and every session length.
THEOREM SearchesFindTheSet == ClientSpec => []SearchFinds
<1> USE ClientAssumption
<1>1. ClientInit => ClientInv
  BY DEF ClientInit, ClientInv, SearchType, FoundInv, ResultInv, None
<1>2. ClientInv => SearchFinds
  <2> SUFFICES ASSUME ClientInv, cpc = "done", result.block # None PROVE SearchFinds
    BY DEF SearchFinds
  <2>1. CASE task.name = "era"
    <3> DEFINE r == result.block
               S == {b \in 0 .. LastBlock : setAt[b] = task.set}
    <3>1. /\ r \in 1 .. LastBlock /\ setAt[r] = task.set /\ setAt[r - 1] + 1 = task.set
          /\ result.set = setAt[r - 1]
      BY <2>1 DEF ClientInv, ResultInv
    <3>2. setAt[r - 1] \in Nat
      BY <3>1 DEF ClientInv, SearchType, SetHistories
    <3>3. ASSUME NEW b \in S PROVE r <= b
      <4> SUFFICES ASSUME b <= r - 1 PROVE FALSE
        BY <3>1
      <4>1. setAt[b] <= setAt[r - 1]
        BY <3>1, SetIdsGrow DEF ClientInv, SearchType
      <4> QED
        BY <3>1, <3>2, <4>1
    <3>4. r \in S
      BY <3>1
    <3>5. ASSUME NEW x \in S, \A y \in S : x <= y PROVE x = r
      BY <3>3, <3>4, <3>5
    <3>6. Min(S) = r
      BY <3>3, <3>4, <3>5 DEF Min
    <3> QED
      BY <2>1, <3>1, <3>2, <3>6 DEF SearchFinds
  <2>2. CASE task.name # "era"
    <3>1. found \in 1 .. LastBlock /\ result.set = SignedBy(found) /\ setAt[found] = task.set
      BY <2>2 DEF ClientInv, ResultInv, FoundInv, None
    <3>2. setAt[found] \in Nat /\ setAt[found - 1] \in Nat
          /\ setAt[found] \in {setAt[found - 1], setAt[found - 1] + 1}
      BY <3>1 DEF ClientInv, SearchType, SetHistories
    <3> QED
      BY <2>2, <3>1, <3>2 DEF SearchFinds, SignedBy, IsEraFirst
  <2> QED
    BY <2>1, <2>2
<1>3. ClientInv /\ [ClientNext]_clientVars => ClientInv'
  BY ClientInvStep
<1> QED
  BY <1>1, <1>2, <1>3, PTL DEF ClientSpec

--------------------------------------------------------------------------------
(****************************************************************************)
(* The kill switch relayer.  A block is left behind only after the turn that *)
(* covers it has looked at all its events, and at that time an event without *)
(* an archived justification was final before the justification was stored,  *)
(* because the archive only grows.                                           *)
(****************************************************************************)
Working == kpc \in {"fetch", "visit", "prove"}

KillType ==
    /\ eth \in Nat \ {0}
    /\ start \in Nat \cup {NoBlock} /\ base \in Nat \cup {NoBlock}
    /\ start = NoBlock <=> base = NoBlock
    /\ todo \subseteq DOMAIN Posted
    /\ Working => start # NoBlock /\ last \in Nat /\ last <= eth

\* A final event has an archived justification, or had none when it became final.
LateInv ==
    \A i \in DOMAIN Posted : Posted[i].eth <= eth => Posted[i].gear \in archive \/ Posted[i] \in late

PassedInv ==
    start # NoBlock =>
        \A i \in DOMAIN Posted :
            (~Posted[i].ok /\ base <= Posted[i].eth /\ Posted[i].eth < start) => Posted[i] \in late

\* The wrong roots of the turn are still to be compared, or are late.
TodoInv ==
    kpc = "visit" =>
        \A i \in DOMAIN Posted :
            (~Posted[i].ok /\ Posted[i].eth \in start..last) => i \in todo \/ Posted[i] \in late

KillInv == KillType /\ LateInv /\ PassedInv /\ TodoInv

LEMMA PostedType ==
    /\ DOMAIN Posted \subseteq Nat
    /\ \A i \in DOMAIN Posted : Posted[i].eth \in Nat /\ Posted[i].eth > 1
<1> DEFINE Event == [eth : Nat \ {0, 1}, gear : Nat, ok : BOOLEAN]
<1>1. Posted \in Seq(Event)
  BY PostedAssumption
<1>2. \A e \in Event : e.eth \in Nat /\ e.eth > 1
  OBVIOUS
<1> HIDE DEF Event
<1>3. \A i \in DOMAIN Posted : i \in Nat /\ Posted[i] \in Event
  BY <1>1
<1> QED
  BY <1>2, <1>3

LEMMA LeastTodo ==
    ASSUME KillType, todo # {}
    PROVE  Min(todo) \in todo
<1>1. todo \subseteq Nat
  BY PostedType DEF KillType
<1>2. \E x \in todo : \A y \in todo : x <= y
  BY <1>1, LeastNatural
<1> QED
  BY <1>2 DEF Min

\* The process ends, starts again or waits: nothing is left behind.
LEMMA KillRest ==
    ASSUME KillInv, UNCHANGED <<eth, archive, late>>,
           kpc' \notin {"fetch", "visit", "prove"}, todo' \subseteq todo,
           \/ UNCHANGED <<start, base>>
           \/ \E arg \in FromBlocks : start' = arg /\ base' = arg
    PROVE  KillInv'
<1>1. KillType'
  BY FromAssumption DEF KillInv, KillType, Working
<1>2. LateInv' /\ TodoInv'
  BY DEF KillInv, LateInv, TodoInv
<1>3. PassedInv'
  <2>1. CASE UNCHANGED <<start, base>>
    BY <2>1 DEF KillInv, PassedInv
  <2>2. ASSUME NEW arg \in FromBlocks, start' = arg, base' = arg PROVE PassedInv'
    BY <2>2, PostedType, FromAssumption DEF PassedInv
  <2> QED
    BY <2>1, <2>2
<1> QED
  BY <1>1, <1>2, <1>3 DEF KillInv

LEMMA KillInvStep ==
    ASSUME KillInv, KillNext \/ UNCHANGED killVars
    PROVE  KillInv'
<1>1. CASE EthFinalizes
  <2>1. /\ eth' = eth + 1 /\ late \subseteq late'
        /\ UNCHANGED <<archive, kpc, start, base, todo, last>>
    BY <1>1 DEF EthFinalizes, archiverVars, loopVars
  <2>2. KillType'
    BY <2>1 DEF KillInv, KillType, Working
  <2>3. LateInv'
    <3> SUFFICES ASSUME NEW i \in DOMAIN Posted, Posted[i].eth <= eth', Posted[i].gear \notin archive
                 PROVE  Posted[i] \in late'
      BY <2>1 DEF LateInv
    <3>1. CASE Posted[i].eth <= eth
      BY <2>1, <3>1 DEF KillInv, LateInv
    <3>2. CASE ~(Posted[i].eth <= eth)
      <4>1. Posted[i].eth = eth'
        BY <2>1, <3>2, PostedType DEF KillInv, KillType
      <4> QED
        BY <1>1, <4>1 DEF EthFinalizes, ToSet
    <3> QED
      BY <3>1, <3>2
  <2>4. PassedInv' /\ TodoInv'
    BY <2>1 DEF KillInv, PassedInv, TodoInv
  <2> QED
    BY <2>2, <2>3, <2>4 DEF KillInv
<1>2. CASE Archive
  <2>1. archive \subseteq archive' /\ UNCHANGED <<eth, late, kpc, start, base, todo, last>>
    BY <1>2 DEF Archive, chainVars, loopVars
  <2> QED
    BY <2>1 DEF KillInv, KillType, LateInv, PassedInv, TodoInv, Working
<1>3. CASE UNCHANGED <<eth, late, archive, kpc, start, base, todo, last>>
  BY <1>3 DEF KillInv, KillType, LateInv, PassedInv, TodoInv, Working
<1>4. ASSUME NEW b, \/ GearFinalizes(b) \/ ArchiverFails \/ ArchiverReconnected \/ Provide
                    \/ TxSettles(b) \/ UNCHANGED killVars
      PROVE  KillInv'
  BY <1>3, <1>4 DEF GearFinalizes, ArchiverFails, ArchiverReconnected, Provide, TxSettles, killVars,
     chainVars, archiverVars, loopVars
<1>5. CASE Crash \/ LastTurnFails \/ NotReconnected \/ Done
  <2>1. Exit
    BY <1>5 DEF Crash, LastTurnFails, NotReconnected, Done
  <2> QED
    BY <2>1, KillRest DEF Exit, chainVars, archiverVars
<1>6. CASE TurnFails
  BY <1>6, KillRest DEF TurnFails, chainVars, archiverVars
<1>7. ASSUME NEW arg \in FromBlocks, Restart(arg) PROVE KillInv'
  BY <1>7, KillRest DEF Restart, chainVars
<1>8. CASE Reconnected \/ Prove \/ Watch
  BY <1>8, KillRest DEF Reconnected, Prove, Watch, EndTurn, chainVars, archiverVars
<1>9. CASE Begin
  <2>1. /\ last' = eth /\ UNCHANGED <<eth, late, archive, todo>>
        /\ start' = IF start = NoBlock THEN eth ELSE start
        /\ base' = IF base = NoBlock THEN eth ELSE base
        /\ kpc' \in {"begin", "watch", "fetch"}
    BY <1>9 DEF Begin, EndTurn, chainVars, archiverVars
  <2>2. KillType'
    BY <2>1, FromAssumption DEF KillInv, KillType, Working
  <2>3. LateInv' /\ TodoInv'
    BY <2>1 DEF KillInv, LateInv, TodoInv
  <2>4. PassedInv'
    <3>1. CASE start # NoBlock
      BY <2>1, <3>1 DEF KillInv, KillType, PassedInv
    <3>2. CASE start = NoBlock
      <4> SUFFICES ASSUME NEW i \in DOMAIN Posted, ~Posted[i].ok, base' <= Posted[i].eth,
                          Posted[i].eth < start'
                   PROVE  Posted[i] \in late
        BY <2>1 DEF PassedInv
      <4>1. start' = eth /\ eth \in Nat
        BY <2>1, <3>2 DEF KillInv, KillType
      <4>2. base' = eth
        BY <2>1, <3>2 DEF KillInv, KillType
      <4> QED
        BY <4>1, <4>2, PostedType
    <3> QED
      BY <3>1, <3>2
  <2> QED
    BY <2>2, <2>3, <2>4 DEF KillInv
<1>10. CASE Fetch
  <2>1. /\ UNCHANGED <<eth, late, archive, last, base, start>> /\ kpc = "fetch" /\ kpc' = "visit"
        /\ todo' = {i \in DOMAIN Posted : Posted[i].eth \in start..last}
    BY <1>10 DEF Fetch, StartAfterFetch, chainVars, archiverVars
  <2> QED
    BY <2>1 DEF KillInv, KillType, LateInv, PassedInv, TodoInv, Working
<1>11. CASE Visit
  <2>1. /\ UNCHANGED <<eth, late, archive, last, base, start>> /\ kpc = "visit"
        /\ kpc' \in {"visit", "prove"} /\ todo' \subseteq todo /\ todo # {}
    BY <1>11 DEF Visit, chainVars, archiverVars
  <2>2. KillType' /\ LateInv' /\ PassedInv'
    BY <2>1 DEF KillInv, KillType, LateInv, PassedInv, Working
  <2>3. TodoInv'
    <3> SUFFICES ASSUME kpc' = "visit", NEW i \in DOMAIN Posted, ~Posted[i].ok,
                        Posted[i].eth \in start..last, i \notin todo', Posted[i] \notin late
                 PROVE  FALSE
      BY <2>1 DEF TodoInv
    <3>1. i \in todo
      BY <2>1 DEF KillInv, TodoInv
    <3>2. i = Min(todo) /\ Posted[i].gear \notin archive
      BY <1>11, <3>1 DEF Visit, NextEvent
    <3>3. Posted[i].eth <= eth
      BY <2>1, PostedType DEF KillInv, KillType, Working
    <3> QED
      BY <3>2, <3>3 DEF KillInv, LateInv
  <2> QED
    BY <2>2, <2>3 DEF KillInv
<1>12. CASE AllVisited
  <2>1. /\ UNCHANGED <<eth, late, archive, last, base, todo>> /\ kpc = "visit" /\ todo = {}
        /\ kpc' \in {"begin", "watch"} /\ start' = last + 1
    BY <1>12 DEF AllVisited, EndTurn, chainVars, archiverVars
  <2>2. last \in Nat /\ start \in Nat /\ start # NoBlock /\ base \in Nat
    BY <2>1 DEF KillInv, KillType, Working
  <2>3. KillType'
    <3>1. start' \in Nat \ {0} /\ start' # NoBlock /\ base # NoBlock
      BY <2>1, <2>2, FromAssumption DEF KillInv, KillType
    <3> QED
      BY <2>1, <2>2, <3>1 DEF KillInv, KillType, Working
  <2>4. LateInv' /\ TodoInv'
    BY <2>1 DEF KillInv, LateInv, TodoInv
  <2>5. PassedInv'
    <3> SUFFICES ASSUME NEW i \in DOMAIN Posted, ~Posted[i].ok, base <= Posted[i].eth,
                        Posted[i].eth < last + 1
                 PROVE  Posted[i] \in late
      BY <2>1 DEF PassedInv
    <3>1. CASE Posted[i].eth < start
      BY <2>2, <3>1 DEF KillInv, PassedInv
    <3>2. CASE ~(Posted[i].eth < start)
      BY <2>1, <2>2, <3>2, PostedType DEF KillInv, TodoInv
    <3> QED
      BY <3>1, <3>2
  <2> QED
    BY <2>3, <2>4, <2>5 DEF KillInv
<1> QED
  BY <1>1, <1>2, <1>4, <1>5, <1>6, <1>7, <1>8, <1>9, <1>10, <1>11, <1>12
     DEF KillNext, Loop, Fails, CannotVisit

\* No error, retry, reconnection or restart makes the kill switch relayer skip a
\* wrong root that it could act on, for any sequence of posted roots.
THEOREM KillSwitchPassesNothing == KillSpec => []WrongRootsNotPassed
<1>1. KillInit => KillInv
  <2> SUFFICES ASSUME KillInit PROVE KillInv
    OBVIOUS
  <2>1. KillType /\ TodoInv
    BY FromAssumption DEF KillInit, KillType, TodoInv, Working
  <2>2. LateInv
    BY PostedType DEF KillInit, LateInv
  <2>3. PassedInv
    BY PostedType, FromAssumption DEF KillInit, PassedInv
  <2> QED
    BY <2>1, <2>2, <2>3 DEF KillInv
<1>2. KillInv => WrongRootsNotPassed
  BY DEF KillInv, PassedInv, WrongRootsNotPassed, Wrong, ToSet
<1>3. KillInv /\ [KillNext]_killVars => KillInv'
  BY KillInvStep
<1> QED
  BY <1>1, <1>2, <1>3, PTL DEF KillSpec

--------------------------------------------------------------------------------
(****************************************************************************)
(* The historical proxy.  Folding the headers keeps one fact about the root  *)
(* it has come to: a block with that root is a block of the chain.  The fold *)
(* is a recursive function on sets of headers; that it exists, and keeps the *)
(* fact, follows by induction on their number.                               *)
(****************************************************************************)
LEMMA LowestIsOne ==
    ASSUME NEW s \in SUBSET Blocks, s # {}
    PROVE  Lowest(s) \in s
<1>1. {h.slot : h \in s} \subseteq Nat /\ {h.slot : h \in s} # {}
  BY BlocksAssumption
<1>2. PICK n \in {h.slot : h \in s} : \A m \in {h.slot : h \in s} : n <= m
  BY <1>1, LeastNatural
<1>3. \E h \in s : \A g \in s : h.slot <= g.slot
  BY <1>2
<1> QED
  BY <1>3 DEF Lowest

\* One step of the fold, from the root it has for the headers above the lowest.
FoldStep(g, checkpoint, s) ==
    IF s = {} THEN checkpoint
    ELSE IF g[s \ {Lowest(s)}] = Lowest(s).root THEN Lowest(s).parent ELSE Broken

LEMMA FoldExists ==
    ASSUME NEW checkpoint, NEW H \in SUBSET Blocks
    PROVE  \E g : g = [s \in SUBSET H |-> FoldStep(g, checkpoint, s)]
<1> DEFINE D(n) == {s \in SUBSET H : Cardinality(s) <= n}
           Missing == {n \in Nat : ~ \E g : g = [s \in D(n) |-> FoldStep(g, checkpoint, s)]}
<1>1. \A s \in SUBSET H : IsFiniteSet(s) /\ Cardinality(s) \in Nat /\ (Cardinality(s) = 0 <=> s = {})
  BY BlocksAssumption, FS_Subset, FS_CardinalityType, FS_EmptySet
<1>2. ASSUME NEW s \in SUBSET H, s # {}
      PROVE  /\ s \ {Lowest(s)} \in SUBSET H
             /\ Cardinality(s \ {Lowest(s)}) = Cardinality(s) - 1
  BY <1>1, <1>2, LowestIsOne, FS_RemoveElement
<1>3. Missing = {}
  <2> SUFFICES ASSUME Missing # {} PROVE FALSE
    OBVIOUS
  <2>1. PICK n \in Missing : \A m \in Missing : n <= m
    BY LeastNatural
  <2>2. CASE n = 0
    <3> DEFINE g == [s \in D(n) |-> checkpoint]
    <3>1. \A s \in D(n) : s = {}
      BY <1>1, <2>2
    <3>2. g = [s \in D(n) |-> FoldStep(g, checkpoint, s)]
      BY <3>1 DEF FoldStep
    <3> QED
      BY <2>1, <3>2
  <2>3. CASE n # 0
    <3>1. n - 1 \in Nat /\ n - 1 \notin Missing
      <4>1. Missing \subseteq Nat
        OBVIOUS
      <4> HIDE DEF Missing
      <4> QED
        BY <2>1, <2>3, <4>1
    <3>2. PICK g : g = [s \in D(n - 1) |-> FoldStep(g, checkpoint, s)]
      BY <3>1
    <3> DEFINE f == [s \in D(n) |-> FoldStep(g, checkpoint, s)]
    <3>3. ASSUME NEW s \in D(n), s # {} PROVE f[s \ {Lowest(s)}] = g[s \ {Lowest(s)}]
      <4>1. s \ {Lowest(s)} \in D(n - 1) /\ s \ {Lowest(s)} \in D(n)
        BY <1>1, <1>2, <2>1, <3>3
      <4> HIDE DEF D
      <4> QED
        BY <3>2, <4>1
    <3>4. \A s \in D(n) : FoldStep(g, checkpoint, s) = FoldStep(f, checkpoint, s)
      <4> HIDE DEF f, D
      <4> QED
        BY <3>3 DEF FoldStep
    <3>5. f = [s \in D(n) |-> FoldStep(f, checkpoint, s)]
      BY <3>4
    <3> QED
      BY <2>1, <3>5
  <2> QED
    BY <2>2, <2>3
<1>4. H \in SUBSET H /\ Cardinality(H) \in Nat
  BY <1>1
<1>5. D(Cardinality(H)) = SUBSET H
  BY <1>1, FS_Subset
<1>6. \E g : g = [s \in D(Cardinality(H)) |-> FoldStep(g, checkpoint, s)]
  BY <1>3, <1>4
<1> QED
  BY <1>5, <1>6

\* Every block with this root is a block of the chain.
OnChain(root) == \A b \in Blocks : b.root = root => b \in Canonical

LEMMA FoldStaysOnChain ==
    ASSUME NEW checkpoint, OnChain(checkpoint), NEW H \in SUBSET Blocks
    PROVE  OnChain(FoldHeaders(checkpoint, H))
<1> DEFINE g == CHOOSE g : g = [s \in SUBSET H |-> FoldStep(g, checkpoint, s)]
<1>1. FoldHeaders(checkpoint, H) = g[H]
  BY DEF FoldHeaders, MapThenFoldSet, FoldStep
<1>2. g = [s \in SUBSET H |-> FoldStep(g, checkpoint, s)]
  BY FoldExists
<1> HIDE DEF g
<1>3. \A s \in SUBSET H : g[s] = FoldStep(g, checkpoint, s)
  BY <1>2
<1> DEFINE Off == {n \in Nat : \E s \in SUBSET H : Cardinality(s) = n /\ ~OnChain(g[s])}
<1>4. Off = {}
  <2> SUFFICES ASSUME Off # {} PROVE FALSE
    OBVIOUS
  <2>1. PICK n \in Off : \A m \in Off : n <= m
    BY LeastNatural
  <2>2. PICK s \in SUBSET H : Cardinality(s) = n /\ ~OnChain(g[s])
    BY <2>1
  <2>3. s # {}
    BY <1>3, <2>2 DEF FoldStep
  <2> DEFINE x == Lowest(s)
  <2>4. x \in s /\ x \in Blocks
    BY <2>3, LowestIsOne
  <2>5. OnChain(g[s \ {x}])
    <3>1. IsFiniteSet(s)
      BY BlocksAssumption, FS_Subset
    <3>2. Cardinality(s \ {x}) = n - 1
      BY <2>2, <2>4, <3>1, FS_RemoveElement
    <3>3. n - 1 \in Nat /\ n - 1 \notin Off
      <4>1. n \in Nat /\ n # 0
        BY <2>2, <2>3, <3>1, FS_CardinalityType, FS_EmptySet
      <4> HIDE DEF Off
      <4> QED
        BY <2>1, <4>1
    <3> QED
      BY <3>2, <3>3
  <2>6. CASE g[s \ {x}] = x.root
    <3>1. g[s] = x.parent
      BY <1>3, <2>3, <2>6 DEF FoldStep
    <3>2. x \in Canonical
      BY <2>4, <2>5, <2>6 DEF OnChain
    <3> QED
      BY <2>2, <3>1, <3>2, RootsAssumption DEF OnChain
  <2>7. CASE g[s \ {x}] # x.root
    <3>1. g[s] = Broken
      BY <1>3, <2>3, <2>7 DEF FoldStep
    <3> QED
      BY <2>2, <3>1, BlocksAssumption DEF OnChain, Broken
  <2> QED
    BY <2>6, <2>7
<1>5. Cardinality(H) \in Nat
  BY BlocksAssumption, FS_Subset, FS_CardinalityType
<1> QED
  BY <1>1, <1>4, <1>5

\* What the light client answers is the root of a block of the chain.
LEMMA CheckpointOnChain ==
    ASSUME known \subseteq Checkpoints, NEW slot, \E s \in known : s >= slot
    PROVE  OnChain(CheckpointFor(slot))
<1> DEFINE K == {s \in known : s >= slot}
<1>1. K \subseteq Nat /\ K # {} /\ K \subseteq {b.slot : b \in Canonical}
  BY BlocksAssumption DEF Blocks
<1>2. \E n \in K : \A m \in K : n <= m
  BY <1>1, LeastNatural
<1>3. Min(K) \in K
  BY <1>2 DEF Min
<1>4. \E b \in Canonical : b.slot = Min(K)
  BY <1>1, <1>3
<1>5. PICK b \in Canonical : RootOf(Min(K)) = b.root
  BY <1>4 DEF RootOf
<1> QED
  BY <1>5, RootsAssumption DEF OnChain, CheckpointFor, Blocks

ProxyInv ==
    /\ known \subseteq Checkpoints
    /\ redirects \in [Calls -> {redirects[c] : c \in Calls}]
    /\ \A c \in Calls : redirects[c] # Idle =>
          /\ redirects[c] = [step |-> redirects[c].step, program |-> redirects[c].program,
                             block |-> redirects[c].block, headers |-> redirects[c].headers,
                             index |-> redirects[c].index, receipt |-> redirects[c].receipt]
          /\ redirects[c].block \in Blocks
          /\ redirects[c].headers \subseteq Blocks
    /\ DeliveredAreCanonical

LEMMA ProxyInvStep ==
    ASSUME ProxyInv, ProxyNext \/ UNCHANGED proxyVars
    PROVE  ProxyInv'
<1>1. ASSUME NEW s \in Checkpoints, NewCheckpoint(s) PROVE ProxyInv'
  BY <1>1 DEF NewCheckpoint, ProxyInv, DeliveredAreCanonical
<1>2. ASSUME NEW x, NEW y, NEW z, update_admin(x, y) \/ add_endpoint(x, y, z) \/ UNCHANGED proxyVars
      PROVE  ProxyInv'
  BY <1>2 DEF update_admin, add_endpoint, proxyVars, ProxyInv, DeliveredAreCanonical
<1>3. ASSUME NEW c \in Calls, NEW b \in Blocks, NEW headers \in SUBSET Blocks, NEW s, NEW i, NEW r,
             Redirect(c, s, b, headers, i, r)
      PROVE  ProxyInv'
  BY <1>3 DEF Redirect, ProxyInv, DeliveredAreCanonical
<1>4. ASSUME NEW c \in Calls, CheckProofs(c) PROVE ProxyInv'
  <2> DEFINE r == redirects[c]
  <2>1. /\ r # Idle /\ UNCHANGED known
        /\ r.block \in Blocks /\ r.headers \in SUBSET Blocks
    BY <1>4 DEF CheckProofs, ProxyInv
  <2>2. \/ redirects' = [redirects EXCEPT ![c].step = "call"]
        \/ redirects' = [redirects EXCEPT ![c] = Idle]
    BY <1>4 DEF CheckProofs
  <2>3. CASE Checked(r.block, r.headers, r.index, r.receipt)
    <3>1. OnChain(FoldHeaders(CheckpointFor(r.block.slot), r.headers))
      BY <2>1, <2>3, CheckpointOnChain, FoldStaysOnChain DEF Checked, ProxyInv
    <3>2. r.block \in Canonical
      BY <2>1, <2>3, <3>1 DEF Checked, ValidBlock, OnChain
    <3>3. delivered' = delivered \cup {[slot |-> r.block.slot, index |-> r.index, receipt |-> r.receipt]}
      BY <1>4, <2>3 DEF CheckProofs
    <3>4. DeliveredAreCanonical'
      BY <2>3, <3>2, <3>3 DEF Checked, ReceiptProven, ProxyInv, DeliveredAreCanonical
    <3> QED
      BY <2>1, <2>2, <3>4 DEF ProxyInv
  <2>4. CASE ~Checked(r.block, r.headers, r.index, r.receipt)
    <3>1. DeliveredAreCanonical'
      BY <1>4, <2>4 DEF CheckProofs, ProxyInv, DeliveredAreCanonical
    <3> QED
      BY <2>1, <2>2, <3>1 DEF ProxyInv
  <2> QED
    BY <2>3, <2>4
<1>5. ASSUME NEW c \in Calls, ClientReplies(c) PROVE ProxyInv'
  BY <1>5 DEF ClientReplies, ProxyInv, DeliveredAreCanonical
<1>6. \A n : kSubset(n, Blocks) \subseteq SUBSET Blocks
  BY DEF kSubset
<1> QED
  BY <1>1, <1>2, <1>3, <1>4, <1>5, <1>6 DEF ProxyNext

\* A client of the historical proxy is called only with receipts of the chain,
\* for every chain, every set of made-up blocks and receipts, whichever of them are
\* put together in a redirect, and every length of the proof.
THEOREM ProxyDeliversTheChain == ProxySpec => []DeliveredAreCanonical
<1>1. ProxyInit => ProxyInv
  BY DEF ProxyInit, ProxyInv, DeliveredAreCanonical
<1>2. ProxyInv => DeliveredAreCanonical
  BY DEF ProxyInv
<1>3. ProxyInv /\ [ProxyNext]_proxyVars => ProxyInv'
  BY ProxyInvStep
<1> QED
  BY <1>1, <1>2, <1>3, PTL DEF ProxySpec

--------------------------------------------------------------------------------
(****************************************************************************)
(* The proof storage.  Inside a block the program's map may hold one proof   *)
(* that no state can be read for yet, the last one; a second in the same     *)
(* block is refused, and the block's state is the state of that last one.    *)
(****************************************************************************)
LEMMA GreatestOf ==
    ASSUME NEW k \in Nat, NEW s \in SUBSET (1..k), s # {}
    PROVE  Max(s) \in s /\ \A y \in s : Max(s) >= y
<1>1. {k - y : y \in s} \subseteq Nat /\ {k - y : y \in s} # {}
  OBVIOUS
<1>2. PICK n \in {k - y : y \in s} : \A m \in {k - y : y \in s} : n <= m
  BY <1>1, LeastNatural
<1>3. PICK x \in s : n = k - x
  BY <1>2
<1>4. ASSUME NEW y \in s PROVE x >= y
  <2>1. n <= k - y
    BY <1>2
  <2> QED
    BY <1>3, <2>1
<1>5. \E z \in s : \A y \in s : z >= y
  BY <1>4
<1> QED
  BY <1>5 DEF Max

LEMMA WithoutGreatest ==
    ASSUME NEW k \in Nat, NEW s \in SUBSET (1..k), NEW x \in s, \A y \in s : x >= y
    PROVE  s \ {x} \in SUBSET (1..k) /\ s \ {x} \in SUBSET (1..(k - 1))
<1>1. ASSUME NEW y \in s \ {x} PROVE y \in 1..(k - 1)
  <2>1. y \in 1..k /\ x \in 1..k /\ x >= y /\ x # y
    OBVIOUS
  <2> QED
    BY <2>1
<1> QED
  BY <1>1

\* One message of a block, and the messages of a block one after the other.
Message(status, block, blocks, i) ==
    IF status[i] = "success" THEN Handle(blocks, queue[i].set, block) ELSE blocks

MessageStep(g, q, status, block, s) ==
    IF s = {} THEN proofBlocks ELSE Message(status, block, g[s \ {Max(s)}], q[Max(s)])

LEMMA BlockExists ==
    ASSUME NEW n \in Nat, NEW q, NEW status, NEW block
    PROVE  \E g : g = [s \in SUBSET (1..n) |-> MessageStep(g, q, status, block, s)]
<1> DEFINE Missing == {k \in Nat : ~ \E g : g = [s \in SUBSET (1..k) |-> MessageStep(g, q, status, block, s)]}
<1>0. Missing \subseteq Nat
  OBVIOUS
<1>1. Missing = {}
  <2> SUFFICES ASSUME Missing # {} PROVE FALSE
    OBVIOUS
  <2>1. PICK k \in Missing : \A m \in Missing : k <= m
    BY <1>0, LeastNatural
  <2>2. CASE k = 0
    <3> DEFINE g == [s \in SUBSET (1..k) |-> proofBlocks]
    <3>1. \A s \in SUBSET (1..k) : s = {}
      BY <2>2
    <3>2. g = [s \in SUBSET (1..k) |-> MessageStep(g, q, status, block, s)]
      BY <3>1 DEF MessageStep
    <3> QED
      BY <2>1, <3>2
  <2>3. CASE k # 0
    <3>1. k - 1 \in Nat /\ k - 1 \notin Missing
      <4> HIDE DEF Missing
      <4> QED
        BY <1>0, <2>1, <2>3
    <3>2. PICK g : g = [s \in SUBSET (1..(k - 1)) |-> MessageStep(g, q, status, block, s)]
      BY <3>1
    <3> DEFINE f == [s \in SUBSET (1..k) |-> MessageStep(g, q, status, block, s)]
    <3>3. ASSUME NEW s \in SUBSET (1..k), s # {} PROVE f[s \ {Max(s)}] = g[s \ {Max(s)}]
      <4>1. k \in Nat
        BY <1>0
      <4>2. Max(s) \in s /\ \A y \in s : Max(s) >= y
        BY <3>3, <4>1, GreatestOf
      <4>3. s \ {Max(s)} \in SUBSET (1..k) /\ s \ {Max(s)} \in SUBSET (1..(k - 1))
        BY <4>1, <4>2, WithoutGreatest
      <4> QED
        BY <3>2, <4>3
    <3>4. \A s \in SUBSET (1..k) : MessageStep(g, q, status, block, s) = MessageStep(f, q, status, block, s)
      <4> HIDE DEF f
      <4> QED
        BY <3>3 DEF MessageStep
    <3>5. f = [s \in SUBSET (1..k) |-> MessageStep(f, q, status, block, s)]
      BY <3>4
    <3> QED
      BY <2>1, <3>5
  <2> QED
    BY <2>2, <2>3
<1> QED
  BY <1>1

\* The program's map in the middle of the block after the last finalized one.
InBlock(blocks) ==
    \E top \in Nat :
      /\ FirstSet <= top
      /\ blocks = [s \in FirstSet..top |-> blocks[s]]
      /\ \A s \in FirstSet..top :
            /\ blocks[s] \in 1..(height + 1)
            /\ blocks[s] <= height => latestAt[blocks[s]] = s
            /\ blocks[s] = height + 1 => s = top

LEMMA LatestOf ==
    ASSUME NEW top \in Nat, FirstSet <= top, NEW blocks, DOMAIN blocks = FirstSet..top
    PROVE  Latest(blocks) = top
<1>1. top \in FirstSet..top /\ \A y \in FirstSet..top : top >= y
  BY FirstSetAssumption
<1>2. Max(FirstSet..top) = top
  BY <1>1, FirstSetAssumption DEF Max
<1> QED
  BY <1>2 DEF Latest

LEMMA HandleInBlock ==
    ASSUME height \in Nat, NEW blocks, InBlock(blocks), NEW set
    PROVE  InBlock(Handle(blocks, set, height + 1))
<1>1. PICK top \in Nat :
      /\ FirstSet <= top
      /\ blocks = [s \in FirstSet..top |-> blocks[s]]
      /\ \A s \in FirstSet..top :
            /\ blocks[s] \in 1..(height + 1)
            /\ blocks[s] <= height => latestAt[blocks[s]] = s
            /\ blocks[s] = height + 1 => s = top
  BY DEF InBlock
<1>2. DOMAIN blocks = FirstSet..top /\ Latest(blocks) = top
  BY <1>1, LatestOf
<1>3. CASE Refused(blocks, set, height + 1)
  BY <1>3 DEF Handle
<1>4. CASE ~Refused(blocks, set, height + 1)
  <2> DEFINE b == Handle(blocks, set, height + 1)
  <2>1. set = top + 1 /\ blocks[top] # height + 1
    BY <1>2, <1>4 DEF Refused
  <2>2. (FirstSet..top) \cup {top + 1} = FirstSet..(top + 1) /\ top + 1 \in Nat /\ FirstSet <= top + 1
    BY <1>1, FirstSetAssumption
  <2>3. b = [s \in FirstSet..(top + 1) |-> IF s = top + 1 THEN height + 1 ELSE blocks[s]]
    BY <1>2, <1>4, <2>1, <2>2 DEF Handle
  <2>4. b = [s \in FirstSet..(top + 1) |-> b[s]]
    BY <2>3
  <2>5. ASSUME NEW s \in FirstSet..(top + 1)
        PROVE  /\ b[s] \in 1..(height + 1)
               /\ b[s] <= height => latestAt[b[s]] = s
               /\ b[s] = height + 1 => s = top + 1
    <3> HIDE DEF b
    <3>1. CASE s = top + 1
      BY <2>3, <3>1
    <3>2. CASE s # top + 1
      <4>1. s \in FirstSet..top /\ b[s] = blocks[s]
        BY <2>3, <3>2, FirstSetAssumption
      <4> QED
        BY <1>1, <2>1, <4>1
    <3> QED
      BY <3>1, <3>2
  <2> HIDE DEF b
  <2>6. InBlock(b)
    BY <2>2, <2>4, <2>5 DEF InBlock
  <2> QED
    BY <2>6 DEF b
<1> QED
  BY <1>3, <1>4

\* However many messages the block executes, and whatever becomes of them.
LEMMA MessagesInBlock ==
    ASSUME height \in Nat, InBlock(proofBlocks), NEW n \in Nat, NEW q, NEW status, NEW g,
           \A s \in SUBSET (1..n) : g[s] = MessageStep(g, q, status, height + 1, s)
    PROVE  InBlock(g[1..n])
<1>1. \A s \in SUBSET (1..n) : g[s] = MessageStep(g, q, status, height + 1, s)
  OBVIOUS
<1> DEFINE Off == {k \in Nat : k <= n /\ \E s \in SUBSET (1..k) : ~InBlock(g[s])}
<1>0. Off \subseteq Nat
  OBVIOUS
<1>2. Off = {}
  <2> SUFFICES ASSUME Off # {} PROVE FALSE
    OBVIOUS
  <2>1. PICK k \in Off : \A m \in Off : k <= m
    BY <1>0, LeastNatural
  <2>2. PICK s \in SUBSET (1..k) : ~InBlock(g[s])
    BY <2>1
  <2>3. k \in Nat /\ k <= n /\ s \in SUBSET (1..n)
    BY <2>1
  <2>4. s # {}
    BY <1>1, <2>2, <2>3 DEF MessageStep
  <2> DEFINE x == Max(s)
  <2>5. x \in s /\ \A y \in s : x >= y
    BY <2>3, <2>4, GreatestOf
  <2>6. k # 0 /\ s \ {x} \in SUBSET (1..(k - 1))
    <3> HIDE DEF Off, x
    <3>1. k # 0
      BY <2>3, <2>5
    <3> QED
      BY <2>3, <2>5, <3>1, WithoutGreatest
  <2>7. k - 1 \in Nat /\ k - 1 <= n /\ k - 1 \notin Off
    <3> HIDE DEF Off
    <3> QED
      BY <1>0, <2>1, <2>3, <2>6
  <2>8. InBlock(g[s \ {x}])
    BY <2>6, <2>7
  <2>9. g[s] = Message(status, height + 1, g[s \ {x}], q[x])
    BY <1>1, <2>3, <2>4 DEF MessageStep
  <2>10. InBlock(Message(status, height + 1, g[s \ {x}], q[x]))
    BY <2>8, HandleInBlock DEF Message
  <2> QED
    BY <2>2, <2>9, <2>10
<1>3. n \notin Off
  <2> HIDE DEF Off
  <2> QED
    BY <1>2
<1> QED
  BY <1>3

StorageInv ==
    /\ height \in Nat \ {0}
    /\ latestAt \in Seq(Nat) /\ Len(latestAt) = height
    /\ ~Uploaded => queue = <<>> /\ channel = <<>> /\ sending = <<>>
    /\ Uploaded => \E top \in Nat :
          /\ FirstSet <= top
          /\ proofBlocks = [s \in FirstSet..top |-> proofBlocks[s]]
          /\ \A s \in FirstSet..top : proofBlocks[s] \in 1..height /\ latestAt[proofBlocks[s]] = s

LEMMA BlockKeeps ==
    ASSUME StorageInv, NEW n \in 0..Len(queue), NEW status, Block(n, status)
    PROVE  StorageInv'
<1> DEFINE h == height + 1
           q == [i \in 1..n |-> i]
           g == CHOOSE g : g = [s \in SUBSET DOMAIN q |-> MessageStep(g, q, status, height', s)]
<1>1. height \in Nat /\ height # 0
  BY DEF StorageInv
<1>2. height' = h /\ h \in Nat \ {0} /\ height \in Nat \ {0}
  <2>1. height' = h
    BY DEF Block
  <2> QED
    BY <1>1, <2>1
<1>3. proofBlocks' = g[DOMAIN q]
  BY DEF Block, FoldLeft, MapThenFoldSet, MessageStep, Message
<1>4. DOMAIN q = 1..n
  OBVIOUS
<1> HIDE DEF q
<1>5. ASSUME n \in Nat
      PROVE  g = [s \in SUBSET (1..n) |-> MessageStep(g, q, status, height', s)]
  BY <1>4, <1>5, BlockExists
<1> HIDE DEF g, h
<1>6. CASE ~Uploaded
  <2>1. queue = <<>> /\ channel = <<>> /\ sending = <<>> /\ latestAt \in Seq(Nat) /\ Len(latestAt) = height
    BY <1>6 DEF StorageInv
  <2>2. n = 0
    BY <2>1
  <2>3. DOMAIN q = {}
    BY <1>4, <2>2
  <2>4. proofBlocks' = proofBlocks
    BY <1>3, <1>4, <1>5, <2>2, <2>3 DEF MessageStep
  <2>5. latestAt' = Append(latestAt, 0)
    BY <1>6 DEF Block
  <2>6. latestAt' \in Seq(Nat) /\ Len(latestAt') = height'
    BY <1>1, <1>2, <2>1, <2>5 DEF h
  <2>7. queue' = <<>>
    <3>1. queue' = SubSeq(queue, n + 1, Len(queue))
      BY DEF Block
    <3> QED
      BY <2>1, <2>2, <3>1
  <2>8. channel' = <<>> /\ sending' = <<>>
    BY <2>1 DEF Block, sender
  <2> QED
    BY <1>2, <1>6, <2>4, <2>6, <2>7, <2>8 DEF StorageInv, Uploaded
<1>7. CASE Uploaded
  <2>1. InBlock(proofBlocks)
    BY <1>1, <1>7, FirstSetAssumption, SMTT(30) DEF StorageInv, InBlock
  <2>2. n \in Nat
    OBVIOUS
  <2>3. \A s \in SUBSET (1..n) : g[s] = MessageStep(g, q, status, height + 1, s)
    BY <1>2, <1>5, <2>2 DEF h
  <2>4. InBlock(proofBlocks')
    <3>1. InBlock(g[1..n])
      BY <1>1, <2>1, <2>2, <2>3, MessagesInBlock
    <3> QED
      BY <1>3, <1>4, <3>1
  <2>5. PICK top \in Nat :
        /\ FirstSet <= top
        /\ proofBlocks' = [s \in FirstSet..top |-> proofBlocks'[s]]
        /\ \A s \in FirstSet..top :
              /\ proofBlocks'[s] \in 1..h
              /\ proofBlocks'[s] <= height => latestAt[proofBlocks'[s]] = s
              /\ proofBlocks'[s] = h => s = top
    BY <2>4 DEF InBlock, h
  <2>6. Latest(proofBlocks') = top
    BY <2>5, LatestOf
  <2>7. latestAt' = Append(latestAt, top)
    BY <1>7, <2>6 DEF Block
  <2>8. latestAt' \in Seq(Nat) /\ Len(latestAt') = h
        /\ latestAt'[h] = top /\ \A i \in 1..height : latestAt'[i] = latestAt[i]
    BY <1>1, <2>7 DEF StorageInv, h
  <2>9. \A s \in FirstSet..top : proofBlocks'[s] \in 1..h /\ latestAt'[proofBlocks'[s]] = s
    <3> SUFFICES ASSUME NEW s \in FirstSet..top
                 PROVE  proofBlocks'[s] \in 1..h /\ latestAt'[proofBlocks'[s]] = s
      OBVIOUS
    <3>1. CASE proofBlocks'[s] = h
      BY <2>5, <2>8, <3>1
    <3>2. CASE proofBlocks'[s] # h
      <4>1. proofBlocks'[s] \in 1..height
        BY <1>1, <2>5, <3>2 DEF h
      <4> QED
        BY <1>1, <2>5, <2>8, <4>1
    <3> QED
      BY <3>1, <3>2
  <2>10. Uploaded'
    <3>1. FirstSet \in DOMAIN proofBlocks'
      BY <2>5, FirstSetAssumption
    <3> QED
      BY <3>1 DEF Uploaded
  <2> QED
    BY <1>2, <2>5, <2>8, <2>9, <2>10 DEF StorageInv
<1> QED
  BY <1>6, <1>7

LEMMA StorageInvStep ==
    ASSUME StorageInv, StorageNext \/ UNCHANGED storageVars
    PROVE  StorageInv'
<1>1. ASSUME Upload PROVE StorageInv'
  <2>1. /\ height' = height + 1 /\ height \in Nat \ {0}
        /\ proofBlocks' = [s \in FirstSet..FirstSet |-> height + 1]
        /\ latestAt' = Append(latestAt, FirstSet)
    <3>1. FirstSet..FirstSet = {FirstSet}
      BY FirstSetAssumption
    <3> QED
      BY <1>1, <3>1 DEF Upload, StorageInv
  <2>2. latestAt' \in Seq(Nat) /\ Len(latestAt') = height + 1 /\ latestAt'[height + 1] = FirstSet
    BY <2>1, FirstSetAssumption DEF StorageInv
  <2>3. Uploaded'
    <3>1. FirstSet \in DOMAIN proofBlocks'
      BY <2>1, FirstSetAssumption
    <3> QED
      BY <3>1 DEF Uploaded
  <2>4. proofBlocks' = [s \in FirstSet..FirstSet |-> proofBlocks'[s]]
    BY <2>1
  <2>5. \A s \in FirstSet..FirstSet : proofBlocks'[s] \in 1..height' /\ latestAt'[proofBlocks'[s]] = s
    BY <2>1, <2>2, FirstSetAssumption
  <2> QED
    BY <2>1, <2>2, <2>3, <2>4, <2>5, FirstSetAssumption DEF StorageInv
<1>2. ASSUME NEW i \in DOMAIN sending, Submit(i) \/ SubmitFails(i) \/ Pass(i) PROVE StorageInv'
  <2>1. Uploaded
    BY DEF StorageInv
  <2>2. UNCHANGED <<height, latestAt, proofBlocks>>
    BY <1>2 DEF Submit, SubmitFails, Pass, node
  <2> QED
    BY <2>1, <2>2 DEF StorageInv, Uploaded
<1>3. ASSUME Update PROVE StorageInv'
  BY <1>3 DEF Update, node, StorageInv, Uploaded
<1>4. ASSUME Take PROVE StorageInv'
  <2>1. UNCHANGED <<height, latestAt, proofBlocks, queue>> /\ channel' = <<>>
    BY <1>4 DEF Take, node
  <2>2. channel = <<>> /\ sending = <<>> => sending' = <<>>
    BY <1>4 DEF Take
  <2> QED
    BY <2>1, <2>2 DEF StorageInv, Uploaded
<1>5. ASSUME Events PROVE StorageInv'
  <2>1. UNCHANGED <<height, latestAt, proofBlocks, queue, channel>>
    BY <1>5 DEF Events, node
  <2>2. sending = <<>> => sending' = <<>>
    BY <1>5 DEF Events, FlattenSeq
  <2> QED
    BY <2>1, <2>2 DEF StorageInv, Uploaded
<1>6. ASSUME SenderEnds \/ Stop \/ New PROVE StorageInv'
  BY <1>6 DEF SenderEnds, Stop, New, node, sender, StorageInv, Uploaded
<1>7. ASSUME NEW set, GetProof(set) PROVE StorageInv'
  BY <1>7 DEF GetProof, node, sender, StorageInv, Uploaded
<1>8. ASSUME UNCHANGED storageVars PROVE StorageInv'
  BY <1>8 DEF storageVars, StorageInv, Uploaded
<1> QED
  BY <1>1, <1>2, <1>3, <1>4, <1>5, <1>6, <1>7, <1>8, BlockKeeps DEF StorageNext

\* Every proof that the program took can be read back from the block it has for
\* it, for any number of sets, messages and blocks and any resend timeout.
THEOREM StoredProofsStayReadable == StorageSpec => []ProofsReadable
<1>1. StorageInit => StorageInv
  BY DEF StorageInit, StorageInv, Uploaded
<1>2. StorageInv => ProofsReadable
  <2> SUFFICES ASSUME StorageInv PROVE ProofsReadable
    OBVIOUS
  <2>1. CASE Uploaded
    <3>1. PICK top \in Nat :
          /\ FirstSet <= top
          /\ proofBlocks = [s \in FirstSet..top |-> proofBlocks[s]]
          /\ \A s \in FirstSet..top : proofBlocks[s] \in 1..height /\ latestAt[proofBlocks[s]] = s
      BY <2>1 DEF StorageInv
    <3>2. DOMAIN proofBlocks = FirstSet..top /\ Latest(proofBlocks) = top
      BY <3>1, LatestOf
    <3> QED
      BY <3>1, <3>2 DEF ProofsReadable
  <2>2. CASE ~Uploaded
    BY <2>2 DEF ProofsReadable, Uploaded
  <2> QED
    BY <2>1, <2>2
<1>3. StorageInv /\ [StorageNext]_storageVars => StorageInv'
  BY StorageInvStep
<1> QED
  BY <1>1, <1>2, <1>3, PTL DEF StorageSpec
================================================================================
