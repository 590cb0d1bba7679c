------------------------------ MODULE KillSwitch -------------------------------
(****************************************************************************)
(* The kill switch relayer.  It compares every Merkle root that the Relayer  *)
(* contract took with the root of the Gear block, and submits the right root *)
(* of a block whose root is wrong, which stops the contract for good.  The   *)
(* finality proof it needs comes from the archiver, a task of its own that   *)
(* stores the GRANDPA justifications it is sent.  Both use connections of    *)
(* the ApiProvider and lose them independently.                              *)
(*                                                                           *)
(* Proving and comparing are abstracted: an event says whether its root is   *)
(* right.  What the archive holds is durable; all other state dies with the  *)
(* process, which any step may fail to survive.                              *)
(****************************************************************************)
EXTENDS ApiProvider, SequencesExt

CONSTANTS LastEth,      \* bound: the last Ethereum block that is finalized
          LastGear,     \* bound: the last Gear block that is finalized
          Posted,       \* MerkleRoot events in order: [eth, gear, ok]
          FromBlocks,   \* values of the --from-eth-block argument
          NoBlock,      \* no argument
          MAX_RETRIES   \* common::MAX_RETRIES

ASSUME PostedAssumption == Posted \in Seq([eth : Nat \ {0, 1}, gear : Nat, ok : BOOLEAN])
ASSUME FromAssumption == NoBlock \notin Nat \ {0} /\ FromBlocks \subseteq Nat \cup {NoBlock}

VARIABLES eth, gear,    \* latest finalized blocks
          stream,       \* justifications sent to the archiver and not read yet
          archive,      \* block_finality_storage: Gear blocks with a proof
          archiver,     \* "running", "reconnecting", "ended"
          kpc,          \* step of the relayer's loop, "exited" if none runs
          start,        \* start_from_eth_block
          last,         \* last_finalized_block of the turn
          todo,         \* events of the turn that are not compared yet: positions in Posted
          tx,           \* the kill switch transaction, "none" in State::Normal
          attempts,     \* turns of the loop, saturating at MAX_RETRIES
          base,         \* history: first Ethereum block that this process covers
          late          \* history: events final before their justification was stored

killVars == <<providerVars, eth, gear, stream, archive, archiver, kpc, start, last,
              todo, tx, attempts, base, late>>
chainVars    == <<eth, gear, late>>
archiverVars == <<stream, archive, archiver>>
loopVars     == <<kpc, start, last, todo, tx, attempts, base>>

Wrong == {e \in ToSet(Posted) : ~e.ok}

KillInit ==
    /\ ProviderInit
    /\ eth = 1 /\ gear = 1 /\ late = {}
    /\ stream = <<>> /\ archive = {} /\ archiver = "running"
    /\ kpc = "begin" /\ last = 0 /\ todo = {} /\ tx = "none" /\ attempts = 1
    /\ start \in FromBlocks
    /\ base = start

--------------------------------------------------------------------------------
\* An Ethereum block becomes final, and with it the roots posted in it.
EthFinalizes ==
    /\ eth < LastEth
    /\ eth' = eth + 1
    /\ late' = late \cup {e \in ToSet(Posted) : e.eth = eth' /\ e.gear \notin archive}
    /\ UNCHANGED <<gear, archiverVars, loopVars, providerVars>>

\* GRANDPA finalizes a Gear block, not always the next one; subscribers get its
\* justification.
GearFinalizes(b) ==
    /\ gear < b
    /\ gear' = b
    /\ stream' = IF archiver = "running" THEN Append(stream, b) ELSE stream
    /\ UNCHANGED <<eth, late, archive, archiver, loopVars, providerVars>>

\* The archiver produces and stores the finality proof of a justification.
Archive ==
    /\ kpc # "exited"
    /\ archiver = "running"
    /\ stream # <<>>
    /\ archive' = archive \cup {Head(stream)}
    /\ stream' = Tail(stream)
    /\ UNCHANGED <<archiver, chainVars, loopVars, providerVars>>

\* A call of the archiver fails: what it was sent meanwhile is lost.
ArchiverFails ==
    /\ kpc # "exited"
    /\ archiver = "running"
    /\ session < MaxSession
    /\ archiver' = "reconnecting"
    /\ stream' = <<>>
    /\ requests' = RequestSent("archiver")
    /\ UNCHANGED <<archive, chainVars, loopVars, session, provider, held>>

\* The request is answered: it subscribes again, or ends with the provider.
ArchiverReconnected ==
    /\ archiver = "reconnecting"
    /\ ~Asked("archiver")
    /\ archiver' = IF provider = "running" THEN "running" ELSE "ended"
    /\ UNCHANGED <<stream, archive, chainVars, loopVars, providerVars>>

--------------------------------------------------------------------------------
\* The process ends; whoever runs it starts it again.
Exit == /\ kpc' = "exited"
        /\ UNCHANGED <<start, last, todo, tx, attempts, base, archiverVars, chainVars,
                       providerVars>>

Crash == kpc # "exited" /\ Exit

Restart(arg) ==
    /\ kpc = "exited"
    /\ session' = 0 /\ provider' = "running" /\ requests' = <<>>
    /\ held' = [c \in Clients |-> 0]
    /\ stream' = <<>> /\ archiver' = "running"
    /\ kpc' = "begin" /\ last' = 0 /\ todo' = {} /\ tx' = "none" /\ attempts' = 1
    /\ start' = arg
    /\ base' = arg
    /\ UNCHANGED <<archive, chainVars>>

\* run: the turn is over and the next one counted; errors are not told apart.
EndTurn(state) ==
    /\ kpc' = IF state = "none" THEN "begin" ELSE "watch"
    /\ attempts' = IF attempts < MAX_RETRIES THEN attempts + 1 ELSE attempts

\* A call of main_loop or check_kill_switch_tx_finalized fails.
TurnFails ==
    /\ kpc \in {"begin", "fetch", "visit", "prove", "watch"}
    /\ attempts < MAX_RETRIES
    /\ kpc' = "reconnect"
    /\ todo' = {}
    /\ requests' = RequestSent("main")
    /\ UNCHANGED <<start, last, tx, attempts, base, archiverVars, chainVars, session,
                   provider, held>>

LastTurnFails ==
    /\ kpc \in {"begin", "fetch", "visit", "prove", "watch"}
    /\ attempts >= MAX_RETRIES
    /\ Exit

\* The connection is back, and the loop goes on.
Reconnected ==
    /\ kpc = "reconnect"
    /\ ~Asked("main")
    /\ provider = "running"
    /\ EndTurn(tx)
    /\ UNCHANGED <<start, last, todo, tx, base, archiverVars, chainVars, providerVars>>

NotReconnected ==
    /\ kpc = "reconnect"
    /\ ~Asked("main")
    /\ provider = "ended"
    /\ Exit

\* Mutant of NothingNew: a single new block does not count.
NothingNewOffByOne(from, to) == to <= from

\* Whether no block was finalized since the last turn.
NothingNew(from, to) == to < from

\* main_loop up to the range of blocks it works on.  A failing Gear node makes
\* sync_authority_set_id panic, which is a Crash.
Begin ==
    /\ kpc = "begin"
    /\ last' = eth
    /\ start' = IF start = NoBlock THEN eth ELSE start
    /\ base'  = IF base  = NoBlock THEN eth ELSE base
    /\ IF NothingNew(start', eth)
         THEN EndTurn(tx)
         ELSE kpc' = "fetch" /\ UNCHANGED attempts
    /\ UNCHANGED <<todo, tx, archiverVars, chainVars, providerVars>>

\* Mutant of StartAfterFetch: the range counts as done once it is read.
StartAfterFetchDone == last + 1

\* start_from_eth_block while the events of the turn are processed.
StartAfterFetch == start

\* fetch_merkle_roots_in_range.
Fetch ==
    /\ kpc = "fetch"
    /\ todo' = {i \in DOMAIN Posted : Posted[i].eth \in start..last}
    /\ start' = StartAfterFetch
    /\ kpc' = "visit"
    /\ UNCHANGED <<last, tx, attempts, base, archiverVars, chainVars, providerVars>>

\* The event that is compared next.
NextEvent == Posted[Min(todo)]

\* compare_merkle_roots and the archive's lookup for the next event.
Visit ==
    /\ kpc = "visit"
    /\ todo # {}
    /\ NextEvent.gear <= gear
    /\ IF ~NextEvent.ok /\ NextEvent.gear \in archive
         THEN kpc' = "prove" /\ UNCHANGED todo
         ELSE todo' = todo \ {Min(todo)} /\ UNCHANGED kpc
    /\ UNCHANGED <<start, last, tx, attempts, base, archiverVars, chainVars, providerVars>>

\* Every event is processed.
AllVisited ==
    /\ kpc = "visit"
    /\ todo = {}
    /\ start' = last + 1
    /\ EndTurn(tx)
    /\ UNCHANGED <<last, todo, tx, base, archiverVars, chainVars, providerVars>>

\* generate_proof and submit_merkle_root_to_ethereum.
Prove ==
    /\ kpc = "prove"
    /\ tx' = "pending"
    /\ todo' = {}
    /\ EndTurn(tx')
    /\ UNCHANGED <<start, last, base, archiverVars, chainVars, providerVars>>

\* check_kill_switch_tx_finalized.
Watch ==
    /\ kpc = "watch"
    /\ tx # "finalized"
    /\ tx' = "pending"
    /\ EndTurn(tx')
    /\ UNCHANGED <<start, last, todo, base, archiverVars, chainVars, providerVars>>

Done == kpc = "watch" /\ tx = "finalized" /\ Exit

\* Ethereum settles the transaction.
TxSettles(status) ==
    /\ tx = "pending"
    /\ tx' = status
    /\ UNCHANGED <<kpc, start, last, todo, attempts, base, archiverVars, chainVars,
                   providerVars>>

Fails == TurnFails \/ LastTurnFails

\* The root of a block that Gear does not have cannot be compared.
CannotVisit == kpc = "visit" /\ todo # {} /\ NextEvent.gear > gear /\ Fails

Loop == \/ Begin \/ Fetch \/ Visit \/ AllVisited \/ Prove \/ Watch \/ Done
        \/ CannotVisit \/ Reconnected \/ NotReconnected

\* The tasks of a process that has exited do not run.
Provide == kpc # "exited" /\ Serve /\ UNCHANGED <<chainVars, archiverVars, loopVars>>

KillNext ==
    \/ EthFinalizes
    \/ \E b \in 1..LastGear : GearFinalizes(b)
    \/ Archive \/ ArchiverFails \/ (kpc # "exited" /\ ArchiverReconnected)
    \/ Provide
    \/ Loop \/ Fails \/ Crash
    \/ \E arg \in FromBlocks : Restart(arg)
    \/ \E status \in {"failed", "finalized"} : TxSettles(status)

KillSpec == KillInit /\ [][KillNext]_killVars

\* The tasks of the process are scheduled and a call that may succeed is not
\* bound to fail; nothing is asked of the chains.
KillFairness == WF_killVars(Loop) /\ WF_killVars(Provide)

--------------------------------------------------------------------------------
(****************************************************************************)
(* The relayer passes a block with a wrong root only if the justification of *)
(* the Gear block was not archived when the Ethereum block became final: no  *)
(* error, retry or restart in the middle of a range skips one it could act   *)
(* on.                                                                       *)
(****************************************************************************)
WrongRootsNotPassed ==
    start # NoBlock =>
        \A e \in Wrong : (base <= e.eth /\ e.eth < start) => e \in late

\* A wrong root that the running process covers and could act on.
Threat == \E e \in Wrong \ late : base # NoBlock /\ base <= e.eth /\ e.eth <= eth

(****************************************************************************)
(* A wrong root in the relayer's range is answered by the kill switch        *)
(* transaction, unless the process ends first (where attempts are counted    *)
(* over all turns, so that the fifth error in its life ends it).             *)
(****************************************************************************)
KillSwitchFires == []<>(Threat => (tx # "none" \/ kpc = "exited"))
================================================================================
