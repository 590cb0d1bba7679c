---------------------------- MODULE HistoricalProxy ----------------------------
(****************************************************************************)
(* The historical-proxy program and the eth-events programs behind it.  A    *)
(* user's redirect names a slot, which picks the eth-events program, and a   *)
(* proof, which that program checks against a checkpoint of the light        *)
(* client; the checked receipt is then sent to the client the user names.    *)
(* Each of the three calls is awaited while other messages are handled.      *)
(*                                                                           *)
(* A beacon block is a record [root, slot, parent, receipts]: its hash tree  *)
(* root, its slot, its parent's root and the function of transaction index   *)
(* to receipt that its receipts root commits to.  Canonical are the blocks   *)
(* of the chain; the other ones are what a user may make up.  A user may     *)
(* also submit any receipt under any index of a block: the trie proof        *)
(* succeeds for the receipt that the block commits to there.                 *)
(****************************************************************************)
EXTENDS Naturals, SequencesExt, FiniteSetsExt

CONSTANTS Canonical,    \* blocks of the beacon chain
          MadeUp,       \* other blocks with a correct hash
          Receipts, Indices,   \* receipts and transaction indices users may submit
          Successful,   \* receipts of transactions that succeeded
          Checkpoints,  \* slots of Canonical that become checkpoints
          Users,        \* callers that may be the admin
          Calls,        \* redirects that may run at the same time
          Programs, NewSlots,   \* eth-events programs, their first slots
          MaxHeaders,   \* bound: headers of a proof
          Creator,      \* the caller that created the proxy
          Idle          \* no call

Blocks == Canonical \cup MadeUp
RootOf(slot) == (CHOOSE b \in Canonical : b.slot = slot).root

\* Roots are hashes without collisions: a block with the root of another one is
\* that one, and the parent that a canonical block names is canonical.
ASSUME RootsAssumption ==
    /\ \A b, c \in Blocks : b.root = c.root => b = c
    /\ \A b \in Canonical, c \in Blocks : c.root = b.parent => c \in Canonical
ASSUME BlocksAssumption ==
    /\ IsFiniteSet(Blocks)
    /\ \A b \in Blocks : b.root # "broken"
    /\ \A b \in Blocks : b.slot \in Nat
    /\ Checkpoints \subseteq {b.slot : b \in Canonical}

VARIABLES owner,        \* ProxyState::admin
          endpoints,    \* EndpointList: [slot, program] in ascending order of slots
          known,        \* slots of the light client's checkpoints
          redirects,    \* the redirects that run
          delivered     \* what clients were called with: [slot, index, receipt]

proxyVars == <<owner, endpoints, known, redirects, delivered>>

ProxyInit ==
    /\ owner = Creator
    /\ endpoints = <<>>
    /\ known = {}
    /\ redirects = [c \in Calls |-> Idle]
    /\ delivered = {}

--------------------------------------------------------------------------------
\* The light client takes over its next checkpoint.
NewCheckpoint(slot) ==
    /\ \A s \in known : s < slot
    /\ known' = known \cup {slot}
    /\ UNCHANGED <<owner, endpoints, redirects, delivered>>

update_admin(caller, new) ==
    /\ caller = owner
    /\ owner' = new
    /\ UNCHANGED <<endpoints, known, redirects, delivered>>

\* EndpointList::push panics unless the slot is the greatest.
add_endpoint(caller, slot, program) ==
    /\ caller = owner
    /\ endpoints # <<>> => Last(endpoints).slot < slot
    /\ endpoints' = Append(endpoints, [slot |-> slot, program |-> program])
    /\ UNCHANGED <<owner, known, redirects, delivered>>

\* endpoint_for: the position of the entry with the slot or, if the search ends
\* between two entries, of the one before; 0 if there is none.
EndpointFor(slot) == Cardinality({i \in DOMAIN endpoints : endpoints[i].slot <= slot})

\* redirect up to its first await.
Redirect(call, slot, block, headers, index, receipt) ==
    /\ redirects[call] = Idle
    /\ EndpointFor(slot) # 0
    /\ redirects' = [redirects EXCEPT ![call] =
                       [step |-> "check", program |-> endpoints[EndpointFor(slot)].program,
                        block |-> block, headers |-> headers, index |-> index,
                        receipt |-> receipt]]
    /\ UNCHANGED <<owner, endpoints, known, delivered>>

--------------------------------------------------------------------------------
\* The light client's answer: the root of its first checkpoint at or after a slot.
CheckpointFor(slot) == RootOf(Min({s \in known : s >= slot}))

\* Folding the headers from the checkpoint down gives the root of the block below
\* the last of them; the fold breaks at a header that is not the expected one.
Broken == "broken"
Lowest(headers) == CHOOSE h \in headers : \A g \in headers : h.slot <= g.slot
FoldHeaders(checkpoint, headers) ==
    MapThenFoldSet(LAMBDA h, root : IF root = h.root THEN h.parent ELSE Broken,
                   checkpoint, LAMBDA h : h, Lowest, headers)

\* Mutant of ValidBlock: the headers form a chain, whatever the block.
ValidChain(block, headers) == FoldHeaders(CheckpointFor(block.slot), headers) # Broken

\* The block is the one that the chain of headers ends with.
ValidBlock(block, headers) == FoldHeaders(CheckpointFor(block.slot), headers) = block.root

\* Mutant of ReceiptProven: the receipts root is not looked at.
ReceiptUnproven(block, index, receipt) == index \in DOMAIN block.receipts

\* The trie proof of the receipt leads to the receipts root of the block.
ReceiptProven(block, index, receipt) ==
    /\ index \in DOMAIN block.receipts
    /\ block.receipts[index] = receipt

\* Proofs::check: what eth-events answers with success.
Checked(block, headers, index, receipt) ==
    /\ receipt \in Successful
    /\ \E s \in known : s >= block.slot
    /\ ValidBlock(block, headers)
    /\ ReceiptProven(block, index, receipt)

\* The eth-events program answers; the client is called with the slot of the block.
CheckProofs(call) ==
    /\ redirects[call] # Idle
    /\ redirects[call].step = "check"
    /\ LET r == redirects[call]
       IN  IF Checked(r.block, r.headers, r.index, r.receipt)
             THEN /\ redirects' = [redirects EXCEPT ![call].step = "call"]
                  /\ delivered' = delivered \cup {[slot |-> r.block.slot, index |-> r.index,
                                                   receipt |-> r.receipt]}
             ELSE /\ redirects' = [redirects EXCEPT ![call] = Idle]
                  /\ UNCHANGED delivered
    /\ UNCHANGED <<owner, endpoints, known>>

\* The client replies or fails; redirect ends either way.
ClientReplies(call) ==
    /\ redirects[call] # Idle
    /\ redirects[call].step = "call"
    /\ redirects' = [redirects EXCEPT ![call] = Idle]
    /\ UNCHANGED <<owner, endpoints, known, delivered>>

ProxyNext ==
    \/ \E s \in Checkpoints : NewCheckpoint(s)
    \/ \E u, new \in Users : update_admin(u, new)
    \/ \E u \in Users, s \in NewSlots, p \in Programs : add_endpoint(u, s, p)
    \/ \E c \in Calls :
         \/ \E b \in Blocks, headers \in UNION {kSubset(n, Blocks) : n \in 0..MaxHeaders} :
              \E s \in NewSlots, i \in Indices, r \in Receipts :
                 Redirect(c, s, b, headers, i, r)
         \/ CheckProofs(c) \/ ClientReplies(c)

ProxySpec == ProxyInit /\ [][ProxyNext]_proxyVars

--------------------------------------------------------------------------------
(****************************************************************************)
(* Whatever blocks, headers, indices and receipts users make up, and however *)
(* their calls overlap with new checkpoints, endpoints and admins, a client  *)
(* is called only with the receipt of a transaction that succeeded in the    *)
(* block that the beacon chain has at that slot, under its own index.        *)
(****************************************************************************)
DeliveredAreCanonical ==
    \A d \in delivered :
        /\ d.receipt \in Successful
        /\ \E b \in Canonical : /\ b.slot = d.slot
                                /\ d.index \in DOMAIN b.receipts
                                /\ b.receipts[d.index] = d.receipt
================================================================================
