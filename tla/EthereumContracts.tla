--------------------------- MODULE EthereumContracts ---------------------------
(****************************************************************************)
(* The bridge's contracts on Ethereum: Relayer (merkle roots of Gear blocks  *)
(* and the emergency stop), MessageQueue (delivery of Gear messages),        *)
(* ERC20Manager (lock/burn and unlock/mint of tokens) and ProxyUpdater with  *)
(* the ProxyContract that it administers.                                    *)
(*                                                                           *)
(* Every transaction is atomic and a reverted one changes nothing, so each   *)
(* action is one transaction that does not revert.  Two checks are modelled  *)
(* by what they establish: the PLONK verifier accepts exactly the public     *)
(* inputs of Provable pairs, and the merkle proof of processMessage accepts  *)
(* exactly the leaves of the root.  A token's holders are lumped together:   *)
(* held is what users own of it, locked is what ERC20Manager owns.           *)
(****************************************************************************)
EXTENDS Naturals, FiniteSets, FiniteSetsExt

CONSTANTS BlockNumbers,      \* values of the block_number argument
          BLOCK_WRAP,        \* 2^32: block numbers that public inputs tell apart
          Roots, ZeroRoot,   \* merkle roots; bytes32(0)
          Provable,          \* (masked block number, root) pairs with a proof
          Leaves,            \* the messages of each root's tree
          Messages,          \* VaraMessage records
          Tokens,            \* ERC20 token addresses
          GearSupply,        \* those that are ERC20GearSupply, owned by the manager
          Held0,             \* what users own of each token initially
          Amounts,           \* amounts that users may bridge
          VFT_MANAGER_ADDRESS,
          Updater,           \* the address of ProxyUpdater
          Admins,            \* addresses that may be made admin of the proxy: not zero
          Implementations,   \* addresses with code
          Governance0, Implementation0

ASSUME RelayerAssumption ==
    /\ BlockNumbers \subseteq Nat
    /\ BLOCK_WRAP \in Nat \ {0}
    /\ ZeroRoot \in Roots
    /\ Leaves \in [Roots -> SUBSET Messages]

\* Balances and amounts are uint256; ERC20Manager decodes its messages into the
\* address of a token and such an amount.
ASSUME TokensAssumption ==
    /\ Held0 \in [Tokens -> Nat]
    /\ Amounts \subseteq Nat
    /\ \A m \in Messages :
          m.receiver = "ERC20Manager" => m.target \in Tokens /\ m.amount \in Nat

VARIABLES blockRoot,         \* Relayer._block_numbers
          rootBlock,         \* Relayer._merkle_roots (0 for none)
          emergencyStop,     \* Relayer._emergencyStop
          processed,         \* MessageQueue._processed_messages: nonces
          tokenSupplyType,   \* ERC20Manager.tokenSupplyType
          held, locked,      \* token balances
          governance,        \* ProxyUpdater.governance
          proxyAdmin, implementation,   \* ProxyContract's ERC1967 slots
          requested,         \* history: amounts of BridgingRequested events
          delivered          \* history: messages of MessageProcessed events

relayerVars == <<blockRoot, rootBlock, emergencyStop>>
tokenVars   == <<tokenSupplyType, held, locked, requested>>
proxyVars   == <<governance, proxyAdmin, implementation>>
vars        == <<relayerVars, processed, tokenVars, proxyVars, delivered>>

Init ==
    /\ blockRoot = [b \in BlockNumbers |-> ZeroRoot]
    /\ rootBlock = [r \in Roots |-> 0]
    /\ emergencyStop = FALSE
    /\ processed = {}
    /\ tokenSupplyType = [t \in Tokens |-> "Unknown"]
    /\ held = Held0
    /\ locked = [t \in Tokens |-> 0]
    /\ governance = Governance0
    /\ proxyAdmin = Updater
    /\ implementation = Implementation0
    /\ requested = [t \in Tokens |-> 0]
    /\ delivered = {}

--------------------------------------------------------------------------------
(* Relayer *)

\* _buildPublicInputs keeps 32 bits of the block number and all of the root.
PublicInputs(b, r) == <<b % BLOCK_WRAP, r>>

\* submitMerkleRoot of a first, or of a repeated, root.
StoreMerkleRoot(b, r) ==
    /\ ~emergencyStop
    /\ PublicInputs(b, r) \in Provable
    /\ blockRoot[b] \in {ZeroRoot, r}
    /\ blockRoot' = [blockRoot EXCEPT ![b] = r]
    /\ rootBlock' = [rootBlock EXCEPT ![r] = b]
    /\ UNCHANGED <<emergencyStop, processed, tokenVars, proxyVars, delivered>>

\* submitMerkleRoot of a root that contradicts the stored one.
StopOnConflict(b, r) ==
    /\ ~emergencyStop
    /\ PublicInputs(b, r) \in Provable
    /\ blockRoot[b] \notin {ZeroRoot, r}
    /\ emergencyStop' = TRUE
    /\ UNCHANGED <<blockRoot, rootBlock, processed, tokenVars, proxyVars, delivered>>

--------------------------------------------------------------------------------
(* MessageQueue: the part of processMessage before the receiver is called. *)

\* Mutants of ProvenInBlock: no merkle proof, and no look at the stop.
AnyMessageOfBlock(b, m) ==
    /\ ~emergencyStop
    /\ blockRoot[b] # ZeroRoot

ProvenDespiteStop(b, m) ==
    /\ blockRoot[b] # ZeroRoot
    /\ m \in Leaves[blockRoot[b]]

\* getMerkleRoot does not revert and the merkle proof leads to its answer.
ProvenInBlock(b, m) ==
    /\ ~emergencyStop
    /\ blockRoot[b] # ZeroRoot
    /\ m \in Leaves[blockRoot[b]]

\* Mutant of Accept: the nonce is not marked.
AcceptAgain(b, m) ==
    /\ m.nonce \notin processed
    /\ ProvenInBlock(b, m)
    /\ delivered' = delivered \cup {m}
    /\ UNCHANGED processed

Accept(b, m) ==
    /\ m.nonce \notin processed
    /\ ProvenInBlock(b, m)
    /\ processed' = processed \cup {m.nonce}
    /\ delivered' = delivered \cup {m}

--------------------------------------------------------------------------------
(* ERC20Manager *)

\* processVaraMessage: transfer out of the locked balance, or mint.
ReleaseTokens(t, a) ==
    IF tokenSupplyType[t] = "Ethereum"
    THEN /\ locked[t] >= a
         /\ locked' = [locked EXCEPT ![t] = @ - a]
         /\ held' = [held EXCEPT ![t] = @ + a]
         /\ UNCHANGED tokenSupplyType
    ELSE /\ t \in GearSupply
         /\ tokenSupplyType' = [tokenSupplyType EXCEPT ![t] = "Gear"]
         /\ held' = [held EXCEPT ![t] = @ + a]
         /\ UNCHANGED locked

\* processMessage of a message to ERC20Manager.
ProcessTransfer(b, m) ==
    /\ m.receiver = "ERC20Manager"
    /\ m.sender = VFT_MANAGER_ADDRESS
    /\ Accept(b, m)
    /\ ReleaseTokens(m.target, m.amount)
    /\ UNCHANGED <<relayerVars, proxyVars, requested>>

\* requestBridging: burn, or transfer into the locked balance.
RequestBridging(t, a) ==
    /\ held[t] >= a
    /\ held' = [held EXCEPT ![t] = @ - a]
    /\ IF tokenSupplyType[t] = "Gear"
       THEN UNCHANGED <<locked, tokenSupplyType>>
       ELSE /\ tokenSupplyType' = [tokenSupplyType EXCEPT ![t] = "Ethereum"]
            /\ locked' = [locked EXCEPT ![t] = @ + a]
    /\ requested' = [requested EXCEPT ![t] = @ + a]
    /\ UNCHANGED <<relayerVars, processed, proxyVars, delivered>>

--------------------------------------------------------------------------------
(* ProxyUpdater and ProxyContract *)

UpdateProxy(m) ==
    \/ /\ m.op = "upgrade"
       /\ proxyAdmin = Updater
       /\ m.target \in Implementations
       /\ implementation' = m.target
       /\ UNCHANGED <<governance, proxyAdmin>>
    \/ /\ m.op = "changeAdmin"
       /\ proxyAdmin = Updater
       /\ m.target \in Admins
       /\ proxyAdmin' = m.target
       /\ UNCHANGED <<governance, implementation>>
    \/ /\ m.op = "changeGovernance"
       /\ governance' = m.target
       /\ UNCHANGED <<proxyAdmin, implementation>>

\* processMessage of a message to ProxyUpdater.
ProcessUpdate(b, m) ==
    /\ m.receiver = "ProxyUpdater"
    /\ m.sender = governance
    /\ Accept(b, m)
    /\ UpdateProxy(m)
    /\ UNCHANGED <<relayerVars, tokenVars>>

\* upgradeToAndCall and changeProxyAdmin, called on ProxyContract by an admin that
\* is not ProxyUpdater; ProxyUpdater itself calls them only in UpdateProxy.
UpgradeByAdmin(impl) ==
    /\ proxyAdmin # Updater
    /\ implementation' = impl
    /\ UNCHANGED <<relayerVars, processed, tokenVars, governance, proxyAdmin, delivered>>

ChangeAdminByAdmin(admin) ==
    /\ proxyAdmin # Updater
    /\ proxyAdmin' = admin
    /\ UNCHANGED <<relayerVars, processed, tokenVars, governance, implementation, delivered>>

--------------------------------------------------------------------------------
\* processMessage of a message to a contract outside the bridge.
ProcessForeign(b, m) ==
    /\ m.receiver \notin {"ERC20Manager", "ProxyUpdater"}
    /\ Accept(b, m)
    /\ UNCHANGED <<relayerVars, tokenVars, proxyVars>>

Next ==
    \/ \E b \in BlockNumbers, r \in Roots : StoreMerkleRoot(b, r) \/ StopOnConflict(b, r)
    \/ \E b \in BlockNumbers, m \in Messages :
           ProcessTransfer(b, m) \/ ProcessUpdate(b, m) \/ ProcessForeign(b, m)
    \/ \E t \in Tokens, a \in Amounts : RequestBridging(t, a)
    \/ \E impl \in Implementations : UpgradeByAdmin(impl)
    \/ \E admin \in Admins : ChangeAdminByAdmin(admin)

Spec == Init /\ [][Next]_vars

--------------------------------------------------------------------------------
(* Properties. *)

\* The total amount that delivered messages carried for a token.
Total(messages) == MapThenSumSet(LAMBDA m : m.amount, messages)
Transfers(t)    == {m \in delivered : m.receiver = "ERC20Manager" /\ m.target = t}
Paid(t)         == Total(Transfers(t))

\* A root that submitMerkleRoot stored for a block was proven for that block
\* number, up to the 32 bits of the public inputs.
RootsAreProven ==
    \A b \in BlockNumbers :
        blockRoot[b] # ZeroRoot => PublicInputs(b, blockRoot[b]) \in Provable

\* submitMerkleRoot never exchanges a stored root for another one.
RootNeverReplaced ==
    [][\A b \in BlockNumbers : blockRoot[b] # ZeroRoot => blockRoot'[b] = blockRoot[b]]_vars

\* Once a contradicting root was proven nothing that comes from Gear is accepted:
\* no root, no token release, no change of the governance or of a proxy that
\* ProxyUpdater administers.  Tokens can still be sent to Gear, and a proxy that was
\* given to another admin is still that admin's to change.
StopIsFinal ==
    [][emergencyStop =>
           /\ UNCHANGED <<relayerVars, processed, governance, delivered>>
           /\ proxyAdmin = Updater => UNCHANGED <<proxyAdmin, implementation>>]_vars

\* Every delivered message is a leaf of a root proven for some block, and no two
\* delivered messages share a nonce, though trees of several blocks hold it.
DeliveredAreProven ==
    /\ \A m \in delivered :
          \E b \in BlockNumbers, r \in Roots :
              PublicInputs(b, r) \in Provable /\ m \in Leaves[r]
    /\ \A m, n \in delivered : m.nonce = n.nonce => m = n

\* A token's balances follow from the requests made on Ethereum and the messages
\* delivered from Gear: every request and every message is accounted for once, in
\* the way that the token's supply type asks for.
LedgerMatchesEvents ==
    \A t \in Tokens :
        CASE tokenSupplyType[t] = "Unknown"  -> locked[t] = 0 /\ held[t] = Held0[t]
          [] tokenSupplyType[t] = "Ethereum" -> /\ locked[t] + Paid(t) = requested[t]
                                                /\ held[t] + locked[t] = Held0[t]
          [] tokenSupplyType[t] = "Gear"     -> /\ held[t] + requested[t] = Held0[t] + Paid(t)
                                                /\ locked[t] = 0

\* What message m asks of the proxy is what happens to it.
Obeyed(m) ==
    \/ m.op = "upgrade" /\ implementation' = m.target /\ proxyAdmin' = proxyAdmin
    \/ m.op = "changeAdmin" /\ proxyAdmin' = m.target /\ implementation' = implementation

\* As long as ProxyUpdater administers the proxy, a change of the proxy is what a
\* message of the governance of that moment asks for, a message delivered in that
\* very step and never before, of a block with a proven root.  While somebody
\* else administers it, only a direct call changes it: no message delivered from
\* Gear does, until that admin gives the proxy back.
ProxyFollowsItsAdmin ==
    [][\/ UNCHANGED <<proxyAdmin, implementation>>
       \/ /\ proxyAdmin = Updater
          /\ ~emergencyStop
          /\ \E m \in delivered' \ delivered :
                /\ m.receiver = "ProxyUpdater" /\ m.sender = governance
                /\ \E b \in BlockNumbers :
                      PublicInputs(b, blockRoot[b]) \in Provable /\ m \in Leaves[blockRoot[b]]
                /\ Obeyed(m)
       \/ /\ proxyAdmin # Updater
          /\ UNCHANGED <<relayerVars, processed, tokenVars, governance, delivered>>]_vars
================================================================================
