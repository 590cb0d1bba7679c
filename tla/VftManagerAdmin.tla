---------------------------- MODULE VftManagerAdmin ----------------------------
(****************************************************************************)
(* The administration of the vft-manager program: its roles and settings,    *)
(* the token map, pausing, the replacement of token programs that have       *)
(* exited (update_vfts) and the upgrade to a new vft-manager.                *)
(*                                                                           *)
(* update_vfts and upgrade await replies of token programs, and every other  *)
(* message may be handled meanwhile, other calls of the two included.        *)
(* update_vfts iterates over the map itself while it awaits, so whether it   *)
(* meets an entry that is added or removed then is undefined: the model      *)
(* allows both.  A panic undoes what the message did since its last await.   *)
(****************************************************************************)
EXTENDS Naturals, FiniteSetsExt, Functions

CONSTANTS Actors,       \* callers; the program is created by Deployer
          Deployer,
          Vfts, Erc20s, \* token programs on Gear, tokens on Ethereum
          Managers,     \* vft-manager programs an upgrade may name
          VftMaps,      \* replacements an admin may pass to update_vfts
          Fields,       \* erc20_manager_address, historical_proxy_address, CONFIG
          Nobody,       \* no address, no call
          MaxCalls      \* bound: calls of update_vfts, upgrade and the setters together

ASSUME NobodyAssumption == Nobody \notin Vfts \cup Managers
ASSUME VftMapsAssumption == \A map \in VftMaps : \A v \in DOMAIN map : map[v] \in Vfts

\* Message ids of update_vfts and upgrade.
Requests == 1 .. MaxCalls

VARIABLES admin, pauseAdmin, paused,
          settings,     \* the fields that were changed
          varaToEth,    \* TokenMap::vara_to_eth, with the supply left out
          ethToVara,    \* TokenMap::eth_to_vara
          newManager,   \* vft_manager_new
          exited,       \* whether the program has exited
          active,       \* token programs that have not exited
          balance,      \* tokens of the vft-manager with every token program
          update,       \* the running update_vfts: [map, left, v2e, e2v], or Nobody
          upgrade,      \* the running upgrades: [left, token], or Nobody
          calls,        \* number of these calls so far
          disturbed,    \* history: the map changed under an update, or one merged tokens
          arrived       \* history: tokens that came, or were mapped, during an upgrade

roleVars  == <<admin, pauseAdmin, paused, settings>>
mapVars   == <<varaToEth, ethToVara>>
tokenVars == <<active, balance>>
adminVars == <<roleVars, mapVars, newManager, exited, tokenVars, update, upgrade, calls,
               disturbed, arrived>>

AdminInit ==
    /\ admin = Deployer /\ pauseAdmin = Deployer /\ paused = FALSE
    /\ settings = {}
    /\ varaToEth = <<>> /\ ethToVara = <<>>
    /\ newManager = Nobody /\ exited = FALSE
    /\ active = Vfts /\ balance = [v \in Vfts |-> 0]
    /\ update = [q \in Requests |-> Nobody] /\ upgrade = [q \in Requests |-> Nobody]
    /\ calls = 0
    /\ disturbed = FALSE /\ arrived = {}

--------------------------------------------------------------------------------
\* Calls are numbered: the message id of the next one is calls + 1.
Counted == calls < MaxCalls /\ calls' = calls + 1

Updating  == \E q \in Requests : update[q] # Nobody
Upgrading == \E q \in Requests : upgrade[q] # Nobody

ensure_admin(caller) == ~exited /\ caller = admin

\* update_erc20_manager_address, update_historical_proxy_address, update_config.
UpdateSetting(caller, field) ==
    /\ ensure_admin(caller)
    /\ settings' = settings \cup {field}
    /\ Counted
    /\ UNCHANGED <<admin, pauseAdmin, paused, mapVars, newManager, exited, tokenVars,
                   update, upgrade, disturbed, arrived>>

SetAdmins(caller, actor) ==
    /\ ensure_admin(caller)
    /\ \/ admin' = actor /\ UNCHANGED pauseAdmin
       \/ pauseAdmin' = actor /\ UNCHANGED admin
    /\ Counted
    /\ UNCHANGED <<paused, settings, mapVars, newManager, exited, tokenVars, update,
                   upgrade, disturbed, arrived>>

\* Mutant of MayInsert: only the token's own entry is looked at.
MayInsertVft(vft, erc20) == vft \notin DOMAIN varaToEth

\* TokenMap::insert panics where either side has an entry.
MayInsert(vft, erc20) == vft \notin DOMAIN varaToEth /\ erc20 \notin DOMAIN ethToVara

With(f, x, y) == [z \in DOMAIN f \cup {x} |-> IF z = x THEN y ELSE f[z]]
Without(f, x) == [z \in DOMAIN f \ {x} |-> f[z]]

\* map_vara_to_eth_address.
MapToken(caller, vft, erc20) ==
    /\ ensure_admin(caller)
    /\ MayInsert(vft, erc20)
    /\ varaToEth' = With(varaToEth, vft, erc20)
    /\ ethToVara' = With(ethToVara, erc20, vft)
    /\ disturbed' = (disturbed \/ Updating)
    /\ arrived' = IF Upgrading THEN arrived \cup {vft} ELSE arrived
    /\ UNCHANGED <<roleVars, newManager, exited, tokenVars, update, upgrade, calls>>

\* remove_vara_to_eth_address panics where either side has no entry.
RemoveToken(caller, vft) ==
    /\ ensure_admin(caller)
    /\ vft \in DOMAIN varaToEth
    /\ varaToEth[vft] \in DOMAIN ethToVara
    /\ varaToEth' = Without(varaToEth, vft)
    /\ ethToVara' = Without(ethToVara, varaToEth[vft])
    /\ disturbed' = (disturbed \/ Updating)
    /\ UNCHANGED <<roleVars, newManager, exited, tokenVars, update, upgrade, calls, arrived>>

Pause(caller) ==
    /\ ~exited
    /\ caller \in {admin, pauseAdmin}
    /\ ~paused
    /\ paused' = TRUE
    /\ UNCHANGED <<admin, pauseAdmin, settings, mapVars, newManager, exited, tokenVars,
                   update, upgrade, calls, disturbed, arrived>>

Unpause(caller) ==
    /\ ~exited
    /\ caller \in {admin, pauseAdmin}
    /\ paused
    /\ newManager = Nobody
    /\ paused' = FALSE
    /\ UNCHANGED <<admin, pauseAdmin, settings, mapVars, newManager, exited, tokenVars,
                   update, upgrade, calls, disturbed, arrived>>

--------------------------------------------------------------------------------
\* The token programs: one exits, or a deposit that was requested earlier arrives.
VftExits(vft) ==
    /\ active' = active \ {vft}
    /\ UNCHANGED <<roleVars, mapVars, newManager, exited, balance, update, upgrade, calls,
                   disturbed, arrived>>

Deposit(vft) ==
    /\ vft \in active \cap DOMAIN varaToEth
    /\ balance[vft] = 0
    /\ balance' = [balance EXCEPT ![vft] = 1]
    /\ arrived' = IF Upgrading \/ exited THEN arrived \cup {vft} ELSE arrived
    /\ UNCHANGED <<roleVars, mapVars, newManager, exited, active, update, upgrade, calls,
                   disturbed>>

--------------------------------------------------------------------------------
\* update_vfts is called; it starts with the first entry.
UpdateVfts(caller, map) ==
    /\ ensure_admin(caller)
    /\ Counted
    /\ update' = [update EXCEPT ![calls'] = [map |-> map, left |-> DOMAIN varaToEth,
                                             v2e |-> <<>>, e2v |-> <<>>]]
    /\ UNCHANGED <<roleVars, mapVars, newManager, exited, tokenVars, upgrade, disturbed,
                   arrived>>

\* The token program of the new maps for one of the old map.
VftNew(map, vft) == IF vft \in DOMAIN map /\ vft \notin active THEN map[vft] ELSE vft

\* A running update_vfts with the entry vft |-> erc20 carried over to its maps.
Carried(u, vft, erc20) ==
    [map  |-> u.map,
     left |-> u.left \ {vft},
     v2e  |-> With(u.v2e, VftNew(u.map, vft), erc20),
     e2v  |-> With(u.e2v, erc20, VftNew(u.map, vft))]

\* One entry of the map, whose program answers with its balance or is inactive.
UpdateEntry(q, vft) ==
    /\ update[q] # Nobody
    /\ ~exited
    /\ \/ vft \in update[q].left
       \/ vft \in DOMAIN varaToEth /\ vft \notin DOMAIN update[q].v2e  \* added meanwhile
    /\ vft \in DOMAIN varaToEth
    /\ update' = [update EXCEPT ![q] = Carried(@, vft, varaToEth[vft])]
    /\ disturbed' = (disturbed \/ VftNew(update[q].map, vft) \in DOMAIN update[q].v2e
                               \/ varaToEth[vft] \in DOMAIN update[q].e2v)
    /\ UNCHANGED <<roleVars, mapVars, newManager, exited, tokenVars, upgrade, calls, arrived>>

\* The maps are built: they replace the old ones unless nothing changed, also
\* under another update_vfts that still iterates over them.
UpdateDone(q) ==
    /\ update[q] # Nobody
    /\ ~exited
    /\ update[q].left \cap DOMAIN varaToEth = {}
    /\ update' = [update EXCEPT ![q] = Nobody]
    /\ IF update[q].e2v = ethToVara
         THEN UNCHANGED <<mapVars, disturbed>>
         ELSE /\ varaToEth' = update[q].v2e /\ ethToVara' = update[q].e2v
              /\ disturbed' = (disturbed \/ \E p \in Requests \ {q} : update[p] # Nobody)
    /\ arrived' = IF Upgrading
                    THEN arrived \cup (DOMAIN varaToEth' \ DOMAIN varaToEth) ELSE arrived
    /\ UNCHANGED <<roleVars, newManager, exited, tokenVars, upgrade, calls>>

\* A token program fails in another way, or the gas runs out: panic.
UpdatePanics(q) ==
    /\ update[q] # Nobody
    /\ update' = [update EXCEPT ![q] = Nobody]
    /\ UNCHANGED <<roleVars, mapVars, newManager, exited, tokenVars, upgrade, calls,
                   disturbed, arrived>>

--------------------------------------------------------------------------------
\* upgrade is called: a repeated call names the same program.
Upgrade(caller, manager) ==
    /\ ensure_admin(caller)
    /\ paused
    /\ newManager \in {Nobody, manager}
    /\ Counted
    /\ newManager' = manager
    /\ upgrade' = [upgrade EXCEPT ![calls'] = [left |-> DOMAIN varaToEth, token |-> Nobody]]
    /\ UNCHANGED <<roleVars, mapVars, exited, tokenVars, update, disturbed, arrived>>

\* The balance with the next token, which is transferred where there is one.
UpgradeBalance(q, vft) ==
    /\ upgrade[q] # Nobody
    /\ upgrade[q].token = Nobody
    /\ vft \in upgrade[q].left \cap active
    /\ upgrade' = [upgrade EXCEPT ![q] =
                     [left |-> upgrade[q].left \ {vft},
                      token |-> IF balance[vft] > 0 THEN vft ELSE Nobody]]
    /\ UNCHANGED <<roleVars, mapVars, newManager, exited, tokenVars, update, calls, disturbed,
                   arrived>>

\* Mutant of AfterRefusal: a transfer that is refused is passed over.
AfterRefusalIgnored(u) == [u EXCEPT !.token = Nobody]

\* What a transfer that is refused leaves of the call: it panics.
AfterRefusal(u) == Nobody

\* The transfer is refused also where another upgrade has moved the tokens.
UpgradeTransfer(q, ok) ==
    /\ upgrade[q] # Nobody
    /\ upgrade[q].token # Nobody
    /\ IF ok
         THEN /\ upgrade[q].token \in active
              /\ balance[upgrade[q].token] > 0
              /\ balance' = [balance EXCEPT ![upgrade[q].token] = 0]
              /\ upgrade' = [upgrade EXCEPT ![q].token = Nobody]
         ELSE /\ upgrade' = [upgrade EXCEPT ![q] = AfterRefusal(@)]
              /\ UNCHANGED balance
    /\ UNCHANGED <<roleVars, mapVars, newManager, exited, active, update, calls, disturbed,
                   arrived>>

\* A token program does not answer, or has exited.
UpgradePanics(q) ==
    /\ upgrade[q] # Nobody
    /\ upgrade' = [upgrade EXCEPT ![q] = Nobody]
    /\ UNCHANGED <<roleVars, mapVars, newManager, exited, tokenVars, update, calls, disturbed,
                   arrived>>

\* exec::exit once every token is moved; it ends the other calls too.
UpgradeDone(q) ==
    /\ upgrade[q] # Nobody
    /\ upgrade[q].left = {}
    /\ upgrade[q].token = Nobody
    /\ exited' = TRUE
    /\ upgrade' = [p \in Requests |-> Nobody]
    /\ update' = [p \in Requests |-> Nobody]
    /\ UNCHANGED <<roleVars, mapVars, newManager, tokenVars, calls, disturbed, arrived>>

AdminNext ==
    \/ \E caller \in Actors :
         \/ \E f \in Fields : UpdateSetting(caller, f)
         \/ \E a \in Actors : SetAdmins(caller, a)
         \/ \E v \in Vfts, e \in Erc20s : MapToken(caller, v, e)
         \/ \E v \in Vfts : RemoveToken(caller, v)
         \/ Pause(caller) \/ Unpause(caller)
         \/ \E map \in VftMaps : UpdateVfts(caller, map)
         \/ \E m \in Managers : Upgrade(caller, m)
    \/ \E v \in Vfts : VftExits(v) \/ Deposit(v)
    \/ \E q \in Requests :
         \/ \E v \in Vfts : UpdateEntry(q, v) \/ UpgradeBalance(q, v)
         \/ UpdateDone(q) \/ UpdatePanics(q)
         \/ \E ok \in BOOLEAN : UpgradeTransfer(q, ok)
         \/ UpgradePanics(q) \/ UpgradeDone(q)

AdminSpec == AdminInit /\ [][AdminNext]_adminVars

--------------------------------------------------------------------------------
(****************************************************************************)
(* The two directions of the token map are inverse to each other, so that    *)
(* tokens locked for one side are paid out by the other, unless the map was  *)
(* changed while update_vfts awaited or was told to merge two tokens.        *)
(****************************************************************************)
TokenMapsAgree ==
    disturbed \/
    /\ \A v \in DOMAIN varaToEth :
         varaToEth[v] \in DOMAIN ethToVara /\ ethToVara[varaToEth[v]] = v
    /\ \A e \in DOMAIN ethToVara :
         ethToVara[e] \in DOMAIN varaToEth /\ varaToEth[ethToVara[e]] = e

(****************************************************************************)
(* An upgrade exits only when nothing is left behind: the old vft-manager    *)
(* holds no tokens of a mapped program except ones that arrived, or were     *)
(* mapped, while the upgrade was running, and no later unpause reopens it.   *)
(****************************************************************************)
UpgradeLeavesNothing ==
    exited => /\ paused
              /\ \A v \in DOMAIN varaToEth \ arrived : v \in active => balance[v] = 0
================================================================================
