-------------------------- MODULE MCEthereumContracts --------------------------
(****************************************************************************)
(* Block numbers wrap at 4: 1 and 5 have the same public inputs.  Block 2    *)
(* has two provable roots, so that the emergency stop happens.  Transfers of *)
(* both supply types and proxy updates of two successive governances are in  *)
(* the trees, most of them in more than one; ToForeign has the nonce of      *)
(* GearTransfer.  The proxy is handed over to an admin who changes it and    *)
(* may give it back.  Root D has no proof.                                   *)
(****************************************************************************)
EXTENDS EthereumContracts

Transfer(n, from, t, a) ==
    [nonce |-> n, sender |-> from, receiver |-> "ERC20Manager", op |-> "transfer",
     target |-> t, amount |-> a]
Update(n, from, op, x) ==
    [nonce |-> n, sender |-> from, receiver |-> "ProxyUpdater", op |-> op,
     target |-> x, amount |-> 0]

EthTransfer    == Transfer(1, "vft-manager", "usdc", 1)
GearTransfer   == Transfer(2, "vft-manager", "wvara", 2)
ForeignSender  == Transfer(3, "someone", "wvara", 2)
NewGovernance  == Update(4, "gov1", "changeGovernance", "gov2")
Upgrade1       == Update(5, "gov1", "upgrade", "impl1")
Upgrade2       == Update(6, "gov2", "upgrade", "impl2")
Handover       == Update(7, "gov2", "changeAdmin", "admin")
ToForeign      == [nonce |-> 2, sender |-> "someone", receiver |-> "other", op |-> "call",
                   target |-> "usdc", amount |-> 1]

Unproven       == [nonce |-> 9, sender |-> "someone", receiver |-> "other", op |-> "call",
                   target |-> "usdc", amount |-> 1]

MCMessages == {EthTransfer, GearTransfer, ForeignSender, NewGovernance, Upgrade1, Upgrade2, Handover,
               ToForeign, Unproven}
MCRoots == {"zero", "A", "B", "C", "D"}
MCLeaves == [r \in MCRoots |->
    CASE r = "A" -> {EthTransfer, GearTransfer, NewGovernance, Upgrade1}
      [] r = "B" -> {GearTransfer, ForeignSender, Upgrade1, Upgrade2, Handover}
      [] r = "C" -> {EthTransfer, ToForeign}
      [] r = "D" -> {Unproven}
      [] OTHER   -> {}]
MCProvable == {<<1, "A">>, <<2, "B">>, <<2, "C">>, <<3, "zero">>}
MCHeld0 == [t \in {"usdc", "wvara"} |-> IF t = "usdc" THEN 2 ELSE 0]
================================================================================
