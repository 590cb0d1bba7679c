------------------------------ MODULE MCServices -------------------------------
(****************************************************************************)
(* The services that do not share state, checked in one run: every behaviour *)
(* is one of one service, the others rest in their initial states.           *)
(****************************************************************************)
EXTENDS KillSwitch, ProofStorage, SubmitReceipt, VftManagerAdmin, HistoricalProxy, GearClient

VARIABLE running

\* A wrong root whose block may be archived in time, a right one, and another wrong one.
MCPosted == << [eth |-> 2, gear |-> 2, ok |-> FALSE], [eth |-> 2, gear |-> 3, ok |-> TRUE],
               [eth |-> 3, gear |-> 3, ok |-> FALSE] >>

BeaconBlock(root, slot, parent, receipts) ==
    [root |-> root, slot |-> slot, parent |-> parent, receipts |-> receipts]

\* Slot 3 is empty; the made-up blocks hang on the chain and claim its receipts.
\* Receipt f is of a failed transaction, x of none.
MCCanonical == {BeaconBlock("c1", 1, "c0", <<"r1">>), BeaconBlock("c2", 2, "c1", <<"f", "r2">>),
                BeaconBlock("c4", 4, "c2", <<"r2">>)}
MCMadeUp == {BeaconBlock("m2", 2, "c1", <<"r1">>), BeaconBlock("m3", 3, "m2", <<"r2">>)}

\* Each token is replaced by the other's program where its own has exited: one of
\* them, which merges two mapped tokens, or both, which exchanges them.
MCVftMaps == {[v \in Vfts |-> IF v = "v1" THEN "v2" ELSE "v1"]}

Services == {"kill_switch", "proof_storage", "receipts", "vft_manager", "historical_proxy",
             "gear_client"}

Init == /\ running \in Services
        /\ KillInit /\ StorageInit /\ ReceiptInit /\ AdminInit /\ ProxyInit /\ ClientInit
        /\ running # "kill_switch" => start = NoBlock
        /\ running # "gear_client" =>
              setAt = [b \in 0 .. LastBlock |-> 1] /\ finalized = 1 /\ task = [name |-> "era", set |-> 0]

Next ==
    \/ /\ running = "kill_switch" /\ KillNext
       /\ UNCHANGED <<running, storageVars, receiptVars, adminVars, proxyVars, clientVars>>
    \/ /\ running = "proof_storage" /\ StorageNext
       /\ UNCHANGED <<running, killVars, receiptVars, adminVars, proxyVars, clientVars>>
    \/ /\ running = "receipts" /\ ReceiptNext
       /\ UNCHANGED <<running, killVars, storageVars, adminVars, proxyVars, clientVars>>
    \/ /\ running = "vft_manager" /\ AdminNext
       /\ UNCHANGED <<running, killVars, storageVars, receiptVars, proxyVars, clientVars>>
    \/ /\ running = "historical_proxy" /\ ProxyNext
       /\ UNCHANGED <<running, killVars, storageVars, receiptVars, adminVars, clientVars>>
    \/ /\ running = "gear_client" /\ ClientNext
       /\ UNCHANGED <<running, killVars, storageVars, receiptVars, adminVars, proxyVars>>

vars == <<running, killVars, storageVars, receiptVars, adminVars, proxyVars, clientVars>>

\* KillFairness and ClientFairness, each for the behaviours of its service.
Fairness ==
    /\ WF_vars(/\ running = "kill_switch" /\ Loop
               /\ UNCHANGED <<running, storageVars, receiptVars, adminVars, proxyVars, clientVars>>)
    /\ WF_vars(/\ running = "kill_switch" /\ Provide
               /\ UNCHANGED <<running, storageVars, receiptVars, adminVars, proxyVars, clientVars>>)
    /\ WF_vars(/\ running = "gear_client" /\ Client
               /\ UNCHANGED <<running, killVars, storageVars, receiptVars, adminVars, proxyVars>>)

Spec == Init /\ [][Next]_vars /\ Fairness
================================================================================
