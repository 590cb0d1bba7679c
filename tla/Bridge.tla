-------------------------------- MODULE Bridge ---------------------------------
(****************************************************************************)
(* What the bridge promises the sender of tokens from Gear to Ethereum,      *)
(* without the program that keeps the promise: a ledger of what was taken,   *)
(* queued for Ethereum and given back.  RequestBridging implements it.       *)
(*                                                                           *)
(* Two excuses are part of the promise.  A request is late once the program  *)
(* has stopped waiting for the answer whether its message was queued; it is  *)
(* contested once somebody has asked for its recovery while it was served.   *)
(****************************************************************************)
EXTENDS Naturals

CONSTANT Requests

VARIABLES deposited,  \* requests whose tokens were taken
          queued,     \* requests whose message is in the queue for Ethereum
          refunds,    \* how often the tokens of a request were given back
          confirmed,  \* requests answered with the nonce of their message
          late, contested

ledger == <<deposited, queued, refunds, confirmed, late, contested>>

Init ==
    /\ deposited = {} /\ queued = {} /\ confirmed = {}
    /\ refunds = [m \in Requests |-> 0]
    /\ late = {} /\ contested = {}

Deposit(m) ==
    /\ m \notin deposited
    /\ deposited' = deposited \cup {m}
    /\ UNCHANGED <<queued, refunds, confirmed, late, contested>>

\* Only deposited tokens go to Ethereum, and not after they were given back
\* unless the request is late.
Queue(m) ==
    /\ m \in deposited \ queued
    /\ refunds[m] = 0 \/ m \in late
    /\ queued' = queued \cup {m}
    /\ UNCHANGED <<deposited, refunds, confirmed, late, contested>>

\* A confirmation is never wrong.
Confirm(m) ==
    /\ m \in queued \ confirmed
    /\ refunds[m] = 0
    /\ confirmed' = confirmed \cup {m}
    /\ UNCHANGED <<deposited, queued, refunds, late, contested>>

\* Only deposited tokens are given back, never after a confirmation, once
\* unless contested, and not if they are queued unless late.
Refund(m) ==
    /\ m \in deposited \ confirmed
    /\ m \in queued => m \in late
    /\ refunds[m] > 0 => m \in contested
    /\ refunds' = [refunds EXCEPT ![m] = @ + 1]
    /\ UNCHANGED <<deposited, queued, confirmed, late, contested>>

StopWaiting(m) ==
    /\ m \in deposited \ (confirmed \cup late)
    /\ late' = late \cup {m}
    /\ UNCHANGED <<deposited, queued, refunds, confirmed, contested>>

Contest(m) ==
    /\ m \in deposited \ (confirmed \cup contested)
    /\ contested' = contested \cup {m}
    /\ UNCHANGED <<deposited, queued, refunds, confirmed, late>>

Next ==
    \E m \in Requests :
        Deposit(m) \/ Queue(m) \/ Confirm(m) \/ Refund(m) \/ StopWaiting(m) \/ Contest(m)

Spec == Init /\ [][Next]_ledger
================================================================================
