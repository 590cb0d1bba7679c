---------------------------- MODULE RequestBridging ----------------------------
(****************************************************************************)
(* The Gear -> Ethereum half of the vft-manager program: request_bridging,   *)
(* the message tracker behind it, and the recovery entry point               *)
(* handle_request_bridging_interrupted_transfer.                             *)
(*                                                                           *)
(* A request is an asynchronous Gear message.  It deposits (burns or locks)  *)
(* the sender's tokens in a VFT program, asks the bridge built-in actor to   *)
(* queue a message for Ethereum, and on failure returns (mints or unlocks)   *)
(* the tokens.  Every one of the three calls suspends the execution; other   *)
(* messages of the program run in between.  A reply is handled in an         *)
(* execution of its own: a reply hook moves the tracker and the suspended    *)
(* execution is woken up later.  A suspended execution also wakes up when    *)
(* its reply timeout expires, the hook of the pending call stays installed,  *)
(* and a panic or exhausted gas reverts everything since the last await.     *)
(*                                                                           *)
(* Anyone may call the recovery entry point at any time for any request.     *)
(* Requests that are refused before they touch the state (wrong fee, token   *)
(* not in the token map) are not represented.                                *)
(****************************************************************************)
EXTENDS Naturals, FiniteSets

CONSTANTS Requests,     \* message ids of request_bridging calls
          Recoveries,   \* message ids of interrupted-transfer recovery calls
          Supply,       \* token_supply of the token that each request bridges
          None          \* no request

ASSUME IdsAssumption == /\ Requests \cap Recoveries = {}
                        /\ None \notin Requests
ASSUME SupplyAssumption == Supply \in [Requests -> {"Ethereum", "Gear"}]

VARIABLES tracker,      \* MSG_TRACKER: status of every request
          pc,           \* where the execution of each message is suspended
          target,       \* the request that a recovery call works for
          depositCall,  \* burn / transferFrom call of a request
          bridgeCall,   \* SendEthMessage call of a request
          returnCall,   \* mint / transferFrom call of a request or a recovery
          is_paused,    \* State::is_paused
          succeeded,    \* history: requests that replied Ok(nonce)
          timedOut,     \* history: requests whose built-in reply timed out
          overlapped    \* history: requests recovered while still being served

vars == <<tracker, pc, target, depositCall, bridgeCall, returnCall, is_paused,
          succeeded, timedOut, overlapped>>

Tasks == Requests \cup Recoveries

\* MessageStatus, and "untracked" for a message id that the tracker lacks.
MessageStatus ==
    { "untracked",
      "SendingMessageToDepositTokens",
      "TokenDepositCompleted(true)", "TokenDepositCompleted(false)",
      "SendingMessageToBridgeBuiltin",
      "BridgeResponseReceived(Some)", "BridgeResponseReceived(None)",
      "SendingMessageToReturnTokens",
      "TokensReturnComplete(true)", "TokensReturnComplete(false)" }

(****************************************************************************)
(* A call to another program: not made, sent, processed (with the reply on   *)
(* its way) and replied (the reply hook has run).  A "yes" reply decodes to  *)
(* success and the callee did what was asked; "no" is TransferFrom's false;  *)
(* "err" is an error reply, the callee's state being reverted.               *)
(****************************************************************************)
InFlight == {"sent", "yes", "no", "err"}
Replied  == {"gotYes", "gotNo", "gotErr"}
Call     == {"none"} \cup InFlight \cup Replied

Performed(c) == c \in {"yes", "gotYes"}
ErrorReply(c) == c = "gotErr"

Got(c) == CASE c = "yes" -> "gotYes"
            [] c = "no"  -> "gotNo"
            [] c = "err" -> "gotErr"

\* Burn and Mint reply with (), TransferFrom with a bool.
TokenReplies(m) == IF Supply[m] = "Gear" THEN {"yes", "no", "err"} ELSE {"yes", "err"}

\* The request that a task works for.
RequestOf(t) == IF t \in Requests THEN t ELSE target[t]

--------------------------------------------------------------------------------
Init ==
    /\ tracker = [m \in Requests |-> "untracked"]
    /\ pc = [t \in Tasks |-> "idle"]
    /\ target = [r \in Recoveries |-> None]
    /\ depositCall = [m \in Requests |-> "none"]
    /\ bridgeCall = [m \in Requests |-> "none"]
    /\ returnCall = [t \in Tasks |-> "none"]
    /\ is_paused = FALSE
    /\ succeeded = {}
    /\ timedOut = {}
    /\ overlapped = {}

--------------------------------------------------------------------------------
(* The request_bridging execution. *)

\* request_bridging up to the await in burn or lock.
RequestBridging(m) ==
    /\ pc[m] = "idle"
    /\ ~is_paused
    /\ tracker' = [tracker EXCEPT ![m] = "SendingMessageToDepositTokens"]
    /\ depositCall' = [depositCall EXCEPT ![m] = "sent"]
    /\ pc' = [pc EXCEPT ![m] = "deposit"]
    /\ UNCHANGED <<target, bridgeCall, returnCall, is_paused, succeeded, timedOut, overlapped>>

\* fetch_deposit_result = Ok(()).
DepositSucceeded(m) ==
    /\ depositCall[m] \in Replied
    /\ ~ErrorReply(depositCall[m])
    /\ tracker[m] = "TokenDepositCompleted(true)"

\* The deposit is confirmed: ask the built-in actor to queue the message.
SendToBridgeBuiltin(m) ==
    /\ pc[m] = "deposit"
    /\ DepositSucceeded(m)
    /\ tracker' = [tracker EXCEPT ![m] = "SendingMessageToBridgeBuiltin"]
    /\ bridgeCall' = [bridgeCall EXCEPT ![m] = "sent"]
    /\ pc' = [pc EXCEPT ![m] = "builtin"]
    /\ UNCHANGED <<target, depositCall, returnCall, is_paused, succeeded, timedOut, overlapped>>

\* The tracker, the refund call and the suspension point of the refund branch.
ReturnTokens(m) ==
    /\ tracker' = [tracker EXCEPT ![m] = "SendingMessageToReturnTokens"]
    /\ returnCall' = [returnCall EXCEPT ![m] = "sent"]
    /\ pc' = [pc EXCEPT ![m] = "return"]

\* The message to the built-in actor cannot be sent (Error::SendFailure).
SendToBridgeBuiltinFails(m) ==
    /\ pc[m] = "deposit"
    /\ DepositSucceeded(m)
    /\ ReturnTokens(m)
    /\ UNCHANGED <<target, depositCall, bridgeCall, is_paused, succeeded, timedOut, overlapped>>

\* The built-in actor's reply carries a nonce: forget the request, reply Ok.
CompleteBridging(m) ==
    /\ pc[m] = "builtin"
    /\ bridgeCall[m] \in Replied
    /\ ~ErrorReply(bridgeCall[m])
    /\ tracker[m] = "BridgeResponseReceived(Some)"
    /\ tracker' = [tracker EXCEPT ![m] = "untracked"]
    /\ pc' = [pc EXCEPT ![m] = "ended"]
    /\ succeeded' = succeeded \cup {m}
    /\ UNCHANGED <<target, depositCall, bridgeCall, returnCall, is_paused, timedOut, overlapped>>

\* The built-in actor's reply is an error, or the tracker has no nonce.
RefundAfterFailure(m) ==
    /\ pc[m] = "builtin"
    /\ bridgeCall[m] \in Replied
    /\ ErrorReply(bridgeCall[m]) \/ tracker[m] # "BridgeResponseReceived(Some)"
    /\ ReturnTokens(m)
    /\ UNCHANGED <<target, depositCall, bridgeCall, is_paused, succeeded, timedOut, overlapped>>

\* The reply timeout expires, with or without the reply having arrived.
RefundAfterTimeout(m) ==
    /\ pc[m] = "builtin"
    /\ ReturnTokens(m)
    /\ timedOut' = timedOut \cup {m}
    /\ UNCHANGED <<target, depositCall, bridgeCall, is_paused, succeeded, overlapped>>

\* The execution that continues after the built-in actor's reply (or its
\* timeout) runs out of gas: it is reverted.
OutOfGasAtBuiltin(m) ==
    /\ pc[m] = "builtin"
    /\ pc' = [pc EXCEPT ![m] = "ended"]
    /\ UNCHANGED <<tracker, target, depositCall, bridgeCall, returnCall, is_paused,
                   succeeded, timedOut, overlapped>>

\* The same with the hook of set_critical_hook being run for the failed message.
CriticalHook(m) ==
    /\ pc[m] = "builtin"
    /\ tracker[m] = "SendingMessageToBridgeBuiltin"
    /\ tracker' = [tracker EXCEPT ![m] = "SendingMessageToReturnTokens"]
    /\ pc' = [pc EXCEPT ![m] = "ended"]
    /\ timedOut' = timedOut \cup {m}
    /\ UNCHANGED <<target, depositCall, bridgeCall, returnCall, is_paused, succeeded, overlapped>>

\* The awaited token operation failed, timed out or ran out of gas (a panic,
\* or an error returned), or a refund is complete: the execution is over.
Finish(t) ==
    /\ pc[t] \in {"deposit", "return"}
    /\ pc' = [pc EXCEPT ![t] = "ended"]
    /\ UNCHANGED <<tracker, target, depositCall, bridgeCall, returnCall, is_paused,
                   succeeded, timedOut, overlapped>>

--------------------------------------------------------------------------------
(* The recovery execution. *)

\* The statuses that handle_interrupted_transfer accepts.
Recoverable ==
    { "TokenDepositCompleted(true)", "BridgeResponseReceived(None)",
      "TokensReturnComplete(false)", "SendingMessageToReturnTokens" }

\* The request is still running, or a refund of it is.
BeingServed(m) ==
    \/ pc[m] # "ended"
    \/ \E t \in Tasks : RequestOf(t) = m /\ returnCall[t] \in InFlight

\* Mutant of HandleInterruptedTransfer: the status is not moved before the refund.
HandleInterruptedTransferKeepsStatus(r, m) ==
    /\ pc[r] = "idle"
    /\ ~is_paused
    /\ tracker[m] \in Recoverable
    /\ target' = [target EXCEPT ![r] = m]
    /\ returnCall' = [returnCall EXCEPT ![r] = "sent"]
    /\ pc' = [pc EXCEPT ![r] = "return"]
    /\ overlapped' = IF BeingServed(m) THEN overlapped \cup {m} ELSE overlapped
    /\ UNCHANGED <<tracker, depositCall, bridgeCall, is_paused, succeeded, timedOut>>

\* handle_interrupted_transfer up to the await in mint or unlock.
HandleInterruptedTransfer(r, m) ==
    /\ pc[r] = "idle"
    /\ ~is_paused
    /\ tracker[m] \in Recoverable
    /\ tracker' = [tracker EXCEPT ![m] = "SendingMessageToReturnTokens"]
    /\ target' = [target EXCEPT ![r] = m]
    /\ returnCall' = [returnCall EXCEPT ![r] = "sent"]
    /\ pc' = [pc EXCEPT ![r] = "return"]
    /\ overlapped' = IF BeingServed(m) THEN overlapped \cup {m} ELSE overlapped
    /\ UNCHANGED <<depositCall, bridgeCall, is_paused, succeeded, timedOut>>

\* The refund message cannot be sent (Error::SendFailure): the error is returned,
\* not raised, so that the new status stays.
HandleInterruptedTransferFails(r, m) ==
    /\ pc[r] = "idle"
    /\ ~is_paused
    /\ tracker[m] \in Recoverable
    /\ tracker' = [tracker EXCEPT ![m] = "SendingMessageToReturnTokens"]
    /\ target' = [target EXCEPT ![r] = m]
    /\ pc' = [pc EXCEPT ![r] = "ended"]
    /\ UNCHANGED <<depositCall, bridgeCall, returnCall, is_paused, succeeded, timedOut, overlapped>>

--------------------------------------------------------------------------------
(* The callees (external programs) and the reply hooks. *)

VftDeposit(m) ==
    /\ depositCall[m] = "sent"
    /\ \E c \in TokenReplies(m) : depositCall' = [depositCall EXCEPT ![m] = c]
    /\ UNCHANGED <<tracker, pc, target, bridgeCall, returnCall, is_paused,
                   succeeded, timedOut, overlapped>>

BuiltinQueue(m) ==
    /\ bridgeCall[m] = "sent"
    /\ \E c \in {"yes", "err"} : bridgeCall' = [bridgeCall EXCEPT ![m] = c]
    /\ UNCHANGED <<tracker, pc, target, depositCall, returnCall, is_paused,
                   succeeded, timedOut, overlapped>>

VftReturn(t) ==
    /\ returnCall[t] = "sent"
    /\ \E c \in TokenReplies(RequestOf(t)) : returnCall' = [returnCall EXCEPT ![t] = c]
    /\ UNCHANGED <<tracker, pc, target, depositCall, bridgeCall, is_paused,
                   succeeded, timedOut, overlapped>>

\* handle_reply_hook of the token operations: the status, not the message that
\* is replied to, says which operation the reply belongs to.
TokenHookStatus(s, c) ==
    CASE s = "SendingMessageToDepositTokens" ->
            IF c = "yes" THEN "TokenDepositCompleted(true)" ELSE "TokenDepositCompleted(false)"
      [] s = "SendingMessageToReturnTokens" ->
            IF c = "yes" THEN "TokensReturnComplete(true)" ELSE "TokensReturnComplete(false)"
      [] OTHER -> s

\* Mutant of BridgeHookStatus: an undecodable reply leaves the status alone.
BridgeHookIgnoresErrors(s, c) ==
    IF s = "SendingMessageToBridgeBuiltin" /\ c = "yes"
    THEN "BridgeResponseReceived(Some)"
    ELSE s

\* handle_reply_hook of the bridge built-in operations.
BridgeHookStatus(s, c) ==
    IF s = "SendingMessageToBridgeBuiltin"
    THEN IF c = "yes" THEN "BridgeResponseReceived(Some)" ELSE "BridgeResponseReceived(None)"
    ELSE s

\* A hook panics, and its execution is reverted, for an untracked message.
DepositReply(m) ==
    /\ depositCall[m] \in {"yes", "no", "err"}
    /\ tracker[m] # "untracked"
    /\ tracker' = [tracker EXCEPT ![m] = TokenHookStatus(@, depositCall[m])]
    /\ depositCall' = [depositCall EXCEPT ![m] = Got(@)]
    /\ UNCHANGED <<pc, target, bridgeCall, returnCall, is_paused, succeeded, timedOut, overlapped>>

\* Mutant of BridgeReply: the hook is dropped together with the waiting execution.
BridgeReplyWhileWaiting(m) ==
    /\ bridgeCall[m] \in {"yes", "err"}
    /\ pc[m] = "builtin"
    /\ tracker' = [tracker EXCEPT ![m] = BridgeHookStatus(@, bridgeCall[m])]
    /\ bridgeCall' = [bridgeCall EXCEPT ![m] = Got(@)]
    /\ UNCHANGED <<pc, target, depositCall, returnCall, is_paused, succeeded, timedOut, overlapped>>

BridgeReply(m) ==
    /\ bridgeCall[m] \in {"yes", "err"}
    /\ tracker[m] # "untracked"
    /\ tracker' = [tracker EXCEPT ![m] = BridgeHookStatus(@, bridgeCall[m])]
    /\ bridgeCall' = [bridgeCall EXCEPT ![m] = Got(@)]
    /\ UNCHANGED <<pc, target, depositCall, returnCall, is_paused, succeeded, timedOut, overlapped>>

ReturnReply(t) ==
    /\ returnCall[t] \in {"yes", "no", "err"}
    /\ tracker[RequestOf(t)] # "untracked"
    /\ tracker' = [tracker EXCEPT ![RequestOf(t)] = TokenHookStatus(@, returnCall[t])]
    /\ returnCall' = [returnCall EXCEPT ![t] = Got(@)]
    /\ UNCHANGED <<pc, target, depositCall, bridgeCall, is_paused, succeeded, timedOut, overlapped>>

--------------------------------------------------------------------------------
(* Administration. *)

Pause ==
    /\ ~is_paused
    /\ is_paused' = TRUE
    /\ UNCHANGED <<tracker, pc, target, depositCall, bridgeCall, returnCall,
                   succeeded, timedOut, overlapped>>

Unpause ==
    /\ is_paused
    /\ is_paused' = FALSE
    /\ UNCHANGED <<tracker, pc, target, depositCall, bridgeCall, returnCall,
                   succeeded, timedOut, overlapped>>

--------------------------------------------------------------------------------
\* What the network owes a request: its calls are processed, their replies are
\* handled, and a suspended execution is woken by a reply or by its timeout.
RequestProgress(m) ==
    \/ SendToBridgeBuiltin(m) \/ SendToBridgeBuiltinFails(m)
    \/ CompleteBridging(m) \/ RefundAfterFailure(m) \/ RefundAfterTimeout(m)
    \/ OutOfGasAtBuiltin(m) \/ CriticalHook(m) \/ Finish(m)

CalleeProgress(m) ==
    VftDeposit(m) \/ DepositReply(m) \/ BuiltinQueue(m) \/ BridgeReply(m)

ReturnProgress(t) ==
    VftReturn(t) \/ ReturnReply(t)

Next ==
    \/ \E m \in Requests : RequestBridging(m) \/ RequestProgress(m) \/ CalleeProgress(m)
    \/ \E t \in Tasks : ReturnProgress(t)
    \/ \E r \in Recoveries : Finish(r)
    \/ \E r \in Recoveries, m \in Requests :
           HandleInterruptedTransfer(r, m) \/ HandleInterruptedTransferFails(r, m)
    \/ Pause
    \/ Unpause

Spec == Init /\ [][Next]_vars

\* Messages in a Gear queue are eventually executed, and wait_up_to bounds how
\* long an execution stays suspended.  Nobody has to call anything.
Fairness ==
    /\ \A m \in Requests : WF_vars(RequestProgress(m)) /\ WF_vars(CalleeProgress(m))
    /\ \A t \in Tasks : WF_vars(ReturnProgress(t))

FairSpec == Spec /\ Fairness

--------------------------------------------------------------------------------
(* Properties. *)

Deposited(m) == Performed(depositCall[m])
Bridged(m)   == Performed(bridgeCall[m])
Refunds(m)   == {t \in Tasks : RequestOf(t) = m /\ Performed(returnCall[t])}
RefundSent(m) == \E t \in Tasks : RequestOf(t) = m /\ returnCall[t] # "none"

\* Every variable has the type of the program's state.
TypeOK ==
    /\ tracker \in [Requests -> MessageStatus]
    /\ pc \in [Tasks -> {"idle", "deposit", "builtin", "return", "ended"}]
    /\ target \in [Recoveries -> Requests \cup {None}]
    /\ depositCall \in [Requests -> Call]
    /\ bridgeCall \in [Requests -> Call]
    /\ returnCall \in [Tasks -> Call]
    /\ is_paused \in BOOLEAN
    /\ succeeded \subseteq Requests
    /\ timedOut \subseteq Requests
    /\ overlapped \subseteq Requests

\* No execution and no call is outstanding for the request.
Quiet(m) ==
    /\ pc[m] = "ended"
    /\ depositCall[m] \notin InFlight
    /\ bridgeCall[m] \notin InFlight
    /\ \A t \in Tasks : RequestOf(t) = m => returnCall[t] \notin InFlight

\* When nothing is outstanding for a request whose tokens were taken, the tokens
\* were bridged or given back, or the tracker still admits a recovery call:
\* request_bridging's panics, timeouts and out-of-gas exits strand no funds.
NoStuckFunds ==
    \A m \in Requests :
        Quiet(m) /\ Deposited(m) =>
            Bridged(m) \/ Refunds(m) # {} \/ tracker[m] \in Recoverable

\* A refund is requested only for tokens that were taken.
NoRefundWithoutDeposit ==
    \A m \in Requests : RefundSent(m) => Deposited(m)

\* A request that replied Ok(nonce) is queued for Ethereum and no refund of it
\* is ever requested, whatever recovery calls are made.
SuccessIsFinal ==
    \A m \in succeeded : Bridged(m) /\ ~RefundSent(m)

\* Tokens are both queued for Ethereum and refunded only when the reply of the
\* built-in actor outlived its timeout.
BridgedAndRefundedOnlyAfterTimeout ==
    \A m \in Requests : Bridged(m) /\ RefundSent(m) => m \in timedOut

\* A request is refunded at most once.
RefundOnce ==
    \A m \in Requests : \A t, u \in Refunds(m) : t = u

\* The same, for requests that nobody recovered while they were being served.
RefundOnceUnlessOverlapped ==
    \A m \in Requests \ overlapped : \A t, u \in Refunds(m) : t = u

\* The ledger of Bridge, read off the calls that were performed.
Ledger == INSTANCE Bridge WITH
    deposited <- {m \in Requests : Deposited(m)},
    queued    <- {m \in Requests : Bridged(m)},
    refunds   <- [m \in Requests |-> Cardinality(Refunds(m))],
    confirmed <- succeeded,
    late      <- timedOut,
    contested <- overlapped

\* Whatever the callees answer, and in whatever order replies, timeouts, panics
\* and recovery calls come, request_bridging keeps the promise of Bridge: each
\* of its steps is a step of the ledger or leaves the ledger alone.
ImplementsBridge == Ledger!Spec

\* Every accepted request comes to rest: from some point on its tokens are not
\* taken, or are bridged, refunded or recoverable, for good.
EventuallySettled ==
    \A m \in Requests :
        pc[m] = "deposit" ~>
            [](\/ ~Deposited(m)
               \/ Bridged(m)
               \/ Refunds(m) # {}
               \/ tracker[m] \in Recoverable)
================================================================================
