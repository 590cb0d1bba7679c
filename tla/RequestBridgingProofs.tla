------------------------- MODULE RequestBridgingProofs -------------------------
(****************************************************************************)
(* Proofs of the safety properties of RequestBridging, for any number of     *)
(* requests and recovery calls.                                              *)
(****************************************************************************)
EXTENDS RequestBridging, FiniteSetTheorems, TLAPS

ReturnStates == { "SendingMessageToReturnTokens",
                  "TokensReturnComplete(true)", "TokensReturnComplete(false)" }

\* What each tracker status says about the calls of the request and about the
\* place where its execution can be.
StatusInv(m) ==
    /\ tracker[m] = "untracked" =>
          \/ pc[m] = "idle" /\ depositCall[m] = "none" /\ bridgeCall[m] = "none"
          \/ m \in succeeded
    /\ tracker[m] = "SendingMessageToDepositTokens" =>
          /\ depositCall[m] \in InFlight /\ bridgeCall[m] = "none"
          /\ pc[m] \in {"deposit", "ended"}
    /\ tracker[m] = "TokenDepositCompleted(true)" =>
          /\ depositCall[m] = "gotYes" /\ bridgeCall[m] = "none"
          /\ pc[m] \in {"deposit", "ended"}
    /\ tracker[m] = "TokenDepositCompleted(false)" =>
          /\ depositCall[m] \in {"gotNo", "gotErr"} /\ bridgeCall[m] = "none"
          /\ pc[m] \in {"deposit", "ended"}
    /\ tracker[m] = "SendingMessageToBridgeBuiltin" =>
          /\ depositCall[m] = "gotYes" /\ bridgeCall[m] \in {"sent", "yes", "err"}
          /\ pc[m] \in {"builtin", "ended"}
    /\ tracker[m] = "BridgeResponseReceived(Some)" =>
          /\ depositCall[m] = "gotYes" /\ bridgeCall[m] = "gotYes"
          /\ pc[m] \in {"builtin", "ended"}
    /\ tracker[m] = "BridgeResponseReceived(None)" =>
          /\ depositCall[m] = "gotYes" /\ bridgeCall[m] = "gotErr"
          /\ pc[m] \in {"builtin", "ended"}
    /\ tracker[m] \in ReturnStates =>
          /\ depositCall[m] = "gotYes"
          /\ bridgeCall[m] \in {"sent", "yes", "gotYes"} => m \in timedOut
          /\ bridgeCall[m] \in {"none", "sent", "yes", "err", "gotYes", "gotErr"}
          /\ pc[m] # "idle"
          /\ pc[m] = "deposit" => bridgeCall[m] = "none"
          /\ pc[m] = "builtin" => bridgeCall[m] = "gotErr"
    /\ m \in succeeded =>
          /\ tracker[m] = "untracked"
          /\ pc[m] = "ended"
          /\ depositCall[m] = "gotYes" /\ bridgeCall[m] = "gotYes"

\* Refund calls exist only in the refund phase, and a confirmed refund happened.
RefundInv(m) ==
    /\ tracker[m] \notin ReturnStates => ~RefundSent(m)
    /\ tracker[m] = "TokensReturnComplete(true)" => Refunds(m) # {}

\* A task that has not reached its refund has made no refund call.
TaskInv ==
    /\ \A m \in Requests : pc[m] \in {"idle", "deposit", "builtin"} => returnCall[m] = "none"
    /\ \A r \in Recoveries :
          /\ pc[r] \in {"idle", "return", "ended"}
          /\ pc[r] = "idle" <=> target[r] = None
          /\ pc[r] = "idle" => returnCall[r] = "none"

\* At most one refund of m is performed or may still be.
Live == InFlight \cup {"gotYes"}

OneRefundInv(m) ==
    m \notin overlapped =>
        /\ \A t, u \in Tasks :
              (/\ RequestOf(t) = m /\ RequestOf(u) = m
               /\ returnCall[t] \in Live /\ returnCall[u] \in Live) => t = u
        /\ tracker[m] = "TokensReturnComplete(false)" =>
              \A t \in Tasks : RequestOf(t) = m => returnCall[t] \notin Live
        /\ tracker[m] = "SendingMessageToReturnTokens" =>
              \A t \in Tasks : RequestOf(t) = m => returnCall[t] # "gotYes"
        /\ pc[m] \in {"deposit", "builtin"} => ~RefundSent(m)

IInv ==
    /\ TypeOK
    /\ TaskInv
    /\ \A m \in Requests : StatusInv(m) /\ RefundInv(m) /\ OneRefundInv(m)

--------------------------------------------------------------------------------
LEMMA RequestBridgingStep ==
    ASSUME IInv, NEW m \in Requests, RequestBridging(m)
    PROVE  IInv'
<1>1. TypeOK'
  BY IdsAssumption, SupplyAssumption
     DEF IInv, TypeOK, MessageStatus, Call, InFlight, Replied, Tasks, RequestOf, StatusInv,
         RequestBridging
<1>2. TaskInv'
  BY IdsAssumption, SupplyAssumption DEF IInv, TypeOK, TaskInv, Tasks, RequestBridging
<1>3. ASSUME NEW n \in Requests PROVE StatusInv(n)'
  BY IdsAssumption, SupplyAssumption
     DEF IInv, TypeOK, TaskInv, StatusInv, ReturnStates, MessageStatus, InFlight, Replied,
         ErrorReply, Tasks, RequestOf, RequestBridging
<1>4. ASSUME NEW n \in Requests PROVE RefundInv(n)'
  BY IdsAssumption, SupplyAssumption
     DEF IInv, TypeOK, TaskInv, StatusInv, RefundInv, ReturnStates, RefundSent, Refunds,
         Performed, InFlight, Replied, ErrorReply, Tasks, RequestOf, RequestBridging
<1>5. ASSUME NEW n \in Requests PROVE OneRefundInv(n)'
  BY IdsAssumption, SupplyAssumption
     DEF IInv, TypeOK, TaskInv, StatusInv, RefundInv, OneRefundInv, Live, ReturnStates,
         RefundSent, InFlight, Replied, ErrorReply, Tasks, RequestOf, RequestBridging
<1> QED
  BY <1>1, <1>2, <1>3, <1>4, <1>5 DEF IInv

LEMMA SendToBridgeBuiltinStep ==
    ASSUME IInv, NEW m \in Requests, SendToBridgeBuiltin(m)
    PROVE  IInv'
<1>1. TypeOK'
  BY IdsAssumption, SupplyAssumption
     DEF IInv, TypeOK, MessageStatus, Call, InFlight, Replied, Tasks, RequestOf, StatusInv,
         SendToBridgeBuiltin, DepositSucceeded
<1>2. TaskInv'
  BY IdsAssumption, SupplyAssumption
     DEF IInv, TypeOK, TaskInv, Tasks, SendToBridgeBuiltin, DepositSucceeded
<1>3. ASSUME NEW n \in Requests PROVE StatusInv(n)'
  BY IdsAssumption, SupplyAssumption
     DEF IInv, TypeOK, TaskInv, StatusInv, ReturnStates, InFlight, Replied, ErrorReply,
         Tasks, RequestOf, SendToBridgeBuiltin, DepositSucceeded
<1>4. ASSUME NEW n \in Requests PROVE RefundInv(n)'
  BY IdsAssumption, SupplyAssumption
     DEF IInv, TypeOK, TaskInv, StatusInv, RefundInv, ReturnStates, RefundSent, Refunds,
         Performed, InFlight, Replied, ErrorReply, Tasks, RequestOf, SendToBridgeBuiltin,
         DepositSucceeded
<1>5. ASSUME NEW n \in Requests PROVE OneRefundInv(n)'
  BY IdsAssumption, SupplyAssumption
     DEF IInv, TypeOK, TaskInv, StatusInv, RefundInv, OneRefundInv, Live, ReturnStates,
         RefundSent, InFlight, Replied, ErrorReply, Tasks, RequestOf, SendToBridgeBuiltin,
         DepositSucceeded
<1> QED
  BY <1>1, <1>2, <1>3, <1>4, <1>5 DEF IInv

LEMMA SendToBridgeBuiltinFailsStep ==
    ASSUME IInv, NEW m \in Requests, SendToBridgeBuiltinFails(m)
    PROVE  IInv'
<1>1. TypeOK'
  BY IdsAssumption, SupplyAssumption
     DEF IInv, TypeOK, MessageStatus, Call, InFlight, Replied, Tasks, RequestOf, StatusInv,
         SendToBridgeBuiltinFails, DepositSucceeded, ReturnTokens
<1>2. TaskInv'
  BY IdsAssumption, SupplyAssumption
     DEF IInv, TypeOK, TaskInv, Tasks, SendToBridgeBuiltinFails, DepositSucceeded,
         ReturnTokens
<1>3. ASSUME NEW n \in Requests PROVE StatusInv(n)'
  BY IdsAssumption, SupplyAssumption
     DEF IInv, TypeOK, TaskInv, StatusInv, ReturnStates, InFlight, Replied, ErrorReply,
         Tasks, RequestOf, SendToBridgeBuiltinFails, DepositSucceeded, ReturnTokens
<1>4. ASSUME NEW n \in Requests PROVE RefundInv(n)'
  BY IdsAssumption, SupplyAssumption
     DEF IInv, TypeOK, TaskInv, StatusInv, RefundInv, ReturnStates, RefundSent, Refunds,
         Performed, InFlight, Replied, ErrorReply, Tasks, RequestOf,
         SendToBridgeBuiltinFails, DepositSucceeded, ReturnTokens
<1>5. ASSUME NEW n \in Requests PROVE OneRefundInv(n)'
  BY IdsAssumption, SupplyAssumption
     DEF IInv, TypeOK, TaskInv, StatusInv, RefundInv, OneRefundInv, Live, ReturnStates,
         RefundSent, InFlight, Replied, ErrorReply, Tasks, RequestOf,
         SendToBridgeBuiltinFails, DepositSucceeded, ReturnTokens
<1> QED
  BY <1>1, <1>2, <1>3, <1>4, <1>5 DEF IInv

LEMMA CompleteBridgingStep ==
    ASSUME IInv, NEW m \in Requests, CompleteBridging(m)
    PROVE  IInv'
<1>1. TypeOK'
  BY IdsAssumption, SupplyAssumption
     DEF IInv, TypeOK, MessageStatus, Call, InFlight, Replied, Tasks, RequestOf, StatusInv,
         CompleteBridging
<1>2. TaskInv'
  BY IdsAssumption, SupplyAssumption DEF IInv, TypeOK, TaskInv, Tasks, CompleteBridging
<1>3. ASSUME NEW n \in Requests PROVE StatusInv(n)'
  BY IdsAssumption, SupplyAssumption
     DEF IInv, TypeOK, TaskInv, StatusInv, ReturnStates, InFlight, Replied, ErrorReply,
         Tasks, RequestOf, CompleteBridging
<1>4. ASSUME NEW n \in Requests PROVE RefundInv(n)'
  BY IdsAssumption, SupplyAssumption
     DEF IInv, TypeOK, TaskInv, StatusInv, RefundInv, ReturnStates, RefundSent, Refunds,
         Performed, InFlight, Replied, ErrorReply, Tasks, RequestOf, CompleteBridging
<1>5. ASSUME NEW n \in Requests PROVE OneRefundInv(n)'
  BY IdsAssumption, SupplyAssumption
     DEF IInv, TypeOK, TaskInv, StatusInv, RefundInv, OneRefundInv, Live, ReturnStates,
         RefundSent, InFlight, Replied, ErrorReply, Tasks, RequestOf, CompleteBridging
<1> QED
  BY <1>1, <1>2, <1>3, <1>4, <1>5 DEF IInv

LEMMA RefundAfterFailureStep ==
    ASSUME IInv, NEW m \in Requests, RefundAfterFailure(m)
    PROVE  IInv'
<1>1. TypeOK'
  BY IdsAssumption, SupplyAssumption
     DEF IInv, TypeOK, MessageStatus, Call, InFlight, Replied, Tasks, RequestOf, StatusInv,
         RefundAfterFailure, ReturnTokens
<1>2. TaskInv'
  BY IdsAssumption, SupplyAssumption
     DEF IInv, TypeOK, TaskInv, Tasks, RefundAfterFailure, ReturnTokens
<1>3. ASSUME NEW n \in Requests PROVE StatusInv(n)'
  BY IdsAssumption, SupplyAssumption
     DEF IInv, TypeOK, TaskInv, StatusInv, ReturnStates, MessageStatus, InFlight, Replied,
         ErrorReply, Tasks, RequestOf, RefundAfterFailure, ReturnTokens
<1>4. ASSUME NEW n \in Requests PROVE RefundInv(n)'
  BY IdsAssumption, SupplyAssumption
     DEF IInv, TypeOK, TaskInv, StatusInv, RefundInv, ReturnStates, RefundSent, Refunds,
         Performed, InFlight, Replied, ErrorReply, Tasks, RequestOf, RefundAfterFailure,
         ReturnTokens
<1>5. ASSUME NEW n \in Requests PROVE OneRefundInv(n)'
  BY IdsAssumption, SupplyAssumption
     DEF IInv, TypeOK, TaskInv, StatusInv, RefundInv, OneRefundInv, Live, ReturnStates,
         RefundSent, InFlight, Replied, ErrorReply, Tasks, RequestOf, RefundAfterFailure,
         ReturnTokens
<1> QED
  BY <1>1, <1>2, <1>3, <1>4, <1>5 DEF IInv

LEMMA RefundAfterTimeoutStep ==
    ASSUME IInv, NEW m \in Requests, RefundAfterTimeout(m)
    PROVE  IInv'
<1>1. TypeOK'
  BY IdsAssumption, SupplyAssumption
     DEF IInv, TypeOK, MessageStatus, Call, InFlight, Replied, Tasks, RequestOf, StatusInv,
         RefundAfterTimeout, ReturnTokens
<1>2. TaskInv'
  BY IdsAssumption, SupplyAssumption
     DEF IInv, TypeOK, TaskInv, Tasks, RefundAfterTimeout, ReturnTokens
<1>3. ASSUME NEW n \in Requests PROVE StatusInv(n)'
  BY IdsAssumption, SupplyAssumption
     DEF IInv, TypeOK, TaskInv, StatusInv, ReturnStates, MessageStatus, InFlight, Replied,
         ErrorReply, Tasks, RequestOf, RefundAfterTimeout, ReturnTokens
<1>4. ASSUME NEW n \in Requests PROVE RefundInv(n)'
  BY IdsAssumption, SupplyAssumption
     DEF IInv, TypeOK, TaskInv, StatusInv, RefundInv, ReturnStates, RefundSent, Refunds,
         Performed, InFlight, Replied, ErrorReply, Tasks, RequestOf, RefundAfterTimeout,
         ReturnTokens
<1>5. ASSUME NEW n \in Requests PROVE OneRefundInv(n)'
  BY IdsAssumption, SupplyAssumption
     DEF IInv, TypeOK, TaskInv, StatusInv, RefundInv, OneRefundInv, Live, ReturnStates,
         RefundSent, InFlight, Replied, ErrorReply, Tasks, RequestOf, RefundAfterTimeout,
         ReturnTokens
<1> QED
  BY <1>1, <1>2, <1>3, <1>4, <1>5 DEF IInv

LEMMA OutOfGasAtBuiltinStep ==
    ASSUME IInv, NEW m \in Requests, OutOfGasAtBuiltin(m)
    PROVE  IInv'
<1>1. TypeOK'
  BY IdsAssumption, SupplyAssumption
     DEF IInv, TypeOK, MessageStatus, Call, InFlight, Replied, Tasks, RequestOf, StatusInv,
         OutOfGasAtBuiltin
<1>2. TaskInv'
  BY IdsAssumption, SupplyAssumption DEF IInv, TypeOK, TaskInv, Tasks, OutOfGasAtBuiltin
<1>3. ASSUME NEW n \in Requests PROVE StatusInv(n)'
  BY IdsAssumption, SupplyAssumption
     DEF IInv, TypeOK, TaskInv, StatusInv, ReturnStates, InFlight, Replied, ErrorReply,
         Tasks, RequestOf, OutOfGasAtBuiltin
<1>4. ASSUME NEW n \in Requests PROVE RefundInv(n)'
  BY IdsAssumption, SupplyAssumption
     DEF IInv, TypeOK, TaskInv, StatusInv, RefundInv, ReturnStates, RefundSent, Refunds,
         Performed, InFlight, Replied, ErrorReply, Tasks, RequestOf, OutOfGasAtBuiltin
<1>5. ASSUME NEW n \in Requests PROVE OneRefundInv(n)'
  BY IdsAssumption, SupplyAssumption
     DEF IInv, TypeOK, TaskInv, StatusInv, RefundInv, OneRefundInv, Live, ReturnStates,
         RefundSent, InFlight, Replied, ErrorReply, Tasks, RequestOf, OutOfGasAtBuiltin
<1> QED
  BY <1>1, <1>2, <1>3, <1>4, <1>5 DEF IInv

LEMMA CriticalHookStep ==
    ASSUME IInv, NEW m \in Requests, CriticalHook(m)
    PROVE  IInv'
<1>1. TypeOK'
  BY IdsAssumption, SupplyAssumption
     DEF IInv, TypeOK, MessageStatus, Call, InFlight, Replied, Tasks, RequestOf, StatusInv,
         CriticalHook
<1>2. TaskInv'
  BY IdsAssumption, SupplyAssumption DEF IInv, TypeOK, TaskInv, Tasks, CriticalHook
<1>3. ASSUME NEW n \in Requests PROVE StatusInv(n)'
  BY IdsAssumption, SupplyAssumption
     DEF IInv, TypeOK, TaskInv, StatusInv, ReturnStates, InFlight, Replied, ErrorReply,
         Tasks, RequestOf, CriticalHook
<1>4. ASSUME NEW n \in Requests PROVE RefundInv(n)'
  BY IdsAssumption, SupplyAssumption
     DEF IInv, TypeOK, TaskInv, StatusInv, RefundInv, ReturnStates, RefundSent, Refunds,
         Performed, InFlight, Replied, ErrorReply, Tasks, RequestOf, CriticalHook
<1>5. ASSUME NEW n \in Requests PROVE OneRefundInv(n)'
  BY IdsAssumption, SupplyAssumption
     DEF IInv, TypeOK, TaskInv, StatusInv, RefundInv, OneRefundInv, Live, ReturnStates,
         RefundSent, InFlight, Replied, ErrorReply, Tasks, RequestOf, CriticalHook
<1> QED
  BY <1>1, <1>2, <1>3, <1>4, <1>5 DEF IInv

LEMMA FinishStep ==
    ASSUME IInv, NEW t \in Tasks, Finish(t)
    PROVE  IInv'
<1>1. TypeOK'
  BY IdsAssumption, SupplyAssumption
     DEF IInv, TypeOK, MessageStatus, Call, InFlight, Replied, Tasks, RequestOf, StatusInv,
         Finish
<1>2. TaskInv'
  BY IdsAssumption, SupplyAssumption DEF IInv, TypeOK, TaskInv, Tasks, Finish
<1>3. ASSUME NEW n \in Requests PROVE StatusInv(n)'
  BY IdsAssumption, SupplyAssumption
     DEF IInv, TypeOK, TaskInv, StatusInv, ReturnStates, InFlight, Replied, ErrorReply,
         Tasks, RequestOf, Finish
<1>4. ASSUME NEW n \in Requests PROVE RefundInv(n)'
  BY IdsAssumption, SupplyAssumption
     DEF IInv, TypeOK, TaskInv, StatusInv, RefundInv, ReturnStates, RefundSent, Refunds,
         Performed, InFlight, Replied, ErrorReply, Tasks, RequestOf, Finish
<1>5. ASSUME NEW n \in Requests PROVE OneRefundInv(n)'
  BY IdsAssumption, SupplyAssumption
     DEF IInv, TypeOK, TaskInv, StatusInv, RefundInv, OneRefundInv, Live, ReturnStates,
         RefundSent, InFlight, Replied, ErrorReply, Tasks, RequestOf, Finish
<1> QED
  BY <1>1, <1>2, <1>3, <1>4, <1>5 DEF IInv

LEMMA VftDepositStep ==
    ASSUME IInv, NEW m \in Requests, VftDeposit(m)
    PROVE  IInv'
<1>1. TypeOK'
  BY IdsAssumption, SupplyAssumption
     DEF IInv, TypeOK, MessageStatus, Call, InFlight, Replied, Tasks, RequestOf, StatusInv,
         VftDeposit, TokenReplies
<1>2. TaskInv'
  BY IdsAssumption, SupplyAssumption DEF IInv, TypeOK, TaskInv, Tasks, VftDeposit, TokenReplies
<1>3. ASSUME NEW n \in Requests PROVE StatusInv(n)'
  BY IdsAssumption, SupplyAssumption
     DEF IInv, TypeOK, TaskInv, StatusInv, ReturnStates, InFlight, Replied, ErrorReply,
         Tasks, RequestOf, VftDeposit, TokenReplies
<1>4. ASSUME NEW n \in Requests PROVE RefundInv(n)'
  BY IdsAssumption, SupplyAssumption
     DEF IInv, TypeOK, TaskInv, StatusInv, RefundInv, ReturnStates, RefundSent, Refunds,
         Performed, InFlight, Replied, ErrorReply, Tasks, RequestOf, VftDeposit,
         TokenReplies
<1>5. ASSUME NEW n \in Requests PROVE OneRefundInv(n)'
  BY IdsAssumption, SupplyAssumption
     DEF IInv, TypeOK, TaskInv, StatusInv, RefundInv, OneRefundInv, Live, ReturnStates,
         RefundSent, InFlight, Replied, ErrorReply, Tasks, RequestOf, VftDeposit,
         TokenReplies
<1> QED
  BY <1>1, <1>2, <1>3, <1>4, <1>5 DEF IInv

LEMMA DepositReplyStep ==
    ASSUME IInv, NEW m \in Requests, DepositReply(m)
    PROVE  IInv'
<1>1. TypeOK'
  BY IdsAssumption, SupplyAssumption
     DEF IInv, TypeOK, MessageStatus, Call, InFlight, Replied, Tasks, RequestOf, StatusInv,
         DepositReply, TokenHookStatus, Got
<1>2. TaskInv'
  BY IdsAssumption, SupplyAssumption
     DEF IInv, TypeOK, TaskInv, Tasks, DepositReply, TokenHookStatus, Got
<1>3. ASSUME NEW n \in Requests PROVE StatusInv(n)'
  BY IdsAssumption, SupplyAssumption
     DEF IInv, TypeOK, TaskInv, StatusInv, ReturnStates, InFlight, Replied, ErrorReply,
         Tasks, RequestOf, DepositReply, TokenHookStatus, Got
<1>4. ASSUME NEW n \in Requests PROVE RefundInv(n)'
  BY IdsAssumption, SupplyAssumption
     DEF IInv, TypeOK, TaskInv, StatusInv, RefundInv, ReturnStates, RefundSent, Refunds,
         Performed, InFlight, Replied, ErrorReply, Tasks, RequestOf, DepositReply,
         TokenHookStatus, Got
<1>5. ASSUME NEW n \in Requests PROVE OneRefundInv(n)'
  BY IdsAssumption, SupplyAssumption
     DEF IInv, TypeOK, TaskInv, StatusInv, RefundInv, OneRefundInv, Live, ReturnStates,
         RefundSent, InFlight, Replied, ErrorReply, Tasks, RequestOf, DepositReply,
         TokenHookStatus, Got
<1> QED
  BY <1>1, <1>2, <1>3, <1>4, <1>5 DEF IInv

LEMMA BuiltinQueueStep ==
    ASSUME IInv, NEW m \in Requests, BuiltinQueue(m)
    PROVE  IInv'
<1>1. TypeOK'
  BY IdsAssumption, SupplyAssumption
     DEF IInv, TypeOK, MessageStatus, Call, InFlight, Replied, Tasks, RequestOf, StatusInv,
         BuiltinQueue
<1>2. TaskInv'
  BY IdsAssumption, SupplyAssumption DEF IInv, TypeOK, TaskInv, Tasks, BuiltinQueue
<1>3. ASSUME NEW n \in Requests PROVE StatusInv(n)'
  BY IdsAssumption, SupplyAssumption
     DEF IInv, TypeOK, TaskInv, StatusInv, ReturnStates, InFlight, Replied, ErrorReply,
         Tasks, RequestOf, BuiltinQueue
<1>4. ASSUME NEW n \in Requests PROVE RefundInv(n)'
  BY IdsAssumption, SupplyAssumption
     DEF IInv, TypeOK, TaskInv, StatusInv, RefundInv, ReturnStates, RefundSent, Refunds,
         Performed, InFlight, Replied, ErrorReply, Tasks, RequestOf, BuiltinQueue
<1>5. ASSUME NEW n \in Requests PROVE OneRefundInv(n)'
  BY IdsAssumption, SupplyAssumption
     DEF IInv, TypeOK, TaskInv, StatusInv, RefundInv, OneRefundInv, Live, ReturnStates,
         RefundSent, InFlight, Replied, ErrorReply, Tasks, RequestOf, BuiltinQueue
<1> QED
  BY <1>1, <1>2, <1>3, <1>4, <1>5 DEF IInv

LEMMA BridgeReplyStep ==
    ASSUME IInv, NEW m \in Requests, BridgeReply(m)
    PROVE  IInv'
<1>1. TypeOK'
  BY IdsAssumption, SupplyAssumption
     DEF IInv, TypeOK, MessageStatus, Call, InFlight, Replied, Tasks, RequestOf, StatusInv,
         BridgeReply, BridgeHookStatus, Got
<1>2. TaskInv'
  BY IdsAssumption, SupplyAssumption
     DEF IInv, TypeOK, TaskInv, Tasks, BridgeReply, BridgeHookStatus, Got
<1>3. ASSUME NEW n \in Requests PROVE StatusInv(n)'
  BY IdsAssumption, SupplyAssumption
     DEF IInv, TypeOK, TaskInv, StatusInv, ReturnStates, InFlight, Replied, ErrorReply,
         Tasks, RequestOf, BridgeReply, BridgeHookStatus, Got
<1>4. ASSUME NEW n \in Requests PROVE RefundInv(n)'
  BY IdsAssumption, SupplyAssumption
     DEF IInv, TypeOK, TaskInv, StatusInv, RefundInv, ReturnStates, RefundSent, Refunds,
         Performed, InFlight, Replied, ErrorReply, Tasks, RequestOf, BridgeReply,
         BridgeHookStatus, Got
<1>5. ASSUME NEW n \in Requests PROVE OneRefundInv(n)'
  BY IdsAssumption, SupplyAssumption
     DEF IInv, TypeOK, TaskInv, StatusInv, RefundInv, OneRefundInv, Live, ReturnStates,
         RefundSent, InFlight, Replied, ErrorReply, Tasks, RequestOf, BridgeReply,
         BridgeHookStatus, Got
<1> QED
  BY <1>1, <1>2, <1>3, <1>4, <1>5 DEF IInv

LEMMA VftReturnStep ==
    ASSUME IInv, NEW t \in Tasks, VftReturn(t)
    PROVE  IInv'
<1>1. TypeOK'
  BY IdsAssumption, SupplyAssumption
     DEF IInv, TypeOK, MessageStatus, Call, InFlight, Replied, Tasks, RequestOf, StatusInv,
         VftReturn, TokenReplies
<1>2. TaskInv'
  BY IdsAssumption, SupplyAssumption DEF IInv, TypeOK, TaskInv, Tasks, VftReturn, TokenReplies
<1>3. ASSUME NEW n \in Requests PROVE StatusInv(n)'
  BY IdsAssumption, SupplyAssumption
     DEF IInv, TypeOK, TaskInv, StatusInv, ReturnStates, InFlight, Replied, ErrorReply,
         Tasks, RequestOf, VftReturn, TokenReplies
<1>4. ASSUME NEW n \in Requests PROVE RefundInv(n)'
  BY IdsAssumption, SupplyAssumption
     DEF IInv, TypeOK, TaskInv, StatusInv, RefundInv, ReturnStates, RefundSent, Refunds,
         Performed, InFlight, Replied, ErrorReply, Tasks, RequestOf, VftReturn, TokenReplies
<1>5. ASSUME NEW n \in Requests PROVE OneRefundInv(n)'
  BY IdsAssumption, SupplyAssumption
     DEF IInv, TypeOK, TaskInv, StatusInv, RefundInv, OneRefundInv, Live, ReturnStates,
         RefundSent, InFlight, Replied, ErrorReply, Tasks, RequestOf, VftReturn,
         TokenReplies
<1> QED
  BY <1>1, <1>2, <1>3, <1>4, <1>5 DEF IInv

LEMMA ReturnReplyStep ==
    ASSUME IInv, NEW t \in Tasks, ReturnReply(t)
    PROVE  IInv'
<1>1. TypeOK'
  BY IdsAssumption, SupplyAssumption, ZenonT(30)
     DEF IInv, TypeOK, MessageStatus, Call, InFlight, Replied, Tasks, RequestOf, StatusInv,
         ReturnReply, TokenHookStatus, Got
<1>2. TaskInv'
  BY IdsAssumption, SupplyAssumption
     DEF IInv, TypeOK, TaskInv, Tasks, ReturnReply, TokenHookStatus, Got
<1>3. ASSUME NEW n \in Requests PROVE StatusInv(n)'
  BY IdsAssumption, SupplyAssumption
     DEF IInv, TypeOK, TaskInv, StatusInv, RefundInv, RefundSent, ReturnStates,
         MessageStatus, InFlight, Replied, ErrorReply, Tasks, RequestOf, ReturnReply,
         TokenHookStatus, Got
<1>4. ASSUME NEW n \in Requests PROVE RefundInv(n)'
  BY IdsAssumption, SupplyAssumption
     DEF IInv, TypeOK, TaskInv, StatusInv, RefundInv, ReturnStates, RefundSent, Refunds,
         Performed, InFlight, Replied, ErrorReply, Tasks, RequestOf, ReturnReply,
         TokenHookStatus, Got
<1>5. ASSUME NEW n \in Requests PROVE OneRefundInv(n)'
  BY IdsAssumption, SupplyAssumption
     DEF IInv, TypeOK, TaskInv, StatusInv, RefundInv, OneRefundInv, Live, ReturnStates,
         RefundSent, InFlight, Replied, ErrorReply, Tasks, RequestOf, ReturnReply,
         TokenHookStatus, Got
<1> QED
  BY <1>1, <1>2, <1>3, <1>4, <1>5 DEF IInv

LEMMA HandleInterruptedTransferStep ==
    ASSUME IInv, NEW r \in Recoveries, NEW m \in Requests, HandleInterruptedTransfer(r, m)
    PROVE  IInv'
<1>1. TypeOK'
  BY IdsAssumption, SupplyAssumption
     DEF IInv, TypeOK, MessageStatus, Call, InFlight, Replied, Tasks, RequestOf, StatusInv,
         HandleInterruptedTransfer, BeingServed, Recoverable
<1>2. TaskInv'
  BY IdsAssumption, SupplyAssumption
     DEF IInv, TypeOK, TaskInv, Tasks, HandleInterruptedTransfer, BeingServed, Recoverable
<1>3. ASSUME NEW n \in Requests PROVE StatusInv(n)'
  BY IdsAssumption, SupplyAssumption
     DEF IInv, TypeOK, TaskInv, StatusInv, ReturnStates, InFlight, Replied, ErrorReply,
         Tasks, RequestOf, HandleInterruptedTransfer, BeingServed, Recoverable
<1>4. ASSUME NEW n \in Requests PROVE RefundInv(n)'
  BY IdsAssumption, SupplyAssumption
     DEF IInv, TypeOK, TaskInv, StatusInv, RefundInv, ReturnStates, RefundSent, Refunds,
         Performed, InFlight, Replied, ErrorReply, Tasks, RequestOf,
         HandleInterruptedTransfer, BeingServed, Recoverable
<1>5. ASSUME NEW n \in Requests PROVE OneRefundInv(n)'
  BY IdsAssumption, SupplyAssumption
     DEF IInv, TypeOK, TaskInv, StatusInv, RefundInv, OneRefundInv, Live, ReturnStates,
         RefundSent, InFlight, Replied, ErrorReply, Tasks, RequestOf,
         HandleInterruptedTransfer, BeingServed, Recoverable
<1> QED
  BY <1>1, <1>2, <1>3, <1>4, <1>5 DEF IInv

LEMMA HandleInterruptedTransferFailsStep ==
    ASSUME IInv, NEW r \in Recoveries, NEW m \in Requests, HandleInterruptedTransferFails(r, m)
    PROVE  IInv'
<1>1. TypeOK'
  BY IdsAssumption, SupplyAssumption
     DEF IInv, TypeOK, MessageStatus, Call, InFlight, Replied, Tasks, RequestOf, StatusInv,
         HandleInterruptedTransferFails, Recoverable
<1>2. TaskInv'
  BY IdsAssumption, SupplyAssumption
     DEF IInv, TypeOK, TaskInv, Tasks, HandleInterruptedTransferFails, Recoverable
<1>3. ASSUME NEW n \in Requests PROVE StatusInv(n)'
  BY IdsAssumption, SupplyAssumption
     DEF IInv, TypeOK, TaskInv, StatusInv, ReturnStates, InFlight, Replied, ErrorReply,
         Tasks, RequestOf, HandleInterruptedTransferFails, Recoverable
<1>4. ASSUME NEW n \in Requests PROVE RefundInv(n)'
  BY IdsAssumption, SupplyAssumption
     DEF IInv, TypeOK, TaskInv, StatusInv, RefundInv, ReturnStates, RefundSent, Refunds,
         Performed, InFlight, Replied, ErrorReply, Tasks, RequestOf,
         HandleInterruptedTransferFails, Recoverable
<1>5. ASSUME NEW n \in Requests PROVE OneRefundInv(n)'
  BY IdsAssumption, SupplyAssumption
     DEF IInv, TypeOK, TaskInv, StatusInv, RefundInv, OneRefundInv, Live, ReturnStates,
         RefundSent, InFlight, Replied, ErrorReply, Tasks, RequestOf,
         HandleInterruptedTransferFails, Recoverable
<1> QED
  BY <1>1, <1>2, <1>3, <1>4, <1>5 DEF IInv

LEMMA InitInv ==
    ASSUME Init
    PROVE  IInv
<1>1. TypeOK
  BY DEF Init, TypeOK, MessageStatus, Call
<1>2. TaskInv
  BY IdsAssumption DEF Init, TaskInv, Tasks
<1>3. ASSUME NEW m \in Requests PROVE ~RefundSent(m) /\ Refunds(m) = {}
  BY DEF Init, RefundSent, Refunds, Performed
<1>4. ASSUME NEW m \in Requests PROVE StatusInv(m) /\ RefundInv(m)
  BY <1>3 DEF Init, StatusInv, RefundInv, ReturnStates, Tasks
<1>5. ASSUME NEW m \in Requests PROVE OneRefundInv(m)
  BY <1>3 DEF Init, OneRefundInv, Live, InFlight
<1> QED
  BY <1>1, <1>2, <1>4, <1>5 DEF IInv

\* Pausing and stuttering change nothing that the invariant speaks of.
LEMMA AdminStep ==
    ASSUME IInv, Pause \/ Unpause \/ UNCHANGED vars
    PROVE  IInv'
<1>1. /\ UNCHANGED <<tracker, pc, target, depositCall, bridgeCall, returnCall,
                     succeeded, timedOut, overlapped>>
      /\ is_paused' \in BOOLEAN
  BY DEF Pause, Unpause, vars, IInv, TypeOK
<1>2. TypeOK' /\ TaskInv'
  BY <1>1 DEF IInv, TypeOK, TaskInv
<1>3. ASSUME NEW m \in Requests PROVE StatusInv(m)'
  BY <1>1 DEF IInv, StatusInv
<1>4. ASSUME NEW m \in Requests PROVE (RefundInv(m) /\ OneRefundInv(m))'
  BY <1>1 DEF IInv, RefundInv, OneRefundInv, RefundSent, Refunds, RequestOf
<1> QED
  BY <1>2, <1>3, <1>4 DEF IInv

\* IInv is an inductive invariant.
THEOREM Invariance == Spec => []IInv
<1>1. IInv /\ [Next]_vars => IInv'
  <2> SUFFICES ASSUME IInv, [Next]_vars PROVE IInv'
    OBVIOUS
  <2>1. ASSUME NEW m \in Requests, RequestBridging(m) PROVE IInv'
    BY <2>1, RequestBridgingStep
  <2>2. ASSUME NEW m \in Requests, RequestProgress(m) PROVE IInv'
    BY <2>2, SendToBridgeBuiltinStep, SendToBridgeBuiltinFailsStep, CompleteBridgingStep,
       RefundAfterFailureStep, RefundAfterTimeoutStep, OutOfGasAtBuiltinStep,
       CriticalHookStep, FinishStep DEF RequestProgress, Tasks
  <2>3. ASSUME NEW m \in Requests, CalleeProgress(m) PROVE IInv'
    BY <2>3, VftDepositStep, DepositReplyStep, BuiltinQueueStep, BridgeReplyStep
       DEF CalleeProgress
  <2>4. ASSUME NEW t \in Tasks, ReturnProgress(t) PROVE IInv'
    BY <2>4, VftReturnStep, ReturnReplyStep DEF ReturnProgress
  <2>5. ASSUME NEW r \in Recoveries, Finish(r) PROVE IInv'
    BY <2>5, FinishStep DEF Tasks
  <2>6. ASSUME NEW r \in Recoveries, NEW m \in Requests,
               HandleInterruptedTransfer(r, m) \/ HandleInterruptedTransferFails(r, m)
        PROVE IInv'
    BY <2>6, HandleInterruptedTransferStep, HandleInterruptedTransferFailsStep
  <2>7. CASE Pause \/ Unpause \/ UNCHANGED vars
    BY <2>7, AdminStep
  <2> QED
    BY <2>1, <2>2, <2>3, <2>4, <2>5, <2>6, <2>7 DEF Next
<1> QED
  BY InitInv, <1>1, PTL DEF Spec

\* The state of the program keeps its type.
THEOREM TypeCorrect == Spec => []TypeOK
<1>1. IInv => TypeOK
  BY DEF IInv
<1> QED
  BY Invariance, <1>1, PTL

\* No panic, timeout or exhausted gas strands deposited tokens.
THEOREM FundsNeverStuck == Spec => []NoStuckFunds
<1>1. IInv => NoStuckFunds
  BY DEF IInv, TypeOK, StatusInv, RefundInv, NoStuckFunds, Quiet, Deposited, Bridged,
         Performed, Recoverable, MessageStatus, InFlight, ReturnStates
<1> QED
  BY Invariance, <1>1, PTL

\* Tokens are given back only if they were taken.
THEOREM RefundsAreBacked == Spec => []NoRefundWithoutDeposit
<1>1. IInv => NoRefundWithoutDeposit
  BY DEF IInv, StatusInv, RefundInv, NoRefundWithoutDeposit, Deposited, Performed
<1> QED
  BY Invariance, <1>1, PTL

\* An Ok(nonce) reply is final.
THEOREM SuccessfulRequestsAreFinal == Spec => []SuccessIsFinal
<1>1. IInv => SuccessIsFinal
  BY DEF IInv, TypeOK, StatusInv, RefundInv, SuccessIsFinal, Bridged, Performed, ReturnStates
<1> QED
  BY Invariance, <1>1, PTL

\* Bridging and refunding the same tokens takes a timeout.
THEOREM BothOnlyAfterTimeout == Spec => []BridgedAndRefundedOnlyAfterTimeout
<1>1. IInv => BridgedAndRefundedOnlyAfterTimeout
  BY DEF IInv, StatusInv, RefundInv, BridgedAndRefundedOnlyAfterTimeout, Bridged, Performed
<1> QED
  BY Invariance, <1>1, PTL

\* Recovering a request that nothing serves any more refunds it at most once.
THEOREM SequentialRecoveryRefundsOnce == Spec => []RefundOnceUnlessOverlapped
<1>1. IInv => RefundOnceUnlessOverlapped
  BY DEF IInv, OneRefundInv, RefundOnceUnlessOverlapped, Refunds, Performed, Live, InFlight
<1> QED
  BY Invariance, <1>1, PTL

--------------------------------------------------------------------------------
(****************************************************************************)
(* RequestBridging implements Bridge.  The ledger counts refunds, so that    *)
(* the mapping needs one fact beyond IInv: however many tasks there are,     *)
(* only finitely many of them have made a refund call.                       *)
(****************************************************************************)
Returning == {t \in Tasks : returnCall[t] # "none"}

FiniteRefunds == IsFiniteSet(Returning)

\* Finitely many refund calls have been made at any time.
THEOREM RefundsFinite == Spec => []FiniteRefunds
<1>1. Init => FiniteRefunds
  <2> SUFFICES ASSUME Init PROVE FiniteRefunds
    OBVIOUS
  <2>1. Returning = {}
    BY DEF Init, Returning
  <2> QED
    BY <2>1, FS_EmptySet DEF FiniteRefunds
<1>2. IInv /\ FiniteRefunds /\ [Next]_vars => FiniteRefunds'
  <2> SUFFICES ASSUME IInv, FiniteRefunds, [Next]_vars PROVE FiniteRefunds'
    OBVIOUS
  <2>1. \E x : Returning' \subseteq Returning \cup {x}
    <3>1. \/ UNCHANGED returnCall
          \/ \E t \in Tasks, c \in Call : returnCall' = [returnCall EXCEPT ![t] = c]
      <4>1. ASSUME NEW m \in Requests, ReturnTokens(m)
            PROVE  \E c \in Call : returnCall' = [returnCall EXCEPT ![m] = c]
        BY <4>1 DEF ReturnTokens, Call, InFlight
      <4>2. ASSUME NEW m \in Requests, RequestBridging(m) \/ RequestProgress(m) \/ CalleeProgress(m)
            PROVE  UNCHANGED returnCall \/ ReturnTokens(m)
        BY <4>2 DEF RequestBridging, RequestProgress, CalleeProgress, SendToBridgeBuiltin,
           SendToBridgeBuiltinFails, CompleteBridging, RefundAfterFailure, RefundAfterTimeout,
           OutOfGasAtBuiltin, CriticalHook, Finish, VftDeposit, DepositReply, BuiltinQueue,
           BridgeReply
      <4>3. ASSUME NEW t \in Tasks, ReturnProgress(t)
            PROVE  \E c \in Call : returnCall' = [returnCall EXCEPT ![t] = c]
        <5>1. CASE VftReturn(t)
          BY <5>1 DEF VftReturn, TokenReplies, Call, InFlight
        <5>2. CASE ReturnReply(t)
          <6>1. Got(returnCall[t]) \in Call
            BY <5>2 DEF ReturnReply, Got, Call, Replied
          <6> QED
            BY <5>2, <6>1 DEF ReturnReply, IInv, TypeOK
        <5> QED
          BY <4>3, <5>1, <5>2 DEF ReturnProgress
      <4>4. ASSUME NEW r \in Recoveries, NEW m \in Requests, HandleInterruptedTransfer(r, m)
            PROVE  \E c \in Call : returnCall' = [returnCall EXCEPT ![r] = c]
        BY <4>4 DEF HandleInterruptedTransfer, Call, InFlight
      <4> QED
        BY <4>1, <4>2, <4>3, <4>4 DEF Next, Tasks, Finish, HandleInterruptedTransferFails,
           Pause, Unpause, vars
    <3>2. CASE UNCHANGED returnCall
      BY <3>2 DEF Returning
    <3>3. ASSUME NEW t \in Tasks, NEW c \in Call, returnCall' = [returnCall EXCEPT ![t] = c]
          PROVE  Returning' \subseteq Returning \cup {t}
      BY <3>3 DEF Returning, IInv, TypeOK
    <3> QED
      BY <3>1, <3>2, <3>3
  <2>2. PICK x : Returning' \subseteq Returning \cup {x}
    BY <2>1
  <2>3. IsFiniteSet(Returning \cup {x})
    BY FS_AddElement DEF FiniteRefunds
  <2> QED
    BY <2>2, <2>3, FS_Subset DEF FiniteRefunds
<1> QED
  BY Invariance, <1>1, <1>2, PTL DEF Spec

\* How often the tokens of m were given back.
RefundCount(m) == Cardinality(Refunds(m))

LEMMA RefundCountType ==
    ASSUME FiniteRefunds, NEW m \in Requests
    PROVE  /\ IsFiniteSet(Refunds(m))
           /\ RefundCount(m) \in Nat
           /\ RefundCount(m) = 0 <=> Refunds(m) = {}
<1>1. Refunds(m) \subseteq Returning
  BY DEF Refunds, Returning, Performed
<1>2. IsFiniteSet(Refunds(m))
  BY <1>1, FS_Subset DEF FiniteRefunds
<1> QED
  BY <1>2, FS_CardinalityType, FS_EmptySet DEF RefundCount

\* A step that changes no performed call and no history changes no ledger entry.
LEMMA LedgerKept ==
    ASSUME UNCHANGED <<succeeded, timedOut, overlapped>>,
           \A n \in Requests : /\ Deposited(n)' <=> Deposited(n)
                               /\ Bridged(n)' <=> Bridged(n)
                               /\ Refunds(n)' = Refunds(n)
    PROVE  UNCHANGED Ledger!ledger
<1>1. {n \in Requests : Deposited(n)}' = {n \in Requests : Deposited(n)}
  OBVIOUS
<1>2. {n \in Requests : Bridged(n)}' = {n \in Requests : Bridged(n)}
  OBVIOUS
<1>3. [n \in Requests |-> Cardinality(Refunds(n))]' = [n \in Requests |-> Cardinality(Refunds(n))]
  OBVIOUS
<1> QED
  BY <1>1, <1>2, <1>3 DEF Ledger!ledger

\* The steps that take or give no tokens, confirm nothing and excuse nothing.
LEMMA RequestStutters ==
    ASSUME IInv, NEW m \in Requests,
           \/ RequestBridging(m) \/ SendToBridgeBuiltin(m) \/ SendToBridgeBuiltinFails(m)
           \/ RefundAfterFailure(m) \/ OutOfGasAtBuiltin(m)
           \/ DepositReply(m) \/ BridgeReply(m)
    PROVE  UNCHANGED Ledger!ledger
<1>1. UNCHANGED <<succeeded, timedOut, overlapped, target>>
  BY DEF RequestBridging, SendToBridgeBuiltin, SendToBridgeBuiltinFails, RefundAfterFailure,
     OutOfGasAtBuiltin, DepositReply, BridgeReply
<1>2. ASSUME NEW n \in Requests PROVE Deposited(n)' <=> Deposited(n)
  <2>1. RequestBridging(m) => ~Deposited(m)
    BY DEF RequestBridging, IInv, TypeOK, StatusInv, MessageStatus, Deposited, Performed, ReturnStates
  <2> QED
    BY <2>1 DEF Deposited, Performed, IInv, TypeOK, RequestBridging, SendToBridgeBuiltin,
       SendToBridgeBuiltinFails, RefundAfterFailure, OutOfGasAtBuiltin, DepositReply,
       BridgeReply, Got
<1>3. ASSUME NEW n \in Requests PROVE Bridged(n)' <=> Bridged(n)
  <2>1. SendToBridgeBuiltin(m) => ~Bridged(m)
    BY DEF SendToBridgeBuiltin, DepositSucceeded, IInv, StatusInv, Bridged, Performed
  <2> QED
    BY <2>1 DEF Bridged, Performed, IInv, TypeOK, RequestBridging, SendToBridgeBuiltin,
       SendToBridgeBuiltinFails, RefundAfterFailure, OutOfGasAtBuiltin, DepositReply,
       BridgeReply, Got
<1>4. \A t \in Tasks : Performed(returnCall[t])' <=> Performed(returnCall[t])
  <2>1. SendToBridgeBuiltinFails(m) \/ RefundAfterFailure(m) => returnCall[m] = "none"
    BY DEF SendToBridgeBuiltinFails, RefundAfterFailure, IInv, TaskInv
  <2> QED
    BY <2>1 DEF Performed, IInv, TypeOK, RequestBridging, SendToBridgeBuiltin, ReturnTokens,
       SendToBridgeBuiltinFails, RefundAfterFailure, OutOfGasAtBuiltin, DepositReply, BridgeReply
<1>5. ASSUME NEW n \in Requests PROVE Refunds(n)' = Refunds(n)
  BY <1>1, <1>4 DEF Refunds, RequestOf
<1> QED
  BY <1>1, <1>2, <1>3, <1>5, LedgerKept

\* The steps of the refunds and of administration that give no tokens back.
LEMMA OtherStutters ==
    ASSUME IInv,
           \/ \E t \in Tasks : Finish(t) \/ ReturnReply(t)
           \/ \E r \in Recoveries, m \in Requests : HandleInterruptedTransferFails(r, m)
           \/ Pause \/ Unpause \/ UNCHANGED vars
    PROVE  UNCHANGED Ledger!ledger
<1>1. UNCHANGED <<succeeded, timedOut, overlapped, depositCall, bridgeCall>>
  BY DEF Finish, ReturnReply, HandleInterruptedTransferFails, Pause, Unpause, vars
<1>2. ASSUME NEW n \in Requests PROVE /\ Deposited(n)' <=> Deposited(n)
                                      /\ Bridged(n)' <=> Bridged(n)
  BY <1>1 DEF Deposited, Bridged
<1>3. ASSUME NEW n \in Requests PROVE Refunds(n)' = Refunds(n)
  <2>1. ASSUME NEW t \in Tasks, ReturnReply(t) PROVE Refunds(n)' = Refunds(n)
    <3>1. \A u \in Tasks : Performed(returnCall[u])' <=> Performed(returnCall[u])
      BY <2>1 DEF ReturnReply, Performed, Got, IInv, TypeOK
    <3> QED
      BY <2>1, <3>1 DEF ReturnReply, Refunds, RequestOf
  <2>2. ASSUME NEW r \in Recoveries, NEW m \in Requests, HandleInterruptedTransferFails(r, m)
        PROVE Refunds(n)' = Refunds(n)
    <3>1. returnCall[r] = "none" /\ UNCHANGED returnCall
      BY <2>2 DEF HandleInterruptedTransferFails, IInv, TaskInv
    <3>2. \A t \in Tasks : t # r => RequestOf(t)' = RequestOf(t)
      BY <2>2, IdsAssumption DEF HandleInterruptedTransferFails, RequestOf, Tasks, IInv, TypeOK
    <3> QED
      BY <3>1, <3>2 DEF Refunds, Performed
  <2>3. ASSUME NEW t \in Tasks, Finish(t) PROVE Refunds(n)' = Refunds(n)
    BY <2>3 DEF Finish, Refunds, RequestOf
  <2>4. CASE Pause \/ Unpause \/ UNCHANGED vars
    BY <2>4 DEF Pause, Unpause, vars, Refunds, RequestOf
  <2> QED
    BY <2>1, <2>2, <2>3, <2>4
<1> QED
  BY <1>1, <1>2, <1>3, LedgerKept

\* Taking the tokens is Deposit.
LEMMA VftDepositMaps ==
    ASSUME IInv, NEW m \in Requests, VftDeposit(m)
    PROVE  Ledger!Deposit(m) \/ UNCHANGED Ledger!ledger
<1>1. UNCHANGED <<succeeded, timedOut, overlapped, target, bridgeCall, returnCall>>
  BY DEF VftDeposit
<1>2. \A n \in Requests : (Bridged(n)' <=> Bridged(n)) /\ Refunds(n)' = Refunds(n)
  BY <1>1 DEF Bridged, Refunds, RequestOf
<1>3. PICK c \in TokenReplies(m) : depositCall' = [depositCall EXCEPT ![m] = c]
  BY DEF VftDeposit
<1>4. ~Deposited(m)
  BY DEF VftDeposit, Deposited, Performed
<1>5. CASE c = "yes"
  <2>1. \A n \in Requests : Deposited(n)' <=> n = m \/ Deposited(n)
    BY <1>3, <1>5 DEF Deposited, Performed, IInv, TypeOK
  <2>2. {n \in Requests : Deposited(n)}' = {n \in Requests : Deposited(n)} \cup {m}
    BY <2>1
  <2>3. /\ {n \in Requests : Bridged(n)}' = {n \in Requests : Bridged(n)}
        /\ [n \in Requests |-> Cardinality(Refunds(n))]' = [n \in Requests |-> Cardinality(Refunds(n))]
    BY <1>2
  <2> QED
    BY <1>1, <1>4, <2>2, <2>3 DEF Ledger!Deposit
<1>6. CASE c # "yes"
  <2>1. \A n \in Requests : Deposited(n)' <=> Deposited(n)
    BY <1>3, <1>4, <1>6 DEF Deposited, Performed, IInv, TypeOK, TokenReplies
  <2> QED
    BY <1>1, <1>2, <2>1, LedgerKept
<1> QED
  BY <1>5, <1>6

\* Accepting the message in the built-in actor is Queue.
LEMMA BuiltinQueueMaps ==
    ASSUME IInv, FiniteRefunds, NEW m \in Requests, BuiltinQueue(m)
    PROVE  Ledger!Queue(m) \/ UNCHANGED Ledger!ledger
<1>1. UNCHANGED <<succeeded, timedOut, overlapped, target, depositCall, returnCall>>
  BY DEF BuiltinQueue
<1>2. \A n \in Requests : (Deposited(n)' <=> Deposited(n)) /\ Refunds(n)' = Refunds(n)
  BY <1>1 DEF Deposited, Refunds, RequestOf
<1>3. PICK c \in {"yes", "err"} : bridgeCall' = [bridgeCall EXCEPT ![m] = c]
  BY DEF BuiltinQueue
<1>4. ~Bridged(m)
  BY DEF BuiltinQueue, Bridged, Performed
<1>5. CASE c = "yes"
  <2>1. \A n \in Requests : Bridged(n)' <=> n = m \/ Bridged(n)
    BY <1>3, <1>5 DEF Bridged, Performed, IInv, TypeOK
  <2>2. {n \in Requests : Bridged(n)}' = {n \in Requests : Bridged(n)} \cup {m}
    BY <2>1
  <2>3. /\ {n \in Requests : Deposited(n)}' = {n \in Requests : Deposited(n)}
        /\ [n \in Requests |-> Cardinality(Refunds(n))]' = [n \in Requests |-> Cardinality(Refunds(n))]
    BY <1>2
  <2>4. Deposited(m)
    BY DEF BuiltinQueue, IInv, TypeOK, StatusInv, MessageStatus, ReturnStates, InFlight,
       Deposited, Performed
  <2>5. m \in timedOut \/ Refunds(m) = {}
    BY DEF BuiltinQueue, IInv, StatusInv, RefundInv, RefundSent, Refunds, Performed
  <2>6. m \in timedOut \/ [n \in Requests |-> Cardinality(Refunds(n))][m] = 0
    BY <2>5, RefundCountType DEF RefundCount
  <2> QED
    BY <1>1, <1>4, <2>2, <2>3, <2>4, <2>6 DEF Ledger!Queue
<1>6. CASE c # "yes"
  <2>1. \A n \in Requests : Bridged(n)' <=> Bridged(n)
    BY <1>3, <1>4, <1>6 DEF Bridged, Performed, IInv, TypeOK
  <2> QED
    BY <1>1, <1>2, <2>1, LedgerKept
<1> QED
  BY <1>5, <1>6

\* Performing a refund is Refund.
LEMMA VftReturnMaps ==
    ASSUME IInv, FiniteRefunds, NEW t \in Tasks, VftReturn(t)
    PROVE  (\E m \in Requests : Ledger!Refund(m)) \/ UNCHANGED Ledger!ledger
<1>1. UNCHANGED <<succeeded, timedOut, overlapped, target, depositCall, bridgeCall>>
  BY DEF VftReturn
<1>2. \A n \in Requests : (Deposited(n)' <=> Deposited(n)) /\ (Bridged(n)' <=> Bridged(n))
  BY <1>1 DEF Deposited, Bridged
<1>3. PICK c \in TokenReplies(RequestOf(t)) : returnCall' = [returnCall EXCEPT ![t] = c]
  BY DEF VftReturn
<1>4. ~Performed(returnCall[t]) /\ returnCall[t] = "sent"
  BY DEF VftReturn, Performed
<1>5. \A u \in Tasks : RequestOf(u)' = RequestOf(u)
  BY <1>1 DEF RequestOf
<1>6. PICK m \in Requests : RequestOf(t) = m
  BY <1>4 DEF IInv, TypeOK, TaskInv, RequestOf, Tasks
<1>7. CASE c = "yes"
  <2>1. \A u \in Tasks : Performed(returnCall[u])' <=> u = t \/ Performed(returnCall[u])
    BY <1>3, <1>7 DEF Performed, IInv, TypeOK
  <2>2. Refunds(m)' = Refunds(m) \cup {t} /\ t \notin Refunds(m)
    BY <1>4, <1>5, <1>6, <2>1 DEF Refunds
  <2>3. \A n \in Requests : n # m => Refunds(n)' = Refunds(n)
    BY <1>5, <1>6, <2>1 DEF Refunds
  <2>4. RefundCount(m)' = RefundCount(m) + 1
    BY <1>6, <2>2, RefundCountType, FS_AddElement DEF RefundCount
  <2>5. [n \in Requests |-> RefundCount(n)]'
           = [[n \in Requests |-> RefundCount(n)] EXCEPT ![m] = @ + 1]
    BY <1>6, <2>3, <2>4 DEF RefundCount
  <2>6. /\ {n \in Requests : Deposited(n)}' = {n \in Requests : Deposited(n)}
        /\ {n \in Requests : Bridged(n)}' = {n \in Requests : Bridged(n)}
    BY <1>2
  <2>7. RefundSent(m) /\ tracker[m] \in ReturnStates
    BY <1>4, <1>6 DEF RefundSent, IInv, RefundInv
  <2>8. Deposited(m) /\ m \notin succeeded /\ (Bridged(m) => m \in timedOut)
    BY <1>6, <2>7 DEF IInv, StatusInv, Deposited, Bridged, Performed, ReturnStates
  <2>9. RefundCount(m) > 0 => m \in overlapped
    <3> SUFFICES ASSUME RefundCount(m) > 0, m \notin overlapped PROVE FALSE
      OBVIOUS
    <3>1. PICK u \in Refunds(m) : TRUE
      BY <1>6, RefundCountType
    <3>2. u \in Tasks /\ RequestOf(u) = m /\ returnCall[u] \in Live
      BY <3>1 DEF Refunds, Performed, Live, InFlight
    <3>3. RequestOf(t) = m /\ returnCall[t] \in Live
      BY <1>4, <1>6 DEF Live, InFlight
    <3>4. u = t
      BY <1>6, <3>2, <3>3 DEF IInv, OneRefundInv
    <3> QED
      BY <2>2, <3>1, <3>4
  <2>10. Ledger!Refund(m)
    BY <1>1, <1>6, <2>5, <2>6, <2>8, <2>9 DEF Ledger!Refund, RefundCount
  <2> QED
    BY <1>6, <2>10
<1>8. CASE c # "yes"
  <2>1. \A u \in Tasks : Performed(returnCall[u])' <=> Performed(returnCall[u])
    BY <1>3, <1>4, <1>8 DEF Performed, IInv, TypeOK, TokenReplies
  <2>2. \A n \in Requests : Refunds(n)' = Refunds(n)
    BY <1>5, <2>1 DEF Refunds
  <2> QED
    BY <1>1, <1>2, <2>2, LedgerKept
<1> QED
  BY <1>7, <1>8

\* Replying Ok(nonce) is Confirm.
LEMMA CompleteBridgingMaps ==
    ASSUME IInv, FiniteRefunds, NEW m \in Requests, CompleteBridging(m)
    PROVE  Ledger!Confirm(m)
<1>1. /\ UNCHANGED <<timedOut, overlapped, target, depositCall, bridgeCall, returnCall>>
      /\ succeeded' = succeeded \cup {m}
  BY DEF CompleteBridging
<1>2. \A n \in Requests : /\ Deposited(n)' <=> Deposited(n)
                          /\ Bridged(n)' <=> Bridged(n)
                          /\ Refunds(n)' = Refunds(n)
  BY <1>1 DEF Deposited, Bridged, Refunds, RequestOf
<1>3. /\ {n \in Requests : Deposited(n)}' = {n \in Requests : Deposited(n)}
      /\ {n \in Requests : Bridged(n)}' = {n \in Requests : Bridged(n)}
      /\ [n \in Requests |-> Cardinality(Refunds(n))]' = [n \in Requests |-> Cardinality(Refunds(n))]
  BY <1>2
<1>4. Bridged(m) /\ m \notin succeeded /\ Refunds(m) = {}
  BY DEF CompleteBridging, IInv, StatusInv, RefundInv, ReturnStates, RefundSent, Refunds,
     Bridged, Performed
<1>5. [n \in Requests |-> Cardinality(Refunds(n))][m] = 0
  BY <1>4, RefundCountType DEF RefundCount
<1> QED
  BY <1>1, <1>3, <1>4, <1>5 DEF Ledger!Confirm

\* Giving up on the built-in actor's reply is StopWaiting.
LEMMA TimeoutMaps ==
    ASSUME IInv, NEW m \in Requests, RefundAfterTimeout(m) \/ CriticalHook(m)
    PROVE  Ledger!StopWaiting(m) \/ UNCHANGED Ledger!ledger
<1>1. /\ UNCHANGED <<succeeded, overlapped, target, depositCall, bridgeCall>>
      /\ timedOut' = timedOut \cup {m}
  BY DEF RefundAfterTimeout, CriticalHook
<1>2. \A t \in Tasks : Performed(returnCall[t])' <=> Performed(returnCall[t])
  BY DEF RefundAfterTimeout, CriticalHook, ReturnTokens, Performed, IInv, TypeOK, TaskInv
<1>3. \A n \in Requests : /\ Deposited(n)' <=> Deposited(n)
                          /\ Bridged(n)' <=> Bridged(n)
                          /\ Refunds(n)' = Refunds(n)
  BY <1>1, <1>2 DEF Deposited, Bridged, Refunds, RequestOf
<1>4. /\ {n \in Requests : Deposited(n)}' = {n \in Requests : Deposited(n)}
      /\ {n \in Requests : Bridged(n)}' = {n \in Requests : Bridged(n)}
      /\ [n \in Requests |-> Cardinality(Refunds(n))]' = [n \in Requests |-> Cardinality(Refunds(n))]
  BY <1>3
<1>5. Deposited(m) /\ m \notin succeeded
  BY DEF RefundAfterTimeout, CriticalHook, IInv, TypeOK, StatusInv, MessageStatus, ReturnStates,
     Deposited, Performed
<1>6. CASE m \notin timedOut
  BY <1>1, <1>4, <1>5, <1>6 DEF Ledger!StopWaiting
<1>7. CASE m \in timedOut
  BY <1>1, <1>3, <1>7, LedgerKept
<1> QED
  BY <1>6, <1>7

\* Recovering a request that is still being served is Contest.
LEMMA HandleInterruptedTransferMaps ==
    ASSUME IInv, NEW r \in Recoveries, NEW m \in Requests, HandleInterruptedTransfer(r, m)
    PROVE  Ledger!Contest(m) \/ UNCHANGED Ledger!ledger
<1>1. /\ UNCHANGED <<succeeded, timedOut, depositCall, bridgeCall>>
      /\ overlapped' = overlapped \/ overlapped' = overlapped \cup {m}
  BY DEF HandleInterruptedTransfer
<1>2. /\ \A t \in Tasks : Performed(returnCall[t])' <=> Performed(returnCall[t])
      /\ ~Performed(returnCall[r])
      /\ \A t \in Tasks : t # r => RequestOf(t)' = RequestOf(t)
  BY IdsAssumption DEF HandleInterruptedTransfer, Performed, IInv, TypeOK, TaskInv, RequestOf, Tasks
<1>3. \A n \in Requests : /\ Deposited(n)' <=> Deposited(n)
                          /\ Bridged(n)' <=> Bridged(n)
                          /\ Refunds(n)' = Refunds(n)
  BY <1>1, <1>2 DEF Deposited, Bridged, Refunds
<1>4. /\ {n \in Requests : Deposited(n)}' = {n \in Requests : Deposited(n)}
      /\ {n \in Requests : Bridged(n)}' = {n \in Requests : Bridged(n)}
      /\ [n \in Requests |-> Cardinality(Refunds(n))]' = [n \in Requests |-> Cardinality(Refunds(n))]
  BY <1>3
<1>5. Deposited(m) /\ m \notin succeeded
  BY DEF HandleInterruptedTransfer, Recoverable, IInv, StatusInv, ReturnStates, Deposited, Performed
<1>6. CASE m \notin overlapped /\ overlapped' = overlapped \cup {m}
  BY <1>1, <1>4, <1>5, <1>6 DEF Ledger!Contest
<1>7. CASE overlapped' = overlapped
  BY <1>1, <1>3, <1>7, LedgerKept
<1> QED
  BY <1>1, <1>6, <1>7

\* Every behaviour of request_bridging, its hooks and its recovery entry point is
\* a behaviour of the ledger that Bridge promises, whatever the callees answer.
THEOREM RefinesBridge == Spec => ImplementsBridge
<1>1. Init => Ledger!Init
  <2> SUFFICES ASSUME Init PROVE Ledger!Init
    OBVIOUS
  <2>1. \A m \in Requests : ~Deposited(m) /\ ~Bridged(m) /\ Refunds(m) = {}
    BY DEF Init, Deposited, Bridged, Refunds, Performed
  <2>2. {m \in Requests : Deposited(m)} = {} /\ {m \in Requests : Bridged(m)} = {}
    BY <2>1
  <2>3. [m \in Requests |-> Cardinality(Refunds(m))] = [m \in Requests |-> 0]
    BY <2>1, FS_EmptySet
  <2> QED
    BY <2>2, <2>3 DEF Init, Ledger!Init
<1>2. IInv /\ FiniteRefunds /\ [Next]_vars => [Ledger!Next]_(Ledger!ledger)
  <2> SUFFICES ASSUME IInv, FiniteRefunds, [Next]_vars
               PROVE  Ledger!Next \/ UNCHANGED Ledger!ledger
    OBVIOUS
  <2>1. ASSUME NEW m \in Requests, RequestBridging(m) \/ RequestProgress(m)
        PROVE  Ledger!Next \/ UNCHANGED Ledger!ledger
    BY <2>1, RequestStutters, OtherStutters, CompleteBridgingMaps, TimeoutMaps
       DEF RequestProgress, Tasks, Ledger!Next
  <2>2. ASSUME NEW m \in Requests, CalleeProgress(m)
        PROVE  Ledger!Next \/ UNCHANGED Ledger!ledger
    BY <2>2, RequestStutters, VftDepositMaps, BuiltinQueueMaps DEF CalleeProgress, Ledger!Next
  <2>3. ASSUME NEW t \in Tasks, ReturnProgress(t)
        PROVE  Ledger!Next \/ UNCHANGED Ledger!ledger
    BY <2>3, OtherStutters, VftReturnMaps DEF ReturnProgress, Ledger!Next
  <2>4. ASSUME NEW r \in Recoveries, NEW m \in Requests,
               HandleInterruptedTransfer(r, m) \/ HandleInterruptedTransferFails(r, m)
        PROVE  Ledger!Next \/ UNCHANGED Ledger!ledger
    BY <2>4, OtherStutters, HandleInterruptedTransferMaps DEF Ledger!Next
  <2>5. CASE (\E r \in Recoveries : Finish(r)) \/ Pause \/ Unpause \/ UNCHANGED vars
    BY <2>5, OtherStutters DEF Tasks
  <2> QED
    BY <2>1, <2>2, <2>3, <2>4, <2>5 DEF Next
<1> QED
  BY Invariance, RefundsFinite, <1>1, <1>2, PTL DEF Spec, ImplementsBridge, Ledger!Spec
================================================================================
