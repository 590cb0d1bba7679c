----------------------------- MODULE SubmitReceipt -----------------------------
(****************************************************************************)
(* The Ethereum -> Gear half of the vft-manager program: submit_receipt and  *)
(* the set of processed Ethereum transactions that guards it.                *)
(*                                                                           *)
(* A receipt is identified by its key (slot, transaction_index); keys are    *)
(* ordered lexicographically, and only that order matters, so a key is a     *)
(* natural number here.  A submission checks the set, asks the VFT program   *)
(* to mint or unlock, and suspends; the key is recorded by the reply hook,   *)
(* which runs in a later execution.  What the suspended execution does after *)
(* the await changes no state, whether it saw the reply or a timeout, so     *)
(* only the call it made is represented.                                     *)
(*                                                                           *)
(* Receipts that are refused without looking at the set (another sender than *)
(* the historical proxy, a failed transaction, no log of the ERC20Manager    *)
(* for a mapped token) are not represented.                                  *)
(****************************************************************************)
EXTENDS Naturals, FiniteSets, FiniteSetsExt

CONSTANTS Keys,               \* keys of the receipts that can be submitted
          Submissions,        \* message ids of submit_receipt calls
          TX_HISTORY_DEPTH,   \* how many processed transactions are remembered
          NoKey

ASSUME KeysAssumption == Keys \subseteq Nat /\ NoKey \notin Keys
ASSUME DepthAssumption == TX_HISTORY_DEPTH \in Nat \ {0}

VARIABLES transactions,   \* TRANSACTIONS: processed transactions still remembered
          key,            \* the key of each submission
          call,           \* its call to the VFT program
          is_paused,      \* State::is_paused
          raced           \* history: a submission was accepted during another

receiptVars == <<transactions, key, call, is_paused, raced>>

\* "sent": on its way; "yes": the VFT paid out and the reply is on its way;
\* "fail": an error reply, or TransferFrom's false, is on its way;
\* "recorded", "lost": the reply hook has run, or has panicked.
CallState == {"none", "sent", "yes", "fail", "recorded", "lost"}

InFlight(s) == call[s] \in {"sent", "yes", "fail"}

ReceiptInit ==
    /\ transactions = {}
    /\ key = [s \in Submissions |-> NoKey]
    /\ call = [s \in Submissions |-> "none"]
    /\ is_paused = FALSE
    /\ raced = FALSE

--------------------------------------------------------------------------------
\* Mutants of TooOld: no check, and a bound that is never reached.
TooOldUnchecked(k) == FALSE

TooOldOffByOne(k) ==
    /\ Cardinality(transactions) > TX_HISTORY_DEPTH
    /\ transactions # {}
    /\ k < Min(transactions)

\* Error::TransactionTooOld.
TooOld(k) ==
    /\ Cardinality(transactions) >= TX_HISTORY_DEPTH
    /\ transactions # {}
    /\ k < Min(transactions)

\* submit_receipt answers AlreadyProcessed or TransactionTooOld.
Rejected(k) == k \in transactions \/ TooOld(k)

\* submit_receipt up to the await in mint or unlock.
submit_receipt(s, k) ==
    /\ call[s] = "none"
    /\ ~is_paused
    /\ ~Rejected(k)
    /\ key' = [key EXCEPT ![s] = k]
    /\ call' = [call EXCEPT ![s] = "sent"]
    /\ raced' = (raced \/ \E u \in Submissions : InFlight(u))
    /\ UNCHANGED <<transactions, is_paused>>

\* The VFT program pays out, or refuses and is reverted (external).
VftPayout(s) ==
    /\ call[s] = "sent"
    /\ \E c \in {"yes", "fail"} : call' = [call EXCEPT ![s] = c]
    /\ UNCHANGED <<transactions, key, is_paused, raced>>

\* The set with k recorded, the first transaction making room for it.
Record(k) ==
    (IF TX_HISTORY_DEPTH <= Cardinality(transactions)
       THEN transactions \ {Min(transactions)}
       ELSE transactions) \cup {k}

\* The reply hook of a successful call.
HandleReply(s) ==
    /\ call[s] = "yes"
    /\ transactions' = Record(key[s])
    /\ call' = [call EXCEPT ![s] = "recorded"]
    /\ UNCHANGED <<key, is_paused, raced>>

\* The reply does not decode or carries false: the hook panics.
HandleReplyPanics(s) ==
    /\ call[s] = "fail"
    /\ call' = [call EXCEPT ![s] = "lost"]
    /\ UNCHANGED <<transactions, key, is_paused, raced>>

pause ==
    /\ ~is_paused
    /\ is_paused' = TRUE
    /\ UNCHANGED <<transactions, key, call, raced>>

unpause ==
    /\ is_paused
    /\ is_paused' = FALSE
    /\ UNCHANGED <<transactions, key, call, raced>>

ReceiptNext ==
    \/ \E s \in Submissions, k \in Keys : submit_receipt(s, k)
    \/ \E s \in Submissions : VftPayout(s) \/ HandleReply(s) \/ HandleReplyPanics(s)
    \/ pause
    \/ unpause

ReceiptSpec == ReceiptInit /\ [][ReceiptNext]_receiptVars

--------------------------------------------------------------------------------
(* Properties. *)

\* Every variable has the type of the program's state.
TypeOK ==
    /\ transactions \subseteq Keys
    /\ IsFiniteSet(transactions)
    /\ key \in [Submissions -> Keys \cup {NoKey}]
    /\ call \in [Submissions -> CallState]
    /\ is_paused \in BOOLEAN
    /\ raced \in BOOLEAN

\* The submissions that paid out for a transaction.
Payouts(k) == {s \in Submissions : key[s] = k /\ call[s] \in {"yes", "recorded"}}

\* A transaction is paid out at most once: "they're stored to prevent
\* double-spending attacks on this program".
PaidOnce ==
    \A k \in Keys : \A s, u \in Payouts(k) : s = u

\* The same as long as no submission was accepted while the call of another was
\* outstanding, however many transactions were evicted from the set.
PaidOnceUnlessRaced == ~raced => PaidOnce

\* The set never outgrows TX_HISTORY_DEPTH, even when replies race.
HistoryBounded == Cardinality(transactions) <= TX_HISTORY_DEPTH

\* Only transactions that were paid out are remembered, and a transaction that
\* failed to pay out can be submitted again.
OnlyPaidAreRemembered ==
    \A k \in transactions : Payouts(k) # {}

\* A transaction that is refused once stays refused: evicting the first
\* transaction does not reopen it, unless submissions raced.
RefusedStaysRefused ==
    [][~raced' => \A k \in Keys : Rejected(k) => Rejected(k)']_receiptVars
================================================================================
