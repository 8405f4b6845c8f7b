---------------------------- MODULE ConfirmEvent ----------------------------
(***************************************************************************)
(* confirm_event (chain_util.rs) on the event stream of a request chain    *)
(* that reorganises itself: a log is held until its block is deep enough   *)
(* by the last head seen, then its transaction's receipt is asked for.     *)
(* The stream waits for one log at a time.                                 *)
(***************************************************************************)
EXTENDS Integers, Sequences

CONSTANTS
  Txs,            \* transactions with an event
  Confirmations,  \* confirmation_blocks
  MaxReorg,       \* how many blocks a reorg may replace
  MaxRetries,     \* MAX_TX_RECEIPT_RETRIES
  RpcFaults,      \* may RPC calls fail?
  MaxHead,        \* bound: the head of the chain
  MaxLogs         \* bound: the logs of the stream

ASSUME ConfirmAssumption ==
  /\ Confirmations \in Nat /\ MaxReorg \in Nat /\ MaxReorg <= Confirmations
  /\ RpcFaults \in BOOLEAN
  /\ MaxRetries \in Nat \ {0} /\ MaxHead \in Nat \ {0} /\ MaxLogs \in Nat

VARIABLES
  head,      \* the number of the chain's last block
  block,     \* the block of each transaction, 0 for none
  stream,    \* the logs of the subscription, and how many were taken
  taken,
  lastSeen,  \* last_seen_block
  retries,   \* of the log being confirmed
  pc,        \* of the stream: idle, checking or polling the head
  handled    \* transactions handed on, with the log's block and their own then

chainVars == <<head, block, stream>>
vars == <<chainVars, taken, lastSeen, retries, pc, handled>>

Log == [tx : Txs, block : 1..MaxHead, removed : BOOLEAN]

Init ==
  /\ head = 1 /\ block = [t \in Txs |-> 0]
  /\ stream = <<>> /\ taken = 0
  /\ lastSeen = 0 /\ retries = 0 /\ pc = "idle"
  /\ handled = {}
-----------------------------------------------------------------------------
(* The chain, and what eth_subscribe tells of it.                          *)

Emits(t, b, removed) == stream' = Append(stream, [tx |-> t, block |-> b, removed |-> removed])

Mine ==
  /\ head < MaxHead
  /\ head' = head + 1
  /\ \/ UNCHANGED <<block, stream>>
     \/ \E t \in Txs :
          /\ block[t] = 0 /\ Len(stream) < MaxLogs
          /\ block' = [block EXCEPT ![t] = head']
          /\ Emits(t, head', FALSE)
  /\ UNCHANGED <<taken, lastSeen, retries, pc, handled>>

Reorg(t) ==
  /\ block[t] # 0 /\ block[t] > head - MaxReorg /\ Len(stream) < MaxLogs
  /\ block' = [block EXCEPT ![t] = 0]
  /\ Emits(t, block[t], TRUE)
  /\ UNCHANGED <<head, taken, lastSeen, retries, pc, handled>>
-----------------------------------------------------------------------------
(* confirm_event.                                                          *)

Current == stream[taken]

Take ==
  /\ pc = "idle" /\ taken < Len(stream)
  /\ taken' = taken + 1
  /\ retries' = 0
  /\ pc' = "check"
  /\ UNCHANGED <<chainVars, lastSeen, handled>>

\* Slip: the confirmations are forgotten.
SeenAtAll == lastSeen >= Current.block

DeepEnough == lastSeen >= Current.block + Confirmations

TooShallow ==
  /\ pc = "check" /\ ~DeepEnough
  /\ pc' = "poll"
  /\ UNCHANGED <<chainVars, taken, lastSeen, retries, handled>>

\* Slip: the head is fetched and not stored.
Forgotten == lastSeen

Observed == head

Poll ==
  /\ pc = "poll"
  /\ lastSeen' = Observed
  /\ pc' = "check"
  /\ UNCHANGED <<chainVars, taken, retries, handled>>

HasReceipt(t) == block[t] # 0

\* The receipt is the transaction's, whatever block it is in; a log that announces a
\* removal keeps its flag and is not handed on.
Receipt ==
  LET t == Current.tx IN
  /\ pc = "check" /\ DeepEnough
  /\ handled' = IF HasReceipt(t) /\ ~Current.removed
                THEN handled \union {[tx |-> t, log |-> Current.block, block |-> block[t]]}
                ELSE handled
  /\ pc' = "idle"
  /\ UNCHANGED <<chainVars, taken, lastSeen, retries>>

ReceiptFails ==
  /\ RpcFaults /\ pc = "check" /\ DeepEnough
  /\ retries' = retries + 1
  /\ pc' = IF retries' >= MaxRetries THEN "idle" ELSE "check"
  /\ UNCHANGED <<chainVars, taken, lastSeen, handled>>

StreamStep == Take \/ TooShallow \/ Poll \/ Receipt \/ ReceiptFails

Next == Mine \/ (\E t \in Txs : Reorg(t)) \/ StreamStep

Spec == Init /\ [][Next]_vars

\* The chain grows and the stream's task goes on; reorgs need not happen.
FairSpec == Spec /\ WF_vars(Mine) /\ WF_vars(StreamStep)
-----------------------------------------------------------------------------
(* Properties.                                                             *)

TypeOK ==
  /\ head \in 1..MaxHead /\ block \in [Txs -> 0..MaxHead]
  /\ stream \in Seq(Log) /\ taken \in 0..Len(stream)
  /\ lastSeen \in 0..MaxHead /\ retries \in 0..MaxRetries
  /\ pc \in {"idle", "check", "poll"}
  /\ handled \subseteq [tx : Txs, log : 1..MaxHead, block : 1..MaxHead]

\* An event handed on while its transaction is in the block of its log is never
\* reverted, though head and receipt are read at different times (confirm_event).  The
\* premise is the caller's luck: a transaction that a reorg moved to a later block
\* passes when its old block is deep enough.
HandledIsFinal == \A h \in handled : h.log = h.block => block[h.tx] = h.block

\* An event out of the reach of reorgs is handed on, whatever waits before it, as long
\* as no receipt is asked for in vain MaxRetries times.
Final(t) == block[t] # 0 /\ block[t] + Confirmations <= head
FinalEventsHandled ==
  [](retries < MaxRetries) => \A t \in Txs : Final(t) ~> \E h \in handled : h.tx = t
=============================================================================
