------------------------- MODULE ConfirmEvent_proofs -------------------------
(***************************************************************************)
(* What confirm_event hands on is final: type correctness and              *)
(* HandledIsFinal, for every depth of confirmation that reorgs respect.    *)
(***************************************************************************)
EXTENDS ConfirmEvent, TLAPS

\* The last head seen is not ahead of the chain, and whatever was handed on had the
\* confirmations asked for.
DepthInv ==
  /\ lastSeen <= head
  /\ \A h \in handled : h.log + Confirmations <= head

\* A stream that checks or polls has taken the log it looks at and has a retry left.
TakenInv == pc # "idle" => taken \in 1..Len(stream) /\ retries < MaxRetries

IInv == TypeOK /\ TakenInv /\ DepthInv /\ HandledIsFinal

LEMMA InitIInv == Init => IInv
  BY ConfirmAssumption
  DEF Init, IInv, TypeOK, TakenInv, DepthInv, HandledIsFinal, Log

\* What the stream emits is well typed and leaves the logs before it in place.
LEMMA EmitsTyped ==
  ASSUME TypeOK, NEW t \in Txs, NEW b \in 1..MaxHead, NEW removed \in BOOLEAN,
         Emits(t, b, removed)
  PROVE  stream' \in Seq(Log) /\ Len(stream') = Len(stream) + 1
  BY DEF Emits, TypeOK, Log

LEMMA MineStep == IInv /\ Mine => IInv'
<1> SUFFICES ASSUME IInv, Mine PROVE IInv'
  OBVIOUS
<1> USE ConfirmAssumption DEF IInv, TypeOK, TakenInv, DepthInv, HandledIsFinal
<1>1. CASE UNCHANGED <<block, stream>>
  BY <1>1 DEF Mine
<1>2. ASSUME NEW t \in Txs, block[t] = 0, block' = [block EXCEPT ![t] = head'],
             Emits(t, head', FALSE)
      PROVE  IInv'
  <2>1. head' \in 1..MaxHead /\ head' = head + 1
    BY DEF Mine
  <2>2. stream' \in Seq(Log) /\ Len(stream') = Len(stream) + 1
    BY <1>2, <2>1, EmitsTyped
  <2>3. \A h \in handled : h.tx # t \/ h.log # h.block
    BY <1>2
  <2>4. HandledIsFinal'
    BY <1>2, <2>3 DEF Mine
  <2> QED
    BY <1>2, <2>1, <2>2, <2>4 DEF Mine
<1> QED
  BY <1>1, <1>2 DEF Mine

\* A reorg does not reach a block with all its confirmations.
LEMMA ReorgStep == IInv /\ (\E t \in Txs : Reorg(t)) => IInv'
<1> SUFFICES ASSUME IInv, NEW t \in Txs, Reorg(t) PROVE IInv'
  OBVIOUS
<1> USE ConfirmAssumption DEF IInv, TypeOK, TakenInv, DepthInv, HandledIsFinal
<1>1. block[t] \in 1..MaxHead /\ block[t] > head - MaxReorg
  BY DEF Reorg
<1>2. stream' \in Seq(Log) /\ Len(stream') = Len(stream) + 1
  BY <1>1, EmitsTyped DEF Reorg
<1>3. \A h \in handled : h.log = h.block => h.tx # t
  <2> SUFFICES ASSUME NEW h \in handled, h.log = h.block, h.tx = t PROVE FALSE
    OBVIOUS
  <2>1. block[t] = h.log
    OBVIOUS
  <2>2. h.log + Confirmations <= head
    OBVIOUS
  <2> QED
    BY <1>1, <2>1, <2>2
<1>4. HandledIsFinal'
  BY <1>3 DEF Reorg
<1> QED
  BY <1>2, <1>4 DEF Reorg

LEMMA StreamStepInv == IInv /\ StreamStep => IInv'
<1> SUFFICES ASSUME IInv, StreamStep PROVE IInv'
  OBVIOUS
<1> USE ConfirmAssumption DEF IInv, TypeOK, TakenInv, DepthInv, HandledIsFinal, chainVars
<1>1. CASE Take
  BY <1>1 DEF Take
<1>2. CASE TooShallow
  BY <1>2 DEF TooShallow
<1>3. CASE Poll
  BY <1>3 DEF Poll, Observed
<1>4. CASE Receipt
  <2> DEFINE t == Current.tx
  <2>1. Current \in Log
    BY <1>4 DEF Receipt, Current
  <2>2. t \in Txs /\ Current.block \in 1..MaxHead
    BY <2>1 DEF Log
  <2>3. Current.block + Confirmations <= head
    BY <1>4, <2>2 DEF Receipt, DeepEnough
  <2>4. CASE HasReceipt(t) /\ ~Current.removed
    <3> DEFINE h == [tx |-> t, log |-> Current.block, block |-> block[t]]
    <3>1. handled' = handled \union {h}
      BY <1>4, <2>4 DEF Receipt
    <3>2. block[t] \in 1..MaxHead
      BY <2>2, <2>4 DEF HasReceipt
    <3>3. /\ h \in [tx : Txs, log : 1..MaxHead, block : 1..MaxHead]
          /\ h.log + Confirmations <= head /\ block[h.tx] = h.block
      BY <2>2, <2>3, <3>2
    <3>4. UNCHANGED <<head, block, stream, taken, lastSeen, retries>> /\ pc' = "idle"
      BY <1>4 DEF Receipt
    <3> HIDE DEF h, t
    <3> QED
      BY <3>1, <3>3, <3>4
  <2>5. CASE ~(HasReceipt(t) /\ ~Current.removed)
    BY <1>4, <2>5 DEF Receipt
  <2> QED
    BY <2>4, <2>5
<1>5. CASE ReceiptFails
  BY <1>5 DEF ReceiptFails
<1> QED
  BY <1>1, <1>2, <1>3, <1>4, <1>5 DEF StreamStep

LEMMA IInvHolds == Spec => []IInv
<1>1. IInv /\ [Next]_vars => IInv'
  <2>1. IInv /\ UNCHANGED vars => IInv'
    BY DEF vars, chainVars, IInv, TypeOK, TakenInv, DepthInv, HandledIsFinal
  <2> QED
    BY <2>1, MineStep, ReorgStep, StreamStepInv DEF Next
<1> QED
  BY InitIInv, <1>1, PTL DEF Spec

\* Every variable keeps its type: what is handed on has a block, because a receipt is
\* asked for first (confirm_event).
THEOREM TypeCorrect == Spec => []TypeOK
BY IInvHolds, PTL DEF IInv

\* An event that confirm_event hands on while its transaction is in the block of its
\* log is out of the reach of reorgs, however stale last_seen_block was.
THEOREM HandledStaysFinal == Spec => []HandledIsFinal
BY IInvHolds, PTL DEF IInv
=============================================================================
