----------------------------- MODULE BlockSearch -----------------------------
(***************************************************************************)
(* get_block_number_by_timestamp (chain_util.rs): the last block with a    *)
(* timestamp before the target, searched from the head of the chain with   *)
(* an estimate of the block rate, while the chain grows.                   *)
(*                                                                         *)
(* The code's rate is an f64.  Here it is a fraction; for the numbers of   *)
(* the runs the truncated products of both are equal.                      *)
(***************************************************************************)
EXTENDS Integers, Sequences, FiniteSets

CONSTANTS
  MaxBlock,     \* bound: the length of the chain
  Gaps,         \* seconds between a block and the next one
  InitialRate,  \* block_rate_per_second before it is measured
  MaxRetries,   \* MAX_RETRY_ON_PROVIDER_ERROR
  RpcFaults     \* may RPC calls fail?

ASSUME BlockSearchAssumption ==
  /\ MaxBlock \in Nat \ {0} /\ Gaps \subseteq Nat /\ IsFiniteSet(Gaps)
  /\ InitialRate \in Nat \ {0} /\ MaxRetries \in Nat /\ RpcFaults \in BOOLEAN

None == 0
Blocks == 1..MaxBlock

VARIABLES
  stamp,     \* the chain: the timestamp of each block
  target,    \* target_timestamp
  bn,        \* block_number
  rate,      \* block_rate_per_second
  first,     \* first_block_number and first_block_timestamp
  earliest,  \* earliest_block_number_after_target_ts; None for u64::MAX
  retries,   \* retry_on_error
  pc         \* fetching bn, fetching the next block, or done

searchVars == <<target, bn, rate, first, earliest, retries, pc>>
vars == <<stamp, searchVars>>

NoBlock == [block |-> None, time |-> None]

Init ==
  /\ stamp = <<1>>
  /\ target = 0
  /\ bn = None
  /\ rate = [blocks |-> InitialRate, time |-> 1]
  /\ first = NoBlock
  /\ earliest = None
  /\ retries = 0
  /\ pc = "idle"

Mine ==
  /\ Len(stamp) < MaxBlock
  /\ \E g \in Gaps : stamp' = Append(stamp, stamp[Len(stamp)] + g)
  /\ UNCHANGED searchVars

\* A cycle may end a little after the head of the chain.
Targets == 1..(stamp[Len(stamp)] + 2)

\* The search begins at the head; five failures to fetch its number end it.
Start ==
  /\ pc = "idle"
  /\ target' \in Targets
  /\ \/ pc' = "fetch" /\ bn' = Len(stamp)
     \/ RpcFaults /\ pc' = "none" /\ UNCHANGED bn
  /\ UNCHANGED <<stamp, rate, first, earliest, retries>>

Times(seconds, r) == (seconds * r.blocks) \div r.time
-----------------------------------------------------------------------------
(* The loop.  A failed or empty fetch of bn is tried again.                *)

\* Slip: a block at the target counts as before it.
AtOrBefore(b) == stamp[b] <= target

IsBefore(b) == stamp[b] < target

BeforeTarget ==
  /\ pc = "fetch" /\ bn <= Len(stamp) /\ IsBefore(bn)
  /\ pc' = "next" /\ retries' = 0
  /\ UNCHANGED <<stamp, target, bn, rate, first, earliest>>

Found ==
  /\ pc = "next" /\ bn + 1 <= Len(stamp) /\ ~IsBefore(bn + 1)
  /\ pc' = "found"
  /\ UNCHANGED <<stamp, target, bn, rate, first, earliest, retries>>

\* The estimate is made from the next block and added to this one.
JumpForward ==
  LET to == bn + Times(target - stamp[bn + 1], rate)
      isPast == earliest # None /\ to >= earliest
  IN /\ pc = "next" /\ bn + 1 <= Len(stamp) /\ IsBefore(bn + 1)
     /\ bn' = IF isPast THEN earliest - 1 ELSE to
     /\ earliest' = IF isPast THEN earliest - 1 ELSE earliest
     /\ pc' = "fetch"
     /\ UNCHANGED <<stamp, target, rate, first, retries>>

NextFails ==
  /\ RpcFaults /\ pc = "next"
  /\ retries' = retries + 1
  /\ pc' = IF retries' <= MaxRetries THEN "next" ELSE "none"
  /\ UNCHANGED <<stamp, target, bn, rate, first, earliest>>

FirstSeen == IF first = NoBlock THEN [block |-> bn, time |-> stamp[bn]] ELSE first
\* Slip: seconds per block.
MeasuredInverted(from) == [blocks |-> from.time - stamp[bn], time |-> from.block - bn]

Measured(from) == [blocks |-> from.block - bn, time |-> from.time - stamp[bn]]
IsMeasurable(from) == from.time > stamp[bn] + 1

\* Slip: the bound is taken after the step back.
EarliestAfterStep(step) == IF earliest = None \/ bn - step < earliest THEN bn - step ELSE earliest

EarliestSeen(step) == IF earliest = None \/ bn < earliest THEN bn ELSE earliest

\* Slips: a step past the first block; a step of nothing.
StepUnbounded(r) == LET back == Times(stamp[bn] - target, r) IN IF back = 0 THEN 1 ELSE back
StepOfNothing(r) == LET back == Times(stamp[bn] - target, r) IN IF bn >= back THEN back ELSE bn

\* How far back the next candidate is; a step to block 0 ends the search.
StepBack(r) ==
  LET back == Times(stamp[bn] - target, r)
  IN IF back = 0 THEN 1 ELSE IF bn >= back THEN back ELSE bn

JumpBack ==
  LET from == FirstSeen
      step == IF IsMeasurable(from) THEN StepBack(Measured(from)) ELSE 1
  IN /\ pc = "fetch" /\ bn <= Len(stamp) /\ ~IsBefore(bn)
     /\ earliest' = EarliestSeen(step)
     /\ first' = from
     /\ rate' = IF IsMeasurable(from) THEN Measured(from) ELSE rate
     /\ bn' = bn - step
     /\ pc' = IF bn' = 0 THEN "none" ELSE "fetch"
     /\ UNCHANGED <<stamp, target, retries>>

SearchStep == Start \/ BeforeTarget \/ Found \/ JumpForward \/ NextFails \/ JumpBack

Next == Mine \/ SearchStep

Spec == Init /\ [][Next]_vars
FairSpec == Spec /\ WF_vars(Mine) /\ WF_vars(Start \/ BeforeTarget \/ Found \/ JumpForward \/ JumpBack)
-----------------------------------------------------------------------------
(* Properties.                                                             *)

TypeOK ==
  /\ stamp \in Seq(Nat) /\ Len(stamp) \in Blocks /\ target \in Nat
  /\ bn \in Nat /\ earliest \in Nat /\ retries \in 0..(MaxRetries + 1)
  /\ rate \in [blocks : Nat, time : Nat \ {0}]
  /\ first \in [block : Nat, time : Nat]
  /\ pc \in {"idle", "fetch", "next", "found", "none"}

\* The blocks before the target: their number is the last one's.
LastBefore == Cardinality({b \in DOMAIN stamp : stamp[b] < target})

\* The block returned is the last one before the target, however the chain has grown
\* during the search.
FoundIsLast == pc = "found" => bn = LastBefore

\* The search never excludes the answer: the bound that clamps the jumps forward is
\* above it, or is the candidate itself.
AnswerNotExcluded ==
  earliest # None /\ pc # "none" =>
    LastBefore < earliest \/ (LastBefore = earliest /\ bn = earliest)

\* Blocks have never come faster than before.
NeverFaster == \A b \in DOMAIN stamp : b > 2 => stamp[b] - stamp[b - 1] >= stamp[b - 1] - stamp[b - 2]

\* A search that steps past the first block has not overlooked a block before the
\* target, as long as blocks do not come faster than before: only then is an estimate
\* from the blocks behind the candidate too coarse, and the service copies an older
\* state although the chain has the block it looks for.
GaveUp == pc = "none" /\ bn = 0 /\ first # NoBlock
GivesUpRightly == GaveUp /\ NeverFaster => LastBefore = 0

\* No two blocks are further apart than a second.
BlockEachSecond == \A b \in DOMAIN stamp : b > 1 => stamp[b] <= stamp[b - 1] + 1

\* With at least a block a second the search ends, or waits for a block that the bound
\* keeps from being mined: its steps forward and back, each an estimate from the last
\* two measurements, come to rest.  With fewer blocks a step forward can be truncated
\* to nothing, and is repeated for ever.
Ended == pc \in {"found", "none"} \/ (Len(stamp) = MaxBlock /\ bn >= MaxBlock)
SearchEnds == []BlockEachSecond => <>Ended
=============================================================================
