------------------------- MODULE BlockSearch_proofs -------------------------
(***************************************************************************)
(* The result of get_block_number_by_timestamp: type correctness,          *)
(* AnswerNotExcluded, FoundIsLast and GivesUpRightly, for every chain and  *)
(* every rate.                                                             *)
(***************************************************************************)
EXTENDS BlockSearch, DataInduction, TLAPS

\* Timestamps never decrease.
Ordered == \A a, b \in DOMAIN stamp : a <= b => stamp[a] <= stamp[b]

\* The first block seen is a block of the chain.
FirstInv == first # NoBlock => first.block \in DOMAIN stamp /\ first.time = stamp[first.block]

\* What is known at each point of the loop.
PointInv ==
  /\ pc \in {"fetch", "next"} => bn >= 1
  /\ pc \in {"next", "found"} => bn \in DOMAIN stamp /\ IsBefore(bn)
  /\ pc = "found" => bn + 1 \in DOMAIN stamp /\ ~IsBefore(bn + 1)
  /\ pc = "idle" => earliest = None
  /\ pc \in {"idle", "next"} => retries <= MaxRetries

\* No block above the bound is before the target, nor is the bound itself unless it is
\* the candidate, which the clamp has put there without a look; the candidate is then
\* below a block that has been looked at.
BoundInv ==
  earliest # None /\ pc # "none" =>
    /\ earliest <= Len(stamp) /\ bn <= earliest
    /\ bn = earliest => earliest < Len(stamp)
    /\ bn # earliest => ~IsBefore(earliest)
    /\ \A b \in DOMAIN stamp : b > earliest => ~IsBefore(b)

IInv == TypeOK /\ Ordered /\ FirstInv /\ PointInv /\ BoundInv

\* The number of blocks that a number of seconds stands for is a natural number.
LEMMA TimesType ==
  ASSUME NEW seconds \in Nat, NEW r \in [blocks : Nat, time : Nat \ {0}]
  PROVE  Times(seconds, r) \in Nat
<1> DEFINE product == seconds * r.blocks
<1>1. product \in Nat /\ r.time \in Nat \ {0}
  OBVIOUS
<1>2. \A p \in Nat, q \in Nat \ {0} : p \div q \in Nat
  OBVIOUS
<1> QED
  BY <1>1, <1>2 DEF Times

\* Timestamps are natural numbers.
LEMMA StampType ==
  ASSUME TypeOK, NEW b \in DOMAIN stamp
  PROVE  stamp[b] \in Nat
BY DEF TypeOK

LEMMA InitIInv == Init => IInv
  BY BlockSearchAssumption
  DEF Init, IInv, TypeOK, Ordered, FirstInv, PointInv, BoundInv, NoBlock, None, Blocks

\* The chain grows: what was said of its blocks stays true, and the new one is not
\* before the last.
LEMMA MineStep == IInv /\ Mine => IInv'
<1> SUFFICES ASSUME IInv, Mine PROVE IInv'
  OBVIOUS
<1> USE BlockSearchAssumption DEF IInv, TypeOK
<1>1. PICK g \in Gaps : stamp' = Append(stamp, stamp[Len(stamp)] + g)
  BY DEF Mine
<1>2. /\ Len(stamp) \in Blocks /\ Len(stamp) < MaxBlock /\ g \in Nat
      /\ stamp[Len(stamp)] \in Nat
  BY DEF Mine, Blocks
<1>3. /\ stamp' \in Seq(Nat) /\ Len(stamp') = Len(stamp) + 1
      /\ DOMAIN stamp = 1..Len(stamp) /\ DOMAIN stamp' = 1..(Len(stamp) + 1)
      /\ \A b \in 1..Len(stamp) : stamp'[b] = stamp[b]
      /\ stamp'[Len(stamp) + 1] = stamp[Len(stamp)] + g
  BY <1>1, <1>2
<1>4. UNCHANGED searchVars
  BY DEF Mine
<1>5. TypeOK'
  BY <1>2, <1>3, <1>4 DEF searchVars, Blocks
<1>6. Ordered'
  <2>1. \A b \in 1..Len(stamp) : stamp[b] \in Nat /\ stamp[b] <= stamp[Len(stamp)]
    <3> SUFFICES ASSUME NEW b \in 1..Len(stamp)
                 PROVE  stamp[b] \in Nat /\ stamp[b] <= stamp[Len(stamp)]
      OBVIOUS
    <3>1. Len(stamp) \in 1..Len(stamp) /\ b <= Len(stamp)
      BY <1>2 DEF Blocks
    <3>2. Len(stamp) \in DOMAIN stamp /\ b \in DOMAIN stamp
      BY <1>3, <3>1
    <3>3. stamp[b] <= stamp[Len(stamp)]
      BY <3>1, <3>2 DEF Ordered
    <3> QED
      BY <3>2, <3>3, StampType
  <2> SUFFICES ASSUME NEW a \in 1..(Len(stamp) + 1), NEW b \in 1..(Len(stamp) + 1), a <= b
               PROVE  stamp'[a] <= stamp'[b]
    BY <1>3 DEF Ordered
  <2> HIDE DEF IInv, TypeOK
  <2>len. Len(stamp) \in Nat
    BY <1>2 DEF Blocks
  <2>2. CASE b \in 1..Len(stamp)
    <3>1. a \in 1..Len(stamp)
      BY <2>len, <2>2
    <3>2. stamp'[a] = stamp[a] /\ stamp'[b] = stamp[b]
      BY <1>3, <2>2, <3>1
    <3> QED
      BY <1>3, <2>2, <3>1, <3>2 DEF Ordered, IInv
  <2>3. CASE b = Len(stamp) + 1
    <3>1. CASE a = Len(stamp) + 1
      <4>1. stamp'[Len(stamp) + 1] \in Nat
        BY <1>2, <1>3
      <4> QED
        BY <2>3, <3>1, <4>1
    <3>2. CASE a \in 1..Len(stamp)
      <4>1. stamp'[a] = stamp[a] /\ stamp[a] \in Nat /\ stamp[a] <= stamp[Len(stamp)]
        BY <1>3, <2>1, <3>2
      <4> QED
        BY <1>2, <1>3, <2>3, <4>1
    <3> QED
      BY <2>len, <3>1, <3>2
  <2> QED
    BY <2>len, <2>2, <2>3
<1> HIDE DEF TypeOK
<1>7. FirstInv'
  BY <1>3, <1>4 DEF FirstInv, searchVars
<1>8. PointInv'
  BY <1>3, <1>4 DEF PointInv, searchVars, IsBefore
<1>9. BoundInv'
  <2> SUFFICES ASSUME earliest # None, pc # "none" PROVE BoundInv'
    BY <1>4 DEF BoundInv, searchVars
  <2>1. earliest \in 1..Len(stamp) /\ bn \in Nat
    BY <1>2 DEF BoundInv, None, Blocks, TypeOK
  <2>2. ~IsBefore(Len(stamp))
    BY <1>2, <1>3, <2>1 DEF BoundInv, Blocks
  <2>3. target \in Nat
    BY DEF TypeOK
  <2>4. \A b \in DOMAIN stamp' : b > earliest => ~IsBefore(b)'
    <3> SUFFICES ASSUME NEW b \in DOMAIN stamp', b > earliest PROVE ~IsBefore(b)'
      OBVIOUS
    <3>1. target' = target
      BY <1>4 DEF searchVars
    <3>2. CASE b \in 1..Len(stamp)
      <4>1. ~IsBefore(b)
        BY <1>3, <3>2 DEF BoundInv
      <4> QED
        BY <1>3, <3>1, <3>2, <4>1 DEF IsBefore
    <3>3. CASE b = Len(stamp) + 1
      <4>1. stamp[Len(stamp)] >= target
        BY <1>2, <2>2, <2>3 DEF IsBefore
      <4>2. stamp'[b] >= target
        BY <1>2, <1>3, <2>3, <3>3, <4>1
      <4>3. stamp'[b] \in Nat
        BY <1>2, <1>3, <3>3
      <4> QED
        BY <2>3, <3>1, <4>2, <4>3 DEF IsBefore
    <3> QED
      BY <1>2, <1>3, <3>2, <3>3 DEF Blocks
  <2> QED
    BY <1>2, <1>3, <1>4, <2>1, <2>4 DEF BoundInv, IsBefore, searchVars
<1> QED
  BY <1>5, <1>6, <1>7, <1>8, <1>9

\* The search begins without a bound.
LEMMA StartStep == IInv /\ Start => IInv'
<1> SUFFICES ASSUME IInv, Start PROVE IInv'
  OBVIOUS
<1> USE BlockSearchAssumption DEF IInv
<1>1. target' \in Nat
  BY DEF Start, Targets, TypeOK, Blocks
<1>2. TypeOK' /\ Ordered' /\ FirstInv'
  BY <1>1 DEF Start, TypeOK, Ordered, FirstInv, Blocks
<1>3. PointInv' /\ BoundInv'
  BY DEF Start, PointInv, BoundInv, TypeOK, Blocks, IsBefore
<1> QED
  BY <1>2, <1>3

LEMMA FixedCandidateStep == IInv /\ (BeforeTarget \/ Found \/ NextFails) => IInv'
<1> SUFFICES ASSUME IInv, BeforeTarget \/ Found \/ NextFails PROVE IInv'
  OBVIOUS
<1> USE BlockSearchAssumption DEF IInv
<1>1. UNCHANGED <<stamp, target, bn, rate, first, earliest>>
  BY DEF BeforeTarget, Found, NextFails
<1>2. Ordered' /\ FirstInv'
  BY <1>1 DEF Ordered, FirstInv
<1>3. CASE BeforeTarget
  BY <1>1, <1>2, <1>3 DEF BeforeTarget, TypeOK, PointInv, BoundInv, IsBefore
<1>4. CASE Found
  BY <1>1, <1>2, <1>4 DEF Found, TypeOK, PointInv, BoundInv, IsBefore
<1>5. CASE NextFails
  BY <1>1, <1>2, <1>5 DEF NextFails, TypeOK, PointInv, BoundInv, IsBefore
<1> QED
  BY <1>3, <1>4, <1>5

\* A jump forward starts from two blocks before the target, so it stays below the bound
\* or lowers it by a block that is not the candidate.
LEMMA JumpForwardStep == IInv /\ JumpForward => IInv'
<1> SUFFICES ASSUME IInv, JumpForward PROVE IInv'
  OBVIOUS
<1> USE BlockSearchAssumption DEF IInv
<1> DEFINE to == bn + Times(target - stamp[bn + 1], rate)
           isPast == earliest # None /\ to >= earliest
<1>1. /\ pc = "next" /\ bn + 1 <= Len(stamp) /\ IsBefore(bn + 1)
      /\ bn' = IF isPast THEN earliest - 1 ELSE to
      /\ earliest' = IF isPast THEN earliest - 1 ELSE earliest
      /\ pc' = "fetch"
      /\ UNCHANGED <<stamp, target, rate, first, retries>>
  BY DEF JumpForward
<1>2. /\ bn \in Nat /\ bn >= 1 /\ bn + 1 \in DOMAIN stamp /\ earliest \in Nat
      /\ Len(stamp) \in Nat /\ DOMAIN stamp = 1..Len(stamp)
      /\ target \in Nat /\ stamp[bn + 1] \in Nat /\ stamp[bn + 1] < target
  <2>1. /\ stamp \in Seq(Nat) /\ target \in Nat /\ bn \in Nat /\ earliest \in Nat
    BY DEF TypeOK
  <2>2. Len(stamp) \in Nat /\ DOMAIN stamp = 1..Len(stamp)
    BY <2>1
  <2>3. bn >= 1 /\ bn + 1 \in DOMAIN stamp
    BY <1>1, <2>1, <2>2 DEF PointInv
  <2>4. stamp[bn + 1] \in Nat /\ stamp[bn + 1] < target
    BY <1>1, <2>1, <2>3 DEF IsBefore
  <2> QED
    BY <2>1, <2>2, <2>3, <2>4
<1>3. to \in Nat /\ to >= bn
  <2>1. Times(target - stamp[bn + 1], rate) \in Nat
    <3>1. target - stamp[bn + 1] \in Nat
      BY <1>2
    <3>2. rate \in [blocks : Nat, time : Nat \ {0}]
      BY DEF TypeOK
    <3> QED
      BY <3>1, <3>2, TimesType
  <2> QED
    BY <1>2, <2>1
<1>4. earliest # None => bn + 1 < earliest /\ earliest <= Len(stamp) /\ ~IsBefore(earliest)
  BY <1>1, <1>2 DEF BoundInv
<1>5. Ordered' /\ FirstInv'
  BY <1>1 DEF Ordered, FirstInv
<1>6. bn' \in Nat /\ bn' >= 1 /\ earliest' \in Nat
  BY <1>1, <1>2, <1>3, <1>4 DEF None
<1>7. TypeOK' /\ PointInv'
  BY <1>1, <1>6 DEF TypeOK, PointInv
<1> HIDE DEF to
<1>8. BoundInv'
  <2>1. CASE isPast
    BY <1>1, <1>2, <1>4, <2>1 DEF BoundInv, IsBefore, None
  <2>2. CASE ~isPast
    BY <1>1, <1>2, <1>3, <1>4, <2>2 DEF BoundInv, IsBefore, None
  <2> QED
    BY <2>1, <2>2
<1> QED
  BY <1>5, <1>7, <1>8

\* A jump back starts at a block that is not before the target and lowers the bound to
\* it; the rate measured between it and the first block seen is not negative.
LEMMA JumpBackStep == IInv /\ JumpBack => IInv'
<1> SUFFICES ASSUME IInv, JumpBack PROVE IInv'
  OBVIOUS
<1> USE BlockSearchAssumption DEF IInv
<1> DEFINE from == FirstSeen
           step == IF IsMeasurable(from) THEN StepBack(Measured(from)) ELSE 1
<1>1. /\ pc = "fetch" /\ bn <= Len(stamp) /\ ~IsBefore(bn)
      /\ earliest' = EarliestSeen(step)
      /\ first' = from
      /\ rate' = IF IsMeasurable(from) THEN Measured(from) ELSE rate
      /\ bn' = bn - step
      /\ pc' = IF bn' = 0 THEN "none" ELSE "fetch"
      /\ UNCHANGED <<stamp, target, retries>>
  BY DEF JumpBack
<1>2. /\ bn \in Nat /\ bn >= 1 /\ bn \in DOMAIN stamp /\ earliest \in Nat
      /\ Len(stamp) \in Nat /\ DOMAIN stamp = 1..Len(stamp)
      /\ target \in Nat /\ stamp[bn] \in Nat /\ stamp[bn] >= target
  BY <1>1 DEF TypeOK, PointInv, IsBefore
<1>3. from.block \in DOMAIN stamp /\ from.time = stamp[from.block] /\ from \in [block : Nat, time : Nat]
  BY <1>2 DEF FirstSeen, FirstInv, TypeOK
<1>4. ASSUME IsMeasurable(from)
      PROVE  Measured(from) \in [blocks : Nat, time : Nat \ {0}]
  <2>1. from.time \in Nat /\ from.time > stamp[bn] + 1
    BY <1>3, <1>4 DEF IsMeasurable
  <2>2. from.block \in Nat /\ from.block >= bn
    BY <1>2, <1>3, <2>1 DEF Ordered
  <2> QED
    BY <1>2, <2>1, <2>2 DEF Measured
<1>5. step \in 1..bn
  <2>1. ASSUME IsMeasurable(from) PROVE StepBack(Measured(from)) \in 1..bn
    <3>1. Times(stamp[bn] - target, Measured(from)) \in Nat
      <4>1. stamp[bn] - target \in Nat
        BY <1>2
      <4>2. Measured(from) \in [blocks : Nat, time : Nat \ {0}]
        BY <1>4, <2>1
      <4> HIDE DEF from
      <4> QED
        BY <4>1, <4>2, TimesType
    <3> QED
      BY <1>2, <3>1 DEF StepBack
  <2> QED
    BY <1>2, <2>1
<1>6. earliest' = bn
  BY <1>1, <1>2 DEF EarliestSeen, BoundInv
<1>7. rate' \in [blocks : Nat, time : Nat \ {0}]
  BY <1>1, <1>4 DEF TypeOK
<1> HIDE DEF from, step
<1>8. TypeOK'
  BY <1>1, <1>2, <1>3, <1>5, <1>6, <1>7 DEF TypeOK
<1>9. Ordered' /\ FirstInv'
  BY <1>1, <1>3 DEF Ordered, FirstInv
<1>10. bn' \in Nat /\ bn' < bn
  BY <1>1, <1>2, <1>5
<1>11. PointInv'
  BY <1>1, <1>10 DEF PointInv, IsBefore
<1>12. BoundInv'
  <2>1. \A b \in DOMAIN stamp : b > bn => ~IsBefore(b)
    <3> SUFFICES ASSUME NEW b \in DOMAIN stamp, b > bn PROVE ~IsBefore(b)
      OBVIOUS
    <3>1. stamp[bn] <= stamp[b]
      <4>1. bn \in DOMAIN stamp /\ b \in DOMAIN stamp /\ bn <= b
        BY <1>2
      <4> QED
        BY <4>1 DEF Ordered
    <3>2. stamp[b] \in Nat
      BY StampType
    <3> QED
      BY <1>2, <3>1, <3>2 DEF IsBefore
  <2>2. \A b \in DOMAIN stamp : IsBefore(b)' = IsBefore(b)
    BY <1>1 DEF IsBefore
  <2> QED
    BY <1>1, <1>2, <1>6, <1>10, <2>1, <2>2 DEF BoundInv
<1> QED
  BY <1>8, <1>9, <1>11, <1>12

LEMMA StepIInv == IInv /\ [Next]_vars => IInv'
<1> SUFFICES ASSUME IInv, [Next]_vars PROVE IInv'
  OBVIOUS
<1>1. CASE Mine
  BY <1>1, MineStep
<1>2. CASE Start
  BY <1>2, StartStep
<1>3. CASE BeforeTarget \/ Found \/ NextFails
  BY <1>3, FixedCandidateStep
<1>4. CASE JumpForward
  BY <1>4, JumpForwardStep
<1>5. CASE JumpBack
  BY <1>5, JumpBackStep
<1>6. CASE UNCHANGED vars
  BY <1>6 DEF vars, searchVars, IInv, TypeOK, Ordered, FirstInv, PointInv, BoundInv, IsBefore
<1> QED
  BY <1>1, <1>2, <1>3, <1>4, <1>5, <1>6 DEF Next, SearchStep

LEMMA IInvHolds == Spec => []IInv
  BY InitIInv, StepIInv, PTL DEF Spec

\* TypeOK.
THEOREM TypeCorrect == Spec => []TypeOK
<1>1. IInv => TypeOK
  BY DEF IInv
<1> QED
  BY <1>1, IInvHolds, PTL

\* The blocks before the target are a prefix of the chain: when block n is before it and
\* none after n is, there are n of them.
LEMMA LastBeforeIs ==
  ASSUME IInv, NEW n \in 0..Len(stamp),
         n > 0 => IsBefore(n),
         n < Len(stamp) => ~IsBefore(n + 1)
  PROVE  LastBefore = n
<1> DEFINE before == {b \in DOMAIN stamp : stamp[b] < target}
<1>1. Len(stamp) \in Nat /\ DOMAIN stamp = 1..Len(stamp) /\ target \in Nat /\ n \in Nat
  BY DEF IInv, TypeOK, Blocks
<1>2. \A b \in DOMAIN stamp : stamp[b] \in Nat
  BY StampType DEF IInv
<1>3. ASSUME NEW b \in 1..n PROVE b \in before
  <2>1. n > 0 /\ n \in DOMAIN stamp /\ b \in DOMAIN stamp /\ b <= n
    BY <1>1
  <2>2. stamp[b] <= stamp[n] /\ stamp[n] < target
    BY <2>1 DEF IInv, Ordered, IsBefore
  <2> QED
    BY <1>1, <1>2, <2>1, <2>2
<1>4. ASSUME NEW b \in before PROVE b \in 1..n
  <2>1. CASE b <= n
    BY <1>1, <2>1
  <2>2. CASE b > n
    <3>1. n + 1 \in DOMAIN stamp /\ b \in DOMAIN stamp /\ n + 1 <= b /\ n < Len(stamp)
      BY <1>1, <2>2
    <3>2. stamp[n + 1] <= stamp[b] /\ ~(stamp[n + 1] < target)
      BY <3>1 DEF IInv, Ordered, IsBefore
    <3>3. stamp[b] < target
      OBVIOUS
    <3> QED
      BY <1>1, <1>2, <3>1, <3>2, <3>3
  <2> QED
    BY <1>1, <2>1, <2>2
<1>5. before = 1..n
  BY <1>3, <1>4
<1>6. Cardinality(1..n) = n
  BY <1>1, FS_Interval
<1> QED
  BY <1>5, <1>6 DEF LastBefore

\* FoundIsLast: the candidate is before the target and the block after it is not, and
\* stays so while the chain grows.
THEOREM FoundIsLastBlock == Spec => []FoundIsLast
<1>1. IInv => FoundIsLast
  <2> SUFFICES ASSUME IInv, pc = "found" PROVE bn = LastBefore
    BY DEF FoundIsLast
  <2>1. bn \in DOMAIN stamp /\ IsBefore(bn) /\ bn + 1 \in DOMAIN stamp /\ ~IsBefore(bn + 1)
    BY DEF IInv, PointInv
  <2>2. bn \in 0..Len(stamp)
    BY <2>1 DEF IInv, TypeOK
  <2> QED
    BY <2>1, <2>2, LastBeforeIs
<1> QED
  BY <1>1, IInvHolds, PTL

\* When no block above n is before the target, at most n are.
LEMMA LastBeforeAtMost ==
  ASSUME TypeOK, NEW n \in Nat, \A b \in DOMAIN stamp : b > n => ~IsBefore(b)
  PROVE  LastBefore \in Nat /\ LastBefore <= n
<1> DEFINE before == {b \in DOMAIN stamp : stamp[b] < target}
<1>1. before \subseteq 1..n
  <2> SUFFICES ASSUME NEW b \in before PROVE b \in 1..n
    OBVIOUS
  <2>1. b \in DOMAIN stamp /\ IsBefore(b)
    BY DEF IsBefore
  <2>2. b \in Nat /\ b >= 1
    BY <2>1 DEF TypeOK, Blocks
  <2> QED
    BY <2>1, <2>2
<1>2. IsFiniteSet(1..n) /\ Cardinality(1..n) = n
  BY FS_Interval
<1>3. IsFiniteSet(before) /\ Cardinality(before) <= n
  BY <1>1, <1>2, FS_Subset
<1>4. Cardinality(before) \in Nat
  BY <1>3, FS_CardinalityType
<1> QED
  BY <1>3, <1>4 DEF LastBefore

\* AnswerNotExcluded: the bound is lowered only to a block seen not to be before the
\* target, or to the block below such a one, which is then the candidate.
THEOREM AnswerIsNotExcluded == Spec => []AnswerNotExcluded
<1>1. IInv => AnswerNotExcluded
  <2> SUFFICES ASSUME IInv, earliest # None, pc # "none"
               PROVE  LastBefore < earliest \/ (LastBefore = earliest /\ bn = earliest)
    BY DEF AnswerNotExcluded
  <2>1. /\ \A b \in DOMAIN stamp : b > earliest => ~IsBefore(b)
        /\ bn # earliest => ~IsBefore(earliest)
    BY DEF IInv, BoundInv
  <2>2. earliest \in Nat /\ earliest > 0
    BY DEF IInv, TypeOK, None
  <2>3. CASE bn = earliest
    <3>1. LastBefore \in Nat /\ LastBefore <= earliest
      BY <2>1, <2>2, LastBeforeAtMost DEF IInv
    <3> QED
      BY <2>2, <2>3, <3>1
  <2>4. CASE bn # earliest
    <3>1. \A b \in DOMAIN stamp : b \in Nat
      BY DEF IInv, TypeOK, Blocks
    <3>2. \A b \in DOMAIN stamp : b > earliest - 1 => ~IsBefore(b)
      <4> SUFFICES ASSUME NEW b \in DOMAIN stamp, b > earliest - 1 PROVE ~IsBefore(b)
        OBVIOUS
      <4>1. b > earliest \/ b = earliest
        BY <2>2, <3>1
      <4> QED
        BY <2>1, <2>4, <4>1
    <3>3. earliest - 1 \in Nat
      BY <2>2
    <3>4. LastBefore \in Nat /\ LastBefore <= earliest - 1
      BY <3>2, <3>3, LastBeforeAtMost DEF IInv
    <3> QED
      BY <2>2, <3>4
  <2> QED
    BY <2>3, <2>4
<1> QED
  BY <1>1, IInvHolds, PTL
-----------------------------------------------------------------------------
(* The search that steps past the first block.                              *)

LEMMA OneMore == \A k \in Nat, d \in Int : (k + 1) * d = k * d + d
OBVIOUS

LEMMA MoreEach == \A k \in Nat, c, d \in Int : c <= d => k * c <= k * d
OBVIOUS

\* The seconds between a block and the one before it.
Gap(b) == stamp[b] - stamp[b - 1]

LEMMA ChainTypes ==
  ASSUME IInv
  PROVE  /\ Len(stamp) \in Nat /\ Len(stamp) >= 1 /\ DOMAIN stamp = 1..Len(stamp)
         /\ \A b \in 1..Len(stamp) : stamp[b] \in Nat
         /\ \A a, b \in 1..Len(stamp) : a <= b => stamp[a] <= stamp[b]
<1>1. Len(stamp) \in Nat /\ Len(stamp) >= 1 /\ DOMAIN stamp = 1..Len(stamp)
  BY BlockSearchAssumption DEF IInv, TypeOK, Blocks
<1>2. \A b \in 1..Len(stamp) : stamp[b] \in Nat
  BY <1>1, StampType DEF IInv
<1> QED BY <1>1, <1>2 DEF IInv, Ordered

\* When the gaps never shrink, the blocks up to one are no further apart than its gap.
LEMMA GapsBehind ==
  ASSUME IInv, NeverFaster, NEW b \in 2..Len(stamp)
  PROVE  stamp[b] - stamp[1] <= (b - 1) * Gap(b)
<1> DEFINE Holds(k) == stamp[k + 2] - stamp[1] <= (k + 1) * Gap(k + 2)
           S == {k \in Nat : k + 2 <= Len(stamp) => Holds(k)}
<1>1. 0 \in S
  <2> SUFFICES ASSUME 0 + 2 <= Len(stamp) PROVE Holds(0)
    OBVIOUS
  <2>1. stamp[1] \in Nat /\ stamp[2] \in Nat
    BY ChainTypes
  <2> QED BY <2>1 DEF Gap
<1>2. ASSUME NEW k \in Nat, k \in S PROVE k + 1 \in S
  <2> SUFFICES ASSUME (k + 1) + 2 <= Len(stamp) PROVE Holds(k + 1)
    OBVIOUS
  <2>1. k + 2 \in 1..Len(stamp) /\ k + 3 \in 1..Len(stamp) /\ 1 \in 1..Len(stamp)
    BY ChainTypes
  <2>2. PICK x \in Nat, y \in Nat, z \in Nat : x = stamp[1] /\ y = stamp[k + 2] /\ z = stamp[k + 3]
    BY <2>1, ChainTypes
  <2>3. PICK c \in Int, d \in Int : c = Gap(k + 2) /\ d = Gap(k + 3) /\ d = z - y
    <3>1. k + 1 \in 1..Len(stamp) /\ (k + 2) - 1 = k + 1 /\ (k + 3) - 1 = k + 2
      BY <2>1, ChainTypes
    <3>2. PICK w \in Nat : w = stamp[k + 1]
      BY <3>1, ChainTypes
    <3>3. Gap(k + 2) = y - w /\ Gap(k + 3) = z - y
      BY <2>2, <3>1, <3>2 DEF Gap
    <3>4. y - w \in Int /\ z - y \in Int
      OBVIOUS
    <3> QED BY <3>3, <3>4
  <2>4. c <= d
    <3>1. k + 3 \in DOMAIN stamp /\ k + 3 > 2 /\ (k + 3) - 1 = k + 2 /\ (k + 3) - 2 = k + 1 /\ (k + 2) - 1 = k + 1
      BY <2>1, ChainTypes
    <3>2. stamp[k + 3] - stamp[(k + 3) - 1] >= stamp[(k + 3) - 1] - stamp[(k + 3) - 2]
      BY <3>1 DEF NeverFaster
    <3>3. d >= c
      BY <2>3, <3>1, <3>2 DEF Gap
    <3> QED BY <2>3, <3>3
  <2>5. y - x <= (k + 1) * c
    BY <1>2, <2>1, <2>2, <2>3, ChainTypes
  <2>6. PICK p \in Int, q \in Int : p = (k + 1) * c /\ q = (k + 1) * d
    OBVIOUS
  <2>7. p <= q
    BY <2>4, <2>6, MoreEach
  <2>8. (k + 2) * d = q + d
    <3>1. k + 1 \in Nat /\ k + 2 = (k + 1) + 1
      OBVIOUS
    <3> QED BY <2>6, <3>1, OneMore
  <2>9. z - x <= q + d
    <3>1. y - x <= p
      BY <2>5, <2>6
    <3>2. z = y + d
      BY <2>3
    <3> QED BY <2>7, <3>1, <3>2
  <2>10. (k + 1) + 2 = k + 3 /\ (k + 1) + 1 = k + 2
    OBVIOUS
  <2> QED BY <2>2, <2>3, <2>8, <2>9, <2>10
<1>3. Nat \subseteq S
  <2> HIDE DEF S
  <2> QED BY <1>1, <1>2, Induction
<1>4. b - 2 \in Nat /\ (b - 2) + 2 = b /\ (b - 2) + 1 = b - 1 /\ b <= Len(stamp)
  BY ChainTypes
<1> QED BY <1>3, <1>4

\* ... and the blocks after it are no closer.
LEMMA GapsAhead ==
  ASSUME IInv, NeverFaster, NEW b \in 2..Len(stamp), NEW f \in b..Len(stamp)
  PROVE  stamp[f] - stamp[b] >= (f - b) * Gap(b)
<1> DEFINE Holds(k) == stamp[b + k] - stamp[b] >= k * Gap(b) /\ Gap(b + k) >= Gap(b)
           S == {k \in Nat : b + k <= Len(stamp) => Holds(k)}
<1>0. b \in Nat /\ b >= 2 /\ b - 1 \in 1..Len(stamp) /\ b \in 1..Len(stamp)
  BY ChainTypes
<1>d. PICK d \in Int, x \in Nat : d = Gap(b) /\ x = stamp[b]
  BY <1>0, ChainTypes DEF Gap
<1>1. 0 \in S
  BY <1>0, <1>d
<1>2. ASSUME NEW k \in Nat, k \in S PROVE k + 1 \in S
  <2> SUFFICES ASSUME b + (k + 1) <= Len(stamp) PROVE Holds(k + 1)
    OBVIOUS
  <2>1. /\ b + k \in 1..Len(stamp) /\ b + (k + 1) \in 1..Len(stamp)
        /\ (b + k) - 1 \in 1..Len(stamp) /\ b + k <= Len(stamp)
    BY <1>0, ChainTypes
  <2>2. PICK w \in Nat, y \in Nat, z \in Nat :
          w = stamp[(b + k) - 1] /\ y = stamp[b + k] /\ z = stamp[b + (k + 1)]
    BY <2>1, ChainTypes
  <2>3. Gap(b + k) = y - w /\ Gap(b + (k + 1)) = z - y
    <3>1. (b + (k + 1)) - 1 = b + k
      BY <1>0
    <3> QED BY <2>2, <3>1 DEF Gap
  <2>4. z - y >= y - w
    <3>1. /\ b + (k + 1) \in DOMAIN stamp /\ b + (k + 1) > 2
          /\ (b + (k + 1)) - 1 = b + k /\ (b + (k + 1)) - 2 = (b + k) - 1
      BY <1>0, <2>1, ChainTypes
    <3>2. stamp[b + (k + 1)] - stamp[(b + (k + 1)) - 1]
            >= stamp[(b + (k + 1)) - 1] - stamp[(b + (k + 1)) - 2]
      BY <3>1 DEF NeverFaster
    <3> QED BY <2>2, <3>1, <3>2
  <2>5. y - x >= k * d /\ y - w >= d
    BY <1>2, <1>d, <2>1, <2>2, <2>3
  <2>6. PICK p \in Int : p = k * d
    OBVIOUS
  <2>7. (k + 1) * d = p + d
    BY <2>6, OneMore
  <2>8. z - x >= p + d /\ z - y >= d
    BY <2>4, <2>5, <2>6
  <2> QED BY <1>d, <2>2, <2>3, <2>7, <2>8
<1>3. Nat \subseteq S
  <2> HIDE DEF S
  <2> QED BY <1>1, <1>2, Induction
<1>4. f - b \in Nat /\ b + (f - b) = f /\ f <= Len(stamp)
  BY <1>0, ChainTypes
<1> QED BY <1>3, <1>4

LEMMA Quotient == \A n \in Nat, t \in Nat \ {0} : n \div t \in Nat /\ (n \div t) * t <= n
OBVIOUS

LEMMA Cancels == \A p, q \in Nat, t \in Nat \ {0} : p * t <= q * t => p <= q
OBVIOUS

LEMMA Swap == \A m \in Nat, n \in Nat, d \in Nat : (m * d) * n = m * (n * d)
OBVIOUS

\* So many seconds at the pace of the blocks ahead are no more blocks than there are
\* behind, if those are as close as the gap and the ones ahead as far.
LEMMA EstimateFits ==
  ASSUME NEW x \in Nat, NEW n \in Nat, NEW t \in Nat \ {0}, NEW m \in Nat, NEW d \in Nat,
         x <= m * d, n * d <= t
  PROVE  (x * n) \div t <= m
<1>1. PICK md \in Nat, nd \in Nat, xn \in Nat : md = m * d /\ nd = n * d /\ xn = x * n
  OBVIOUS
<1>2. xn <= md * n
  <2>1. n * x <= n * md
    BY <1>1, MoreEach
  <2>2. n * x = x * n /\ n * md = md * n
    OBVIOUS
  <2> QED BY <1>1, <2>1, <2>2
<1>3. md * n = m * nd
  BY <1>1, Swap
<1>4. m * nd <= m * t
  BY <1>1, MoreEach
<1>5. PICK q \in Nat : q = xn \div t /\ q * t <= xn
  BY Quotient
<1>6. q * t <= m * t
  <2>1. PICK a \in Int, b \in Int, c \in Int, e \in Int :
          a = q * t /\ b = md * n /\ c = m * nd /\ e = m * t
    OBVIOUS
  <2>2. a <= xn /\ xn <= b /\ b = c /\ c <= e
    BY <1>2, <1>3, <1>4, <1>5, <2>1
  <2>3. a <= e
    BY <2>2
  <2> QED BY <2>1, <2>3
<1>7. q <= m
  BY <1>6, Cancels
<1> QED BY <1>1, <1>5, <1>7

\* A step back from a block after the target does not pass the first block when that is
\* before the target and the gaps never shrink.
LEMMA StepBackFits ==
  ASSUME IInv, NeverFaster, NEW b \in 2..Len(stamp), NEW f \in b..Len(stamp),
         target <= stamp[b], stamp[1] < target, stamp[f] > stamp[b]
  PROVE  ((stamp[b] - target) * (f - b)) \div (stamp[f] - stamp[b]) <= b - 1
<1>1. b \in 1..Len(stamp) /\ b - 1 \in 1..Len(stamp) /\ f \in 1..Len(stamp) /\ 1 \in 1..Len(stamp)
  BY ChainTypes
<1>2. PICK first1 \in Nat, y \in Nat, z \in Nat :
        first1 = stamp[1] /\ y = stamp[b] /\ z = stamp[f]
  BY <1>1, ChainTypes
<1>3. stamp[b - 1] \in Nat /\ stamp[b - 1] <= stamp[b]
  <2>1. b - 1 <= b
    BY <1>1
  <2> QED BY <1>1, <2>1, ChainTypes
<1>4. PICK d \in Nat : d = Gap(b)
  BY <1>2, <1>3 DEF Gap
<1>5. target \in Nat
  BY DEF IInv, TypeOK
<1>6. PICK x \in Nat, n \in Nat, t \in Nat \ {0}, m \in Nat :
        x = y - target /\ n = f - b /\ t = z - y /\ m = b - 1
  <2>1. b \in Nat /\ f \in Nat /\ f >= b /\ b >= 2
    BY <1>1, ChainTypes
  <2>2. f - b \in Nat /\ b - 1 \in Nat
    BY <2>1
  <2>3. y - target \in Nat
    BY <1>2, <1>5
  <2>4. z - y \in Nat \ {0}
    BY <1>2
  <2> QED BY <2>2, <2>3, <2>4
<1>7. y - first1 <= m * d
  BY <1>2, <1>4, <1>6, GapsBehind
<1>8. z - y >= n * d
  BY <1>2, <1>4, <1>6, GapsAhead
<1>9. x <= m * d /\ n * d <= t
  <2>1. PICK md \in Int, nd \in Int : md = m * d /\ nd = n * d
    OBVIOUS
  <2> QED BY <1>2, <1>5, <1>6, <1>7, <1>8, <2>1
<1>10. (x * n) \div t <= m
  BY <1>9, EstimateFits
<1> QED BY <1>2, <1>6, <1>10

\* The first block has not been overlooked by a search that gave up.
GiveUpInv ==
  /\ pc = "idle" => first = NoBlock
  /\ GaveUp /\ NeverFaster => ~IsBefore(1)

LEMMA GiveUpJump == IInv /\ IInv' /\ JumpBack /\ GaveUp' /\ NeverFaster => ~IsBefore(1)
<1> SUFFICES ASSUME IInv, IInv', JumpBack, GaveUp', NeverFaster, IsBefore(1) PROVE FALSE
  OBVIOUS
<1> DEFINE from == FirstSeen
           step == IF IsMeasurable(from) THEN StepBack(Measured(from)) ELSE 1
<1>1. bn \in 1..Len(stamp) /\ ~IsBefore(bn) /\ bn' = bn - step /\ bn' = 0
  BY ChainTypes DEF JumpBack, GaveUp, IInv, TypeOK, PointInv
<1>2. target \in Nat /\ stamp[1] < target /\ 1 \in 1..Len(stamp)
  BY ChainTypes DEF IsBefore, IInv, TypeOK
<1>3. bn # 1 /\ bn \in 2..Len(stamp)
  BY <1>1, <1>2, ChainTypes DEF IsBefore
<1>4. target <= stamp[bn] /\ stamp[bn] \in Nat
  BY <1>1, <1>2, ChainTypes DEF IsBefore
<1>5. PICK s : s = step
  OBVIOUS
<1>6. s = bn \/ s \notin Int
  <2> HIDE DEF step
  <2> QED BY <1>1, <1>5
<1>7. CASE ~IsMeasurable(from)
  BY <1>3, <1>5, <1>6, <1>7
<1>8. CASE IsMeasurable(from)
  <2>1. PICK f \in 1..Len(stamp), z \in Nat : f = from.block /\ z = from.time /\ z = stamp[f]
    <3>1. CASE first = NoBlock
      BY <1>1, <1>4, <3>1 DEF FirstSeen
    <3>2. CASE first # NoBlock
      <4>1. first.block \in DOMAIN stamp /\ first.time = stamp[first.block] /\ from = first
        BY <3>2 DEF IInv, FirstInv, FirstSeen
      <4> QED BY <4>1, ChainTypes
    <3> QED BY <3>1, <3>2
  <2>2. z > stamp[bn] + 1
    BY <1>8, <2>1 DEF IsMeasurable
  <2>3. stamp[f] > stamp[bn] /\ f \in bn..Len(stamp)
    <3>1. z > stamp[bn]
      BY <1>4, <2>1, <2>2
    <3>2. CASE f <= bn
      <4>1. stamp[f] <= stamp[bn]
        BY <1>1, <3>2, ChainTypes
      <4> QED BY <1>4, <2>1, <3>1, <4>1
    <3>3. CASE f > bn
      BY <1>1, <2>1, <3>1, <3>3
    <3> QED BY <1>1, <2>1, <3>2, <3>3
  <2>4. ((stamp[bn] - target) * (f - bn)) \div (stamp[f] - stamp[bn]) <= bn - 1
    BY <1>2, <1>3, <1>4, <2>3, StepBackFits
  <2>5. PICK back : back = Times(stamp[bn] - target, Measured(from))
    OBVIOUS
  <2>6. back = ((stamp[bn] - target) * (f - bn)) \div (stamp[f] - stamp[bn])
    BY <2>1, <2>5 DEF Times, Measured
  <2>7. back \in Nat
    <3>1. PICK x \in Nat, n \in Nat, t \in Nat \ {0} :
            x = stamp[bn] - target /\ n = f - bn /\ t = stamp[f] - stamp[bn]
      BY <1>1, <1>2, <1>4, <2>1, <2>3
    <3>2. x * n \in Nat
      OBVIOUS
    <3>3. (x * n) \div t \in Nat
      BY <3>2, Quotient
    <3> QED BY <2>6, <3>1, <3>3
  <2>8. back <= bn - 1
    BY <2>4, <2>6
  <2>9. s = IF back = 0 THEN 1 ELSE IF bn >= back THEN back ELSE bn
    BY <1>5, <1>8, <2>5 DEF StepBack
  <2> QED BY <1>3, <1>6, <2>7, <2>8, <2>9
<1> QED BY <1>7, <1>8

LEMMA GiveUpStep == IInv /\ IInv' /\ GiveUpInv /\ [Next]_vars => GiveUpInv'
<1> SUFFICES ASSUME IInv, IInv', GiveUpInv, [Next]_vars PROVE GiveUpInv'
  OBVIOUS
<1>1. CASE Mine
  <2>1. PICK g \in Gaps : stamp' = Append(stamp, stamp[Len(stamp)] + g)
    BY <1>1 DEF Mine
  <2>2. UNCHANGED searchVars
    BY <1>1 DEF Mine
  <2>3. /\ DOMAIN stamp' = 1..(Len(stamp) + 1)
        /\ \A b \in 1..Len(stamp) : stamp'[b] = stamp[b]
    BY <2>1 DEF IInv, TypeOK
  <2>4. NeverFaster' => NeverFaster
    <3> SUFFICES ASSUME NeverFaster', NEW b \in DOMAIN stamp, b > 2
                 PROVE  stamp[b] - stamp[b - 1] >= stamp[b - 1] - stamp[b - 2]
      BY DEF NeverFaster
    <3>1. /\ b \in 1..Len(stamp) /\ b - 1 \in 1..Len(stamp) /\ b - 2 \in 1..Len(stamp)
          /\ b \in DOMAIN stamp'
      BY <2>3, ChainTypes
    <3>2. stamp'[b] = stamp[b] /\ stamp'[b - 1] = stamp[b - 1] /\ stamp'[b - 2] = stamp[b - 2]
      BY <2>3, <3>1
    <3>3. stamp'[b] - stamp'[b - 1] >= stamp'[b - 1] - stamp'[b - 2]
      BY <3>1 DEF NeverFaster
    <3> QED BY <3>2, <3>3
  <2>5. IsBefore(1)' <=> IsBefore(1)
    <3>1. 1 \in 1..Len(stamp)
      BY ChainTypes
    <3> QED BY <2>2, <2>3, <3>1 DEF IsBefore, searchVars
  <2>6. GaveUp' <=> GaveUp
    BY <2>2 DEF GaveUp, searchVars
  <2> QED BY <2>2, <2>4, <2>5, <2>6 DEF GiveUpInv, searchVars
<1>2. CASE Start
  BY <1>2 DEF Start, GiveUpInv, GaveUp
<1>3. CASE BeforeTarget \/ Found
  BY <1>3 DEF BeforeTarget, Found, GiveUpInv, GaveUp
<1>4. CASE JumpForward
  <2>1. pc' = "fetch"
    BY <1>4 DEF JumpForward
  <2> QED BY <2>1 DEF GiveUpInv, GaveUp
<1>5. CASE NextFails
  <2>1. bn' # 0 /\ pc' # "idle"
    BY <1>5 DEF NextFails, IInv, TypeOK, PointInv
  <2> QED BY <2>1 DEF GiveUpInv, GaveUp
<1>6. CASE JumpBack
  <2>1. UNCHANGED <<stamp, target>> /\ pc' # "idle"
    BY <1>6 DEF JumpBack
  <2>2. GaveUp' /\ NeverFaster => ~IsBefore(1)
    BY <1>6, GiveUpJump
  <2>3. (NeverFaster' <=> NeverFaster) /\ (IsBefore(1)' <=> IsBefore(1))
    BY <2>1 DEF NeverFaster, IsBefore
  <2> QED BY <2>1, <2>2, <2>3 DEF GiveUpInv
<1>7. CASE UNCHANGED vars
  BY <1>7 DEF vars, searchVars, GiveUpInv, GaveUp, NeverFaster, IsBefore
<1> QED BY <1>1, <1>2, <1>3, <1>4, <1>5, <1>6, <1>7 DEF Next, SearchStep

\* GivesUpRightly: when blocks never come faster than before, a search that steps past
\* the first block has not overlooked one before the target: what it measured ahead of
\* the candidate is never faster than what lies behind it.
THEOREM SearchGivesUpRightly == Spec => []GivesUpRightly
<1>1. Init => GiveUpInv
  BY DEF Init, GiveUpInv, GaveUp
<1>2. IInv /\ GiveUpInv => GivesUpRightly
  <2> SUFFICES ASSUME IInv, GiveUpInv, GaveUp, NeverFaster PROVE LastBefore = 0
    BY DEF GivesUpRightly
  <2>1. ~IsBefore(0 + 1) /\ 0 \in 0..Len(stamp)
    BY ChainTypes DEF GiveUpInv
  <2> QED BY <2>1, LastBeforeIs
<1> QED BY <1>1, <1>2, GiveUpStep, IInvHolds, PTL DEF Spec
=============================================================================
