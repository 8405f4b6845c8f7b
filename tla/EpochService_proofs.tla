------------------------ MODULE EpochService_proofs ------------------------
(***************************************************************************)
(* The theorems of EpochService, for any number of gateways, cycles and    *)
(* blocks: what a state says, when it is pruned, and the service that the  *)
(* jobs rely on; and those of GatewaySelection, which draws from a state.  *)
(***************************************************************************)
EXTENDS GatewaySelection, DataInduction, TLAPS

\* The two clocks and the cycle numbers.
ClockTypes ==
  /\ clock \in Nat /\ early \in BOOLEAN
  /\ served \subseteq Nat /\ DOMAIN states \subseteq Nat
  /\ pc = "callback" => cycle \in DOMAIN states
  /\ cycle \in Nat

PruneInv == ClockTypes /\ PrunedIsTooOld

\* The next cycle to serve is a cycle number.
LEMMA SkipToType ==
  ASSUME NEW c \in Nat, NEW now \in Nat
  PROVE  SkipTo(c, now) \in Nat
BY EpochAssumption DEF SkipTo

LEMMA ServiceClockType ==
  ASSUME ClockTypes
  PROVE  ServiceClock \in Nat /\ clock <= ServiceClock /\ ServiceClock <= clock + 1
BY DEF ClockTypes, ServiceClock

\* Three halves of at least two states are one state more: the slack that the pruning
\* needs because the service's clock may be a cycle ahead of the selection's.
LEMMA MaxAgeHasSlack ==
  ASSUME StatesToMaintain >= 2
  PROVE  MaxAge \in Nat /\ MaxAge >= StatesToMaintain + 1
<1>1. StatesToMaintain \in Nat
  BY EpochAssumption
<1>2. \A n \in Nat : n >= 2 => (n * 3) \div 2 \in Nat /\ (n * 3) \div 2 >= n + 1
  OBVIOUS
<1> QED
  BY <1>1, <1>2 DEF MaxAge

LEMMA InitPruneInv == Init => PruneInv
<1> SUFFICES ASSUME Init PROVE PruneInv
  OBVIOUS
<1>1. clock \in Nat /\ early \in BOOLEAN /\ served = {} /\ DOMAIN states = {} /\ pc = "pick"
  BY EpochAssumption DEF Init, Cycles
<1>2. ServiceClock \in Nat
  BY <1>1 DEF ServiceClock
<1>3. cycle \in Nat
  BY <1>2, SkipToType DEF Init
<1> QED
  BY <1>1, <1>3 DEF PruneInv, ClockTypes, PrunedIsTooOld

\* The clock only rises, so a cycle that was too old stays so.
LEMMA TickStep == PruneInv /\ Tick => PruneInv'
<1> SUFFICES ASSUME PruneInv, Tick PROVE PruneInv'
  OBVIOUS
<1>1. UNCHANGED <<states, served, cycle, pc>>
  BY DEF Tick
<1>2. clock' \in Nat /\ early' \in BOOLEAN /\ clock' >= clock
  <2>1. clock \in Nat /\ early \in BOOLEAN
    BY DEF PruneInv, ClockTypes
  <2>2. CASE early /\ clock' = clock + 1 /\ early' = FALSE
    <3>1. early' \in BOOLEAN
      BY <2>2
    <3>2. clock \in Nat /\ clock' = clock + 1
      BY <2>1, <2>2, Zenon
    <3>3. clock' \in Nat /\ clock' >= clock
      BY <3>2
    <3> QED
      BY <3>1, <3>3
  <2>3. CASE early' = TRUE /\ UNCHANGED clock
    BY <2>1, <2>3
  <2> QED
    BY <2>2, <2>3 DEF Tick
<1>3. ClockTypes'
  BY <1>1, <1>2 DEF PruneInv, ClockTypes
<1>4. ASSUME NEW c \in served \ DOMAIN states PROVE clock' >= StatesToMaintain + c
  <2>1. clock >= StatesToMaintain + c /\ clock \in Nat /\ c \in Nat
    BY DEF PruneInv, ClockTypes, PrunedIsTooOld
  <2> QED
    BY <1>2, <2>1, EpochAssumption
<1> QED
  BY <1>1, <1>3, <1>4 DEF PruneInv, PrunedIsTooOld

\* Steps that keep the states and the cycles served.
LEMMA MoveStep ==
  PruneInv /\ (Mine \/ Pick \/ InitDone \/ Interval \/ Check) => PruneInv'
<1> SUFFICES ASSUME PruneInv, Mine \/ Pick \/ InitDone \/ Interval \/ Check PROVE PruneInv'
  OBVIOUS
<1>1. UNCHANGED <<clock, early, states, served>>
  BY DEF Mine, Pick, InitDone, Interval, Check, chainVars
<1>2. cycle' \in Nat
  <2>1. CASE Pick
    BY <2>1, SkipToType, ServiceClockType DEF Pick, PruneInv, ClockTypes
  <2>2. CASE Mine \/ InitDone \/ Interval \/ Check
    BY <2>2 DEF Mine, InitDone, Interval, Check, PruneInv, ClockTypes
  <2> QED
    BY <2>1, <2>2
<1>3. pc' = "callback" => pc = "callback" /\ cycle' = cycle
  BY DEF Mine, Pick, InitDone, Interval, Check
<1> QED
  BY <1>1, <1>2, <1>3 DEF PruneInv, ClockTypes, PrunedIsTooOld

\* A state is published before its cycle is served.
LEMMA GenerateStep == PruneInv /\ Generate => PruneInv'
<1> SUFFICES ASSUME PruneInv, Generate PROVE PruneInv'
  OBVIOUS
<1>1. UNCHANGED <<clock, early, served, cycle>>
  BY DEF Generate, chainVars
<1>2. CASE UNCHANGED states /\ pc' = "panicked"
  BY <1>1, <1>2 DEF PruneInv, ClockTypes, PrunedIsTooOld
<1>3. CASE DOMAIN states' = DOMAIN states \union {cycle}
  BY <1>1, <1>3 DEF PruneInv, ClockTypes, PrunedIsTooOld
<1>4. \A s : Publish(s) => DOMAIN states' = DOMAIN states \union {cycle}
  BY DEF Publish
<1> QED
  BY <1>2, <1>3, <1>4 DEF Generate

LEMMA CallbackStep == PruneInv /\ Callback => PruneInv'
<1> SUFFICES ASSUME PruneInv, Callback PROVE PruneInv'
  OBVIOUS
<1>1. /\ UNCHANGED <<clock, early, states>>
      /\ served' = served \union {cycle} /\ cycle \in DOMAIN states
      /\ pc' # "callback" /\ cycle' \in Nat
  BY DEF Callback, PruneInv, ClockTypes, chainVars
<1> QED
  BY <1>1 DEF PruneInv, ClockTypes, PrunedIsTooOld

\* A state is pruned when the faster clock is a cycle past the age at which the slower
\* one refuses its jobs.
LEMMA PruneStep == ASSUME StatesToMaintain >= 2 PROVE PruneInv /\ Prune => PruneInv'
<1> SUFFICES ASSUME PruneInv, Prune PROVE PruneInv'
  OBVIOUS
<1>1. /\ UNCHANGED <<clock, early, served>>
      /\ DOMAIN states' = {d \in DOMAIN states : ~Expired(d)}
      /\ cycle' = cycle + 1 /\ pc' = "tick"
  BY DEF Prune, chainVars
<1>2. ClockTypes'
  BY <1>1 DEF PruneInv, ClockTypes
<1>3. ASSUME NEW c \in served \ DOMAIN states' PROVE clock >= StatesToMaintain + c
  <2>1. c \in Nat /\ clock \in Nat /\ StatesToMaintain \in Nat
    BY EpochAssumption DEF PruneInv, ClockTypes
  <2>2. CASE c \notin DOMAIN states
    BY <2>2 DEF PruneInv, PrunedIsTooOld
  <2>3. CASE Expired(c)
    <3>1. ServiceClock >= MaxAge + c
      BY <2>3 DEF Expired
    <3>2. ServiceClock \in Nat /\ ServiceClock <= clock + 1
      BY ServiceClockType DEF PruneInv
    <3>3. MaxAge \in Nat /\ MaxAge >= StatesToMaintain + 1
      BY MaxAgeHasSlack
    <3> QED
      BY <2>1, <3>1, <3>2, <3>3
  <2> QED
    BY <1>1, <2>2, <2>3
<1> QED
  BY <1>1, <1>2, <1>3 DEF PruneInv, PrunedIsTooOld

\* PrunedIsTooOld: the state of a served cycle is gone only when the selection refuses
\* the cycle's jobs as too old (prune_old_cycle_states, select_gateway_for_job_id).
THEOREM PrunedStatesAreTooOld ==
  ASSUME StatesToMaintain >= 2
  PROVE  Spec => []PrunedIsTooOld
<1>1. PruneInv /\ [Next]_vars => PruneInv'
  <2> SUFFICES ASSUME PruneInv, [Next]_vars PROVE PruneInv'
    OBVIOUS
  <2>1. CASE UNCHANGED vars
    BY <2>1 DEF vars, chainVars, PruneInv, ClockTypes, PrunedIsTooOld
  <2> QED
    BY <2>1, TickStep, MoveStep, GenerateStep, CallbackStep, PruneStep DEF Next, ServiceStep
<1>2. PruneInv => PrunedIsTooOld
  BY DEF PruneInv
<1> QED
  BY <1>1, <1>2, InitPruneInv, PTL DEF Spec
-----------------------------------------------------------------------------
(* The chain and the contract on it.                                        *)

Sorted(chain) == \A i, j \in DOMAIN chain : i <= j => chain[i].cycle <= chain[j].cycle

\* Timestamps rise from a first block of before every cycle, and are at most a cycle
\* ahead of the clock.
ChainInv ==
  /\ blocks \in Seq(Block) /\ Len(blocks) \in Blocks
  /\ blocks[1].cycle = 0 /\ Sorted(blocks)
  /\ LastStamp <= ServiceClock + 1 /\ (~ChainAhead => LastStamp <= ServiceClock)

CountBefore(chain, c) == Cardinality({b \in DOMAIN chain : chain[b].cycle < c})

LEMMA BlockTypes ==
  ASSUME NEW chain \in Seq(Block), NEW b \in DOMAIN chain
  PROVE  chain[b].cycle \in Nat /\ chain[b].event \in Event \union {NoEvent}
<1>1. chain[b] \in Block
  OBVIOUS
<1>2. 0..(LastCycle + 1) \subseteq Nat
  BY EpochAssumption
<1> QED BY <1>1, <1>2 DEF Block

\* The blocks before a cycle are the first ones.
LEMMA CountBeforeIs ==
  ASSUME NEW chain \in Seq(Block), Sorted(chain), NEW c \in Int
  PROVE  /\ CountBefore(chain, c) \in 0..Len(chain)
         /\ \A b \in DOMAIN chain : chain[b].cycle < c <=> b <= CountBefore(chain, c)
<1> DEFINE A == {b \in DOMAIN chain : chain[b].cycle < c}
<1>1. Len(chain) \in Nat /\ DOMAIN chain = 1..Len(chain)
  OBVIOUS
<1>2. \A b \in DOMAIN chain : chain[b].cycle \in Int
  BY BlockTypes
<1>3. \A k \in A : 1..k \subseteq A
  <2> SUFFICES ASSUME NEW k \in A, NEW j \in 1..k PROVE j \in A
    OBVIOUS
  <2>1. j \in DOMAIN chain /\ chain[j].cycle <= chain[k].cycle
    BY <1>1 DEF Sorted
  <2> QED BY <1>2, <2>1
<1>4. PICK a \in 0..Len(chain) : A = 1..a
  <2>1. A \in SUBSET (1..Len(chain))
    BY <1>1
  <2> HIDE DEF A
  <2> QED BY <1>1, <1>3, <2>1, InitialSegment
<1>5. CountBefore(chain, c) = a
  <2>1. Cardinality(1..a) = a
    BY FS_Interval
  <2> QED BY <1>4, <2>1 DEF CountBefore
<1>6. \A b \in DOMAIN chain : chain[b].cycle < c <=> b \in 1..a
  <2>1. \A b \in DOMAIN chain : chain[b].cycle < c <=> b \in A
    OBVIOUS
  <2> HIDE DEF A
  <2> QED BY <1>4, <2>1
<1> QED BY <1>1, <1>4, <1>5, <1>6

LEMMA BeforeIs ==
  ASSUME ChainInv, NEW c \in Int
  PROVE  /\ Before(c) \in 0..Len(blocks)
         /\ \A b \in DOMAIN blocks : blocks[b].cycle < c <=> b <= Before(c)
         /\ c >= 1 => Before(c) >= 1
<1>1. Before(c) = CountBefore(blocks, c)
  BY DEF Before, CountBefore
<1>2. /\ Before(c) \in 0..Len(blocks)
      /\ \A b \in DOMAIN blocks : blocks[b].cycle < c <=> b <= Before(c)
  BY <1>1, CountBeforeIs DEF ChainInv
<1>3. c >= 1 => Before(c) >= 1
  <2>1. 1 \in DOMAIN blocks /\ blocks[1].cycle = 0
    BY EpochAssumption DEF ChainInv, Blocks
  <2> QED BY <1>2, <2>1
<1> QED BY <1>2, <1>3

LEMMA BeforeMonotone ==
  ASSUME ChainInv, NEW c \in Int, NEW d \in Int, c <= d
  PROVE  Before(c) <= Before(d)
<1> DEFINE p == Before(c)
           q == Before(d)
<1>1. /\ p \in 0..Len(blocks) /\ \A b \in DOMAIN blocks : blocks[b].cycle < c <=> b <= p
      /\ q \in 0..Len(blocks) /\ \A b \in DOMAIN blocks : blocks[b].cycle < d <=> b <= q
  BY BeforeIs
<1>2. DOMAIN blocks = 1..Len(blocks) /\ Len(blocks) \in Nat
  BY DEF ChainInv
<1>3. \A b \in DOMAIN blocks : blocks[b].cycle \in Int
  BY BlockTypes DEF ChainInv
<1> HIDE DEF p, q
<1>4. ASSUME p = 0 PROVE p <= q
  BY <1>1, <1>4
<1>5. ASSUME p # 0 PROVE p <= q
  <2>1. p \in DOMAIN blocks
    BY <1>1, <1>2, <1>5
  <2>2. blocks[p].cycle < c
    BY <1>1, <2>1
  <2>3. blocks[p].cycle < d
    BY <1>3, <2>1, <2>2
  <2> QED BY <1>1, <2>1, <2>3
<1>6. p <= q
  BY <1>4, <1>5, Zenon
<1> QED BY <1>6 DEF p, q

\* A new block is not before a cycle that the chain has reached.
LEMMA BeforeAfterMine ==
  ASSUME ChainInv, ChainInv', NEW b, blocks' = Append(blocks, b), NEW c \in Int
  PROVE  Before(c)' >= Before(c) /\ (ChainReached(c) => Before(c)' = Before(c))
<1>0. blocks \in Seq(Block) /\ blocks' \in Seq(Block) /\ Sorted(blocks) /\ Sorted(blocks')
  BY DEF ChainInv, Sorted
<1> DEFINE m == CountBefore(blocks, c)
           n == CountBefore(blocks', c)
<1>1. Before(c) = m /\ Before(c)' = n
  BY DEF Before, CountBefore
<1>2. /\ m \in 0..Len(blocks)
      /\ \A k \in DOMAIN blocks : blocks[k].cycle < c <=> k <= m
  BY <1>0, CountBeforeIs
<1>3. /\ n \in 0..Len(blocks')
      /\ \A k \in DOMAIN blocks' : blocks'[k].cycle < c <=> k <= n
  BY <1>0, CountBeforeIs
<1>4. /\ Len(blocks') = Len(blocks) + 1 /\ Len(blocks) \in Nat /\ Len(blocks) >= 1
      /\ DOMAIN blocks = 1..Len(blocks) /\ DOMAIN blocks' = 1..(Len(blocks) + 1)
      /\ \A k \in 1..Len(blocks) : blocks'[k] = blocks[k]
  BY <1>0 DEF ChainInv, Blocks
<1> HIDE DEF m, n
<1>5. n >= m
  <2>1. CASE m = 0
    BY <1>2, <1>3, <2>1
  <2>2. CASE m # 0
    <3>1. m \in DOMAIN blocks /\ m \in DOMAIN blocks' /\ blocks'[m] = blocks[m]
      BY <1>2, <1>4, <2>2
    <3>2. blocks[m].cycle < c
      BY <1>2, <3>1
    <3> QED BY <1>3, <3>1, <3>2
  <2> QED BY <2>1, <2>2
<1>6. ASSUME ChainReached(c) PROVE n = m
  <2>1. Len(blocks) \in DOMAIN blocks /\ Len(blocks) \in DOMAIN blocks'
        /\ blocks'[Len(blocks)] = blocks[Len(blocks)]
    BY <1>4
  <2>2. blocks[Len(blocks)].cycle >= c /\ blocks[Len(blocks)].cycle \in Int
    BY <1>0, <1>6, <2>1, BlockTypes DEF ChainReached, LastStamp
  <2>3. ~(Len(blocks) <= n)
    BY <1>3, <2>1, <2>2
  <2>4. CASE n = 0
    BY <1>2, <1>3, <1>5, <2>4
  <2>5. CASE n # 0
    <3>1. n \in DOMAIN blocks /\ n \in DOMAIN blocks' /\ blocks'[n] = blocks[n]
      BY <1>3, <1>4, <2>3, <2>5
    <3>2. blocks'[n].cycle < c
      BY <1>3, <3>1
    <3>3. n <= m
      BY <1>2, <3>1, <3>2
    <3> QED BY <1>2, <1>3, <1>5, <3>3
  <2> QED BY <2>4, <2>5
<1> QED BY <1>1, <1>2, <1>3, <1>5, <1>6

\* What the contract said as of a block stays.
LEMMA ContractStays ==
  ASSUME ChainInv, NEW b, blocks' = Append(blocks, b), NEW n \in Int, n <= Len(blocks), NEW g
  PROVE  (Registered(g, n)' <=> Registered(g, n)) /\ (Serves(g, n)' <=> Serves(g, n))
<1>1. \A k \in 1..n : blocks'[k] = blocks[k]
  BY DEF ChainInv
<1>2. \A k \in 1..n : \A kinds : IsEvent(k, kinds, g)' <=> IsEvent(k, kinds, g)
  BY <1>1 DEF IsEvent
<1>3. \A k \in 1..n : (k + 1)..n \subseteq 1..n
  OBVIOUS
<1> QED BY <1>2, <1>3 DEF Registered, Serves

IsOf(e, kinds, g) == e.kind \in kinds /\ e.gateway = g

\* What one more event changes.
LEMMA ContractAdvances ==
  ASSUME ChainInv, NEW n \in Int, n >= -1, n + 1 <= Len(blocks), NEW g
  PROVE  /\ EventAt(n + 1) \in Event \union {NoEvent}
         /\ Registered(g, n + 1) <=>
              \/ IsOf(EventAt(n + 1), {"registered"}, g)
              \/ Registered(g, n) /\ ~IsOf(EventAt(n + 1), {"deregistered"}, g)
         /\ Serves(g, n + 1) <=>
              \/ IsOf(EventAt(n + 1), {"registered", "chainAdded"}, g)
              \/ Serves(g, n) /\ ~IsOf(EventAt(n + 1), {"deregistered", "chainRemoved"}, g)
<1> DEFINE e == EventAt(n + 1)
           is(kinds) == IsOf(e, kinds, g)
<1>1. CASE n = -1
  <2>1. n + 1 = 0 /\ 1..0 = {} /\ 1..n = {}
    BY <1>1
  <2>2. 0 \notin DOMAIN blocks
    BY DEF ChainInv
  <2>3. e = NoEvent
    BY <2>1, <2>2 DEF EventAt
  <2>4. \A kinds : is(kinds) => "none" \in kinds
    BY <2>3 DEF NoEvent, IsOf
  <2>5. ~Registered(g, n + 1) /\ ~Registered(g, n) /\ ~Serves(g, n + 1) /\ ~Serves(g, n)
    BY <2>1 DEF Registered, Serves
  <2>6. ~is({"registered"}) /\ ~is({"registered", "chainAdded"})
    <3> HIDE DEF is
    <3> QED BY <2>4
  <2> HIDE DEF is, e
  <2>7. e \in Event \union {NoEvent}
    BY <2>3
  <2> QED BY <2>5, <2>6, <2>7 DEF is, e
<1>2. CASE n >= 0
  <2>1. n + 1 \in DOMAIN blocks
    BY <1>2 DEF ChainInv
  <2>2. e = blocks[n + 1].event /\ e \in Event \union {NoEvent}
    BY <2>1, BlockTypes DEF EventAt, ChainInv
  <2>3. \A kinds : IsEvent(n + 1, kinds, g) <=> is(kinds)
    BY <2>2 DEF IsEvent, IsOf
  <2>4. ASSUME NEW on, NEW off, on \cap off = {}
        PROVE  (\E b \in 1..(n + 1) : IsEvent(b, on, g)
                                      /\ \A d \in (b + 1)..(n + 1) : ~IsEvent(d, off, g))
               <=> \/ is(on)
                   \/ /\ \E b \in 1..n : IsEvent(b, on, g)
                                         /\ \A d \in (b + 1)..n : ~IsEvent(d, off, g)
                      /\ ~is(off)
    <3> HIDE DEF is
    <3>1. CASE is(on)
      <4>1. (n + 2)..(n + 1) = {} /\ n + 1 \in 1..(n + 1) /\ (n + 1) + 1 = n + 2
        BY <1>2
      <4>2. IsEvent(n + 1, on, g)
        BY <2>3, <3>1
      <4> QED BY <3>1, <4>1, <4>2
    <3>2. CASE ~is(on)
      <4>1. ~IsEvent(n + 1, on, g)
        BY <2>3, <3>2
      <4>2. 1..(n + 1) = 1..n \union {n + 1}
        BY <1>2
      <4>3. \A b \in 1..n : (b + 1)..(n + 1) = (b + 1)..n \union {n + 1}
        BY <1>2
      <4>4. (\E b \in 1..(n + 1) : IsEvent(b, on, g)
                                   /\ \A d \in (b + 1)..(n + 1) : ~IsEvent(d, off, g))
            <=> \E b \in 1..n : IsEvent(b, on, g)
                                /\ \A d \in (b + 1)..(n + 1) : ~IsEvent(d, off, g)
        BY <4>1, <4>2, Zenon
      <4>5. \A b \in 1..n : (\A d \in (b + 1)..(n + 1) : ~IsEvent(d, off, g))
                            <=> (\A d \in (b + 1)..n : ~IsEvent(d, off, g)) /\ ~is(off)
        BY <2>3, <4>3, Zenon
      <4> QED BY <3>2, <4>4, <4>5, Zenon
    <3> QED BY <3>1, <3>2
  <2>5. {"registered"} \cap {"deregistered"} = {}
        /\ {"registered", "chainAdded"} \cap {"deregistered", "chainRemoved"} = {}
    OBVIOUS
  <2> HIDE DEF is, e
  <2>6. Registered(g, n + 1) <=>
          is({"registered"}) \/ (Registered(g, n) /\ ~is({"deregistered"}))
    BY <2>4, <2>5, Zenon DEF Registered
  <2>7. Serves(g, n + 1) <=>
          \/ is({"registered", "chainAdded"})
          \/ Serves(g, n) /\ ~is({"deregistered", "chainRemoved"})
    BY <2>4, <2>5, Zenon DEF Serves
  <2>8. e \in Event \union {NoEvent}
    BY <2>2
  <2> QED BY <2>6, <2>7, <2>8 DEF is, e
<1> QED BY <1>1, <1>2
-----------------------------------------------------------------------------
(* Types: the clocks and the loops, then the chain.                         *)

LoopInv ==
  /\ clock \in Cycles /\ early \in BOOLEAN /\ ServiceClock <= LastCycle
  /\ DOMAIN states \subseteq Cycles /\ served \subseteq Cycles
  /\ cycle \in 1..(LastCycle + 1) /\ startCycle \in Cycles /\ ticks \in Nat
  /\ phase \in {"init", "main"}
  /\ pc \in {"pick", "generate", "callback", "check", "prune", "tick", "panicked"}
  /\ pc \in {"generate", "callback", "check", "prune"} => cycle \in Cycles
  /\ faulted \in BOOLEAN

LEMMA SkipToRange ==
  ASSUME NEW c \in 1..(LastCycle + 1), NEW now \in Nat, now <= LastCycle
  PROVE  SkipTo(c, now) \in 1..(LastCycle + 1) /\ SkipTo(c, now) >= c
BY EpochAssumption DEF SkipTo

LEMMA ServiceClockRange ==
  ASSUME clock \in Cycles, early \in BOOLEAN
  PROVE  ServiceClock \in Nat /\ clock <= ServiceClock /\ ServiceClock <= clock + 1
BY EpochAssumption DEF ServiceClock, Cycles

LEMMA LoopInit == Init => LoopInv
<1> SUFFICES ASSUME Init PROVE LoopInv
  OBVIOUS
<1>1. clock \in Cycles /\ early \in BOOLEAN /\ ServiceClock <= LastCycle /\ startCycle = ServiceClock
  BY DEF Init
<1>2. startCycle \in Cycles
  BY <1>1, ServiceClockRange DEF Cycles
<1>3. cycle \in 1..(LastCycle + 1)
  <2>1. 1 \in 1..(LastCycle + 1) /\ startCycle \in Nat /\ startCycle <= LastCycle
    BY <1>2, EpochAssumption DEF Cycles
  <2> QED BY <2>1, SkipToRange DEF Init
<1>4. DOMAIN states = {} /\ served = {} /\ ticks \in Nat
      /\ phase = "init" /\ pc = "pick"
  BY DEF Init
<1>5. faulted \in BOOLEAN
  BY DEF Init
<1> QED BY <1>1, <1>2, <1>3, <1>4, <1>5 DEF LoopInv

LEMMA PublishDomain ==
  ASSUME NEW s, Publish(s)
  PROVE  DOMAIN states' = DOMAIN states \union {cycle} /\ pc' = "callback"
BY DEF Publish

\* What a generated state leaves alone.
LEMMA GenerateChanges ==
  ASSUME Generate
  PROVE  /\ UNCHANGED <<clock, early, blocks, served, cycle, startCycle, ticks, phase>>
         /\ pc = "generate"
         /\ \/ DOMAIN states' = DOMAIN states \union {cycle} /\ pc' = "callback"
            \/ states' = states /\ pc' = "panicked" /\ RpcFaults
         /\ faulted \in BOOLEAN => faulted' \in BOOLEAN
<1>1. UNCHANGED <<clock, early, blocks, served, cycle, startCycle, ticks, phase>> /\ pc = "generate"
  BY DEF Generate, chainVars, loopVars
<1>2. \/ DOMAIN states' = DOMAIN states \union {cycle} /\ pc' = "callback"
      \/ states' = states /\ pc' = "panicked" /\ RpcFaults
  BY PublishDomain DEF Generate
<1>3. faulted \in BOOLEAN => faulted' \in BOOLEAN
  BY DEF Generate
<1> QED BY <1>1, <1>2, <1>3

LEMMA TickChanges ==
  ASSUME LoopInv, Tick
  PROVE  /\ UNCHANGED <<blocks, states, served, cycle, startCycle, ticks, phase, pc, faulted>>
         /\ clock' \in Cycles /\ early' \in BOOLEAN /\ ServiceClock' <= LastCycle
         /\ ServiceClock <= ServiceClock'
         /\ \/ clock' = clock /\ ServiceClock' = ServiceClock + 1
            \/ clock' = clock + 1 /\ ServiceClock' = ServiceClock
<1>1. UNCHANGED <<blocks, states, served, cycle, startCycle, ticks, phase, pc, faulted>>
  BY DEF Tick, loopVars
<1>2. clock \in Nat /\ clock >= 1 /\ clock <= LastCycle /\ LastCycle \in Nat
  BY EpochAssumption DEF LoopInv, Cycles
<1>3. CASE early /\ clock' = clock + 1 /\ early' = FALSE
  <2>1. ServiceClock = clock + 1 /\ ServiceClock' = clock'
    BY <1>3 DEF ServiceClock
  <2>2. clock' = clock + 1 /\ early' \in BOOLEAN
    BY <1>3
  <2>3. clock + 1 <= LastCycle
    BY <2>1 DEF LoopInv
  <2>4. clock' \in Cycles /\ ServiceClock' <= LastCycle /\ ServiceClock <= ServiceClock'
    BY <1>2, <2>1, <2>2, <2>3 DEF Cycles
  <2>5. ServiceClock' = ServiceClock
    BY <2>1, <2>2
  <2> QED BY <1>1, <2>2, <2>4, <2>5
<1>4. CASE ~early /\ clock < LastCycle /\ early' = TRUE /\ UNCHANGED clock
  <2>1. ServiceClock = clock /\ ServiceClock' = clock + 1
    BY <1>4 DEF ServiceClock
  <2> QED BY <1>1, <1>2, <1>4, <2>1 DEF LoopInv, Cycles
<1> QED BY <1>3, <1>4 DEF Tick

LEMMA LoopStep == LoopInv /\ [Next]_vars => LoopInv'
<1> SUFFICES ASSUME LoopInv, [Next]_vars PROVE LoopInv'
  OBVIOUS
<1> USE EpochAssumption
<1>1. CASE UNCHANGED vars
  BY <1>1 DEF LoopInv, vars, chainVars, loopVars, ServiceClock
<1>2. CASE Tick
  BY <1>2, TickChanges DEF LoopInv
<1>3. CASE Mine
  BY <1>3 DEF Mine, LoopInv, ServiceClock, loopVars
<1>4. CASE Pick
  <2>1. ServiceClock \in Nat
    BY ServiceClockRange DEF LoopInv
  <2>2. cycle' \in 1..(LastCycle + 1) /\ cycle' <= LastCycle
    BY <1>4, <2>1, SkipToRange DEF Pick, LoopInv
  <2> QED BY <1>4, <2>2 DEF Pick, LoopInv, ServiceClock, loopVars, chainVars, Cycles
<1>5. CASE InitDone
  BY <1>5 DEF InitDone, LoopInv, ServiceClock, chainVars
<1>6. CASE Interval
  BY <1>6 DEF Interval, LoopInv, ServiceClock, chainVars
<1>7. CASE Generate
  <2>1. cycle \in Cycles
    BY <1>7, GenerateChanges DEF LoopInv
  <2>2. /\ UNCHANGED <<clock, early, served, cycle, startCycle, ticks, phase>>
        /\ DOMAIN states' \subseteq DOMAIN states \union {cycle}
        /\ pc' \in {"callback", "panicked"} /\ faulted' \in BOOLEAN
    BY <1>7, GenerateChanges DEF LoopInv
  <2> QED BY <2>1, <2>2 DEF LoopInv, ServiceClock
<1>8. CASE Callback
  <2>1. cycle \in Cycles /\ cycle + 1 \in 1..(LastCycle + 1)
    BY <1>8 DEF Callback, LoopInv, Cycles
  <2> QED BY <1>8, <2>1 DEF Callback, LoopInv, ServiceClock, chainVars, loopVars
<1>9. CASE Check
  <2>1. cycle \in Cycles /\ cycle + 1 \in 1..(LastCycle + 1)
    BY <1>9 DEF Check, LoopInv, Cycles
  <2> QED BY <1>9, <2>1 DEF Check, LoopInv, ServiceClock, chainVars, loopVars
<1>10. CASE Prune
  <2>1. cycle \in Cycles /\ cycle + 1 \in 1..(LastCycle + 1)
    BY <1>10 DEF Prune, LoopInv, Cycles
  <2> QED BY <1>10, <2>1 DEF Prune, LoopInv, ServiceClock, chainVars, loopVars
<1> QED BY <1>1, <1>2, <1>3, <1>4, <1>5, <1>6, <1>7, <1>8, <1>9, <1>10 DEF Next, ServiceStep

LEMMA ChainInit == Init => ChainInv
<1> SUFFICES ASSUME Init PROVE ChainInv
  OBVIOUS
<1> DEFINE first == [cycle |-> 0, event |-> NoEvent]
<1>1. blocks = <<first>> /\ first \in Block
  BY EpochAssumption DEF Init, Block
<1>2. blocks \in Seq(Block) /\ Len(blocks) = 1 /\ blocks[1].cycle = 0 /\ DOMAIN blocks = {1}
  BY <1>1
<1>3. Sorted(blocks)
  BY <1>2 DEF Sorted
<1>4. ServiceClock \in Nat
  BY ServiceClockRange DEF Init
<1> HIDE DEF first
<1> QED BY <1>2, <1>3, <1>4, EpochAssumption DEF ChainInv, LastStamp, Blocks

\* Blocks are added at the end, not before the last one.
LEMMA MineChanges ==
  ASSUME LoopInv, ChainInv, Mine
  PROVE  /\ UNCHANGED <<clock, early, states, served, cycle, startCycle, ticks, phase, pc, faulted>>
         /\ \E b \in Block : blocks' = Append(blocks, b)
         /\ ChainInv'
<1>1. UNCHANGED <<clock, early, states, served, cycle, startCycle, ticks, phase, pc, faulted>>
  BY DEF Mine, loopVars
<1>2. PICK e \in Event \union {NoEvent}, c \in {ServiceClock} \union (IF ChainAhead THEN {ServiceClock + 1} ELSE {}) :
           c >= LastStamp /\ blocks' = Append(blocks, [cycle |-> c, event |-> e])
  BY DEF Mine
<1>3. ServiceClock \in Nat /\ ServiceClock <= LastCycle /\ LastCycle \in Nat
  BY ServiceClockRange, EpochAssumption DEF LoopInv
<1>4. c \in Nat /\ c <= ServiceClock + 1 /\ (~ChainAhead => c = ServiceClock)
  BY <1>3
<1> DEFINE b == [cycle |-> c, event |-> e]
<1>5. b \in Block /\ b.cycle = c
  BY <1>3, <1>4 DEF Block
<1>6. blocks' = Append(blocks, b)
  BY <1>2
<1> HIDE DEF b
<1>7. blocks \in Seq(Block) /\ Len(blocks) \in Nat /\ Len(blocks) >= 1 /\ Len(blocks) < LastBlock
  BY DEF ChainInv, Blocks, Mine
<1>8. /\ blocks' \in Seq(Block) /\ Len(blocks') = Len(blocks) + 1
      /\ DOMAIN blocks = 1..Len(blocks) /\ DOMAIN blocks' = 1..(Len(blocks) + 1)
      /\ \A k \in 1..Len(blocks) : blocks'[k] = blocks[k]
      /\ blocks'[Len(blocks) + 1] = b
  BY <1>5, <1>6, <1>7
<1>9. \A k \in DOMAIN blocks : blocks[k].cycle \in Nat
  BY BlockTypes DEF ChainInv
<1>10. Sorted(blocks')
  <2>1. \A k \in DOMAIN blocks : blocks[k].cycle <= c
    <3> SUFFICES ASSUME NEW k \in DOMAIN blocks PROVE blocks[k].cycle <= c
      OBVIOUS
    <3>1. Len(blocks) \in DOMAIN blocks /\ k <= Len(blocks)
      BY <1>7, <1>8
    <3>2. blocks[k].cycle <= blocks[Len(blocks)].cycle
      BY <3>1 DEF ChainInv, Sorted
    <3> QED BY <1>2, <1>4, <1>9, <3>1, <3>2 DEF LastStamp
  <2> SUFFICES ASSUME NEW i \in DOMAIN blocks', NEW j \in DOMAIN blocks', i <= j
               PROVE  blocks'[i].cycle <= blocks'[j].cycle
    BY DEF Sorted
  <2>2. CASE j <= Len(blocks)
    <3>1. i \in DOMAIN blocks /\ j \in DOMAIN blocks
      BY <1>7, <1>8, <2>2
    <3>2. blocks[i].cycle <= blocks[j].cycle
      BY <3>1 DEF ChainInv, Sorted
    <3> QED BY <1>8, <3>1, <3>2
  <2>3. CASE j = Len(blocks) + 1 /\ i \in DOMAIN blocks
    BY <1>5, <1>8, <2>1, <2>3
  <2>4. CASE j = Len(blocks) + 1 /\ i = j
    BY <1>4, <1>5, <1>8, <2>4
  <2> QED BY <1>7, <1>8, <2>2, <2>3, <2>4
<1>11. LastStamp' = c /\ ServiceClock' = ServiceClock
  BY <1>1, <1>5, <1>8 DEF LastStamp, ServiceClock
<1>12. blocks'[1].cycle = 0 /\ Len(blocks') \in Blocks
  BY <1>7, <1>8, EpochAssumption DEF ChainInv, Blocks
<1>13. ChainInv'
  BY <1>3, <1>4, <1>8, <1>10, <1>11, <1>12 DEF ChainInv, Sorted
<1> QED BY <1>1, <1>5, <1>6, <1>13

LEMMA ServiceLeavesChain ==
  ASSUME ServiceStep \/ UNCHANGED vars
  PROVE  UNCHANGED <<clock, early, blocks>>
BY DEF ServiceStep, Pick, InitDone, Interval, Generate, Callback, Check, Prune, vars, chainVars

LEMMA ChainStep == LoopInv /\ ChainInv /\ [Next]_vars => ChainInv'
<1> SUFFICES ASSUME LoopInv, ChainInv, [Next]_vars PROVE ChainInv'
  OBVIOUS
<1>1. CASE Mine
  BY <1>1, MineChanges
<1>2. CASE Tick
  <2>1. blocks' = blocks /\ ServiceClock <= ServiceClock'
    BY <1>2, TickChanges
  <2>2. ServiceClock \in Nat /\ ServiceClock' \in Nat
    BY <1>2, TickChanges, ServiceClockRange DEF LoopInv, ServiceClock, Cycles
  <2>3. LastStamp \in Nat
    <3>1. Len(blocks) \in DOMAIN blocks
      BY EpochAssumption DEF ChainInv, Blocks
    <3> QED BY <3>1, BlockTypes DEF ChainInv, LastStamp
  <2> QED BY <2>1, <2>2, <2>3 DEF ChainInv, LastStamp, Sorted
<1>3. CASE ServiceStep \/ UNCHANGED vars
  BY <1>3, ServiceLeavesChain DEF ChainInv, LastStamp, ServiceClock, Sorted
<1> QED BY <1>1, <1>2, <1>3 DEF Next
-----------------------------------------------------------------------------
(* The states of a cycle.                                                   *)

CycleStates == UNION {[D -> GatewayData] : D \in SUBSET Gateways}

\* The entries say that the events up to block n were applied, on the way to block `to`.
Mid(s, n, to) ==
  /\ s \in CycleStates
  /\ DOMAIN s = {g \in Gateways : Registered(g, n)}
  /\ \A g \in DOMAIN s : /\ s[g].last = to /\ s[g].stakeAt <= to
                         /\ s[g].serves <=> Serves(g, n)

LEMMA StateTypes ==
  ASSUME NEW s \in CycleStates
  PROVE  /\ DOMAIN s \in SUBSET Gateways /\ s \in [DOMAIN s -> GatewayData]
         /\ \A g \in DOMAIN s : /\ s[g] \in GatewayData /\ s[g].last \in Nat
                                /\ s[g].serves \in BOOLEAN /\ s[g].stakeAt \in Nat
<1>1. PICK D \in SUBSET Gateways : s \in [D -> GatewayData]
  BY DEF CycleStates
<1>2. \A d \in GatewayData : d.last \in Nat /\ d.stakeAt \in Nat
  BY DEF GatewayData
<1>3. \A d \in GatewayData : d.serves \in BOOLEAN
  BY DEF GatewayData
<1>4. DOMAIN s = D /\ s \in [D -> GatewayData] /\ \A g \in D : s[g] \in GatewayData
  BY <1>1
<1> QED BY <1>2, <1>3, <1>4

LEMMA IsState ==
  ASSUME NEW s, NEW D \in SUBSET Gateways, s \in [D -> GatewayData]
  PROVE  s \in CycleStates
BY DEF CycleStates

LEMMA BooleanEquality ==
  ASSUME NEW x \in BOOLEAN, NEW g, NEW n, x <=> Serves(g, n)
  PROVE  x = Serves(g, n)
BY DEF Serves

LEMMA TouchIs ==
  ASSUME NEW s, NEW n \in Int, NEW m \in Nat, NEW to \in Nat, m <= to, Mid(s, n, m)
  PROVE  Mid(Touch(s, to), n, to)
<1>1. s \in CycleStates
  BY DEF Mid
<1> DEFINE t == Touch(s, to)
<1>2. DOMAIN t = DOMAIN s
  BY DEF Touch
<1>3. ASSUME NEW g \in DOMAIN s
      PROVE  /\ t[g] \in GatewayData /\ t[g].last = to
             /\ t[g].serves = s[g].serves /\ t[g].stakeAt = s[g].stakeAt
  <2>1. t[g] = [s[g] EXCEPT !.last = to]
    BY DEF Touch
  <2>2. s[g] \in GatewayData
    BY <1>1, StateTypes
  <2> HIDE DEF t
  <2> QED BY <2>1, <2>2 DEF GatewayData
<1>4. t \in [DOMAIN s -> GatewayData]
  <2>1. t = [g \in DOMAIN s |-> t[g]]
    BY DEF Touch
  <2> HIDE DEF t
  <2> QED BY <1>2, <1>3, <2>1
<1>5. t \in CycleStates
  <2> HIDE DEF t
  <2> QED BY <1>1, <1>4, StateTypes, IsState
<1>6. \A g \in DOMAIN s : s[g].stakeAt <= to
  BY <1>1, StateTypes DEF Mid
<1> HIDE DEF t
<1>7. Mid(t, n, to)
  BY <1>2, <1>3, <1>5, <1>6 DEF Mid
<1> QED BY <1>7 DEF t

\* Setting whether a gateway serves keeps the rest.
LEMMA SetServes ==
  ASSUME NEW s \in CycleStates, NEW g \in DOMAIN s, NEW on \in BOOLEAN
  PROVE  LET t == [s EXCEPT ![g].serves = on] IN
           /\ t \in CycleStates /\ DOMAIN t = DOMAIN s
           /\ \A h \in DOMAIN s : h # g => t[h] = s[h]
           /\ t[g].last = s[g].last /\ t[g].stakeAt = s[g].stakeAt /\ t[g].serves = on
<1> DEFINE d == [s[g] EXCEPT !.serves = on]
           t == [s EXCEPT ![g] = d]
<1>1. t = [s EXCEPT ![g].serves = on]
  OBVIOUS
<1>2. DOMAIN s \in SUBSET Gateways /\ s \in [DOMAIN s -> GatewayData] /\ s[g] \in GatewayData
  BY StateTypes
<1>3. /\ d \in GatewayData
      /\ d.last = s[g].last /\ d.stakeAt = s[g].stakeAt
  BY <1>2 DEF GatewayData
<1>4. d.serves = on
  BY <1>2 DEF GatewayData
<1> HIDE DEF d
<1>5. t \in [DOMAIN s -> GatewayData] /\ DOMAIN t = DOMAIN s /\ t[g] = d
      /\ \A h \in DOMAIN s : h # g => t[h] = s[h]
  BY <1>2, <1>3
<1> HIDE DEF t
<1>6. t \in CycleStates
  BY <1>2, <1>5, IsState
<1> QED BY <1>1, <1>3, <1>4, <1>5, <1>6

\* One more event applied is the state one block later.
LEMMA ApplyStep ==
  ASSUME ChainInv, NEW n \in Int, n >= -1, n + 1 <= Len(blocks), NEW to \in Nat,
         NEW s, Mid(s, n, to)
  PROVE  Mid(Apply(to, s, EventAt(n + 1)), n + 1, to)
<1> DEFINE e == EventAt(n + 1)
           t == Apply(to, s, e)
           G == e.gateway
           is(kind, g) == e.kind = kind /\ G = g
<1>1. e \in Event \union {NoEvent}
  BY ContractAdvances
<1>2. s \in CycleStates /\ DOMAIN s \in SUBSET Gateways /\ s \in [DOMAIN s -> GatewayData]
  BY StateTypes DEF Mid
<1>3. \A g : /\ Registered(g, n + 1) <=>
                  is("registered", g) \/ (Registered(g, n) /\ ~is("deregistered", g))
             /\ Serves(g, n + 1) <=>
                  \/ is("registered", g) \/ is("chainAdded", g)
                  \/ Serves(g, n) /\ ~is("deregistered", g) /\ ~is("chainRemoved", g)
  BY ContractAdvances DEF IsOf
<1>4. /\ DOMAIN s = {g \in Gateways : Registered(g, n)}
      /\ \A g \in DOMAIN s : /\ s[g].last = to /\ s[g].stakeAt <= to
                             /\ s[g].serves <=> Serves(g, n)
  BY DEF Mid
<1>5. CASE e.kind = "registered"
  <2> DEFINE D == DOMAIN s \union {G}
             new == [last |-> to, serves |-> TRUE, stakeAt |-> 0]
  <2>1. e \in Event /\ G \in Gateways
    <3>1. e # NoEvent
      BY <1>5 DEF NoEvent
    <3> QED BY <1>1, <3>1 DEF Event
  <2>2. t = [h \in D |-> IF h = G THEN new ELSE s[h]]
    BY <1>5 DEF Apply
  <2>3. new \in GatewayData /\ new.last = to /\ new.stakeAt <= to
    BY DEF GatewayData
  <2>4. new.serves
    OBVIOUS
  <2> HIDE DEF new, t
  <2>5. t \in [D -> GatewayData] /\ D \in SUBSET Gateways /\ DOMAIN t = D
    BY <1>2, <2>1, <2>2, <2>3
  <2>6. t \in CycleStates
    BY <2>5, IsState
  <2>7. D = {g \in Gateways : Registered(g, n + 1)}
    <3>1. \A g : Registered(g, n + 1) <=> g = G \/ Registered(g, n)
      BY <1>3, <1>5
    <3> QED BY <1>4, <2>1, <3>1
  <2>8. ASSUME NEW g \in D
        PROVE  t[g].last = to /\ t[g].stakeAt <= to /\ (t[g].serves <=> Serves(g, n + 1))
    <3>1. CASE g = G
      <4>1. t[g] = new
        BY <2>2, <3>1
      <4>2. Serves(g, n + 1)
        BY <1>3, <1>5, <3>1
      <4> QED BY <2>3, <2>4, <4>1, <4>2
    <3>2. CASE g # G
      <4>1. t[g] = s[g] /\ g \in DOMAIN s
        BY <2>2, <3>2
      <4>2. Serves(g, n + 1) <=> Serves(g, n)
        BY <1>3, <3>2
      <4> QED BY <1>4, <4>1, <4>2
    <3> QED BY <3>1, <3>2
  <2> QED BY <2>5, <2>6, <2>7, <2>8 DEF Mid, t
<1>6. CASE e.kind = "deregistered"
  <2> DEFINE D == DOMAIN s \ {G}
  <2>1. t = [h \in D |-> s[h]]
    BY <1>6 DEF Apply
  <2> HIDE DEF t
  <2>2. t \in [D -> GatewayData] /\ D \in SUBSET Gateways /\ DOMAIN t = D
    BY <1>2, <2>1
  <2>3. t \in CycleStates
    BY <2>2, IsState
  <2>4. D = {g \in Gateways : Registered(g, n + 1)}
    <3>1. \A g : Registered(g, n + 1) <=> g # G /\ Registered(g, n)
      BY <1>3, <1>6
    <3> QED BY <1>4, <3>1
  <2>5. ASSUME NEW g \in D
        PROVE  t[g].last = to /\ t[g].stakeAt <= to /\ (t[g].serves <=> Serves(g, n + 1))
    <3>1. t[g] = s[g] /\ g \in DOMAIN s /\ g # G
      BY <2>1
    <3>2. Serves(g, n + 1) <=> Serves(g, n)
      BY <1>3, <3>1
    <3> QED BY <1>4, <3>1, <3>2
  <2> QED BY <2>2, <2>3, <2>4, <2>5 DEF Mid, t
<1>7. CASE e.kind \notin {"registered", "deregistered"}
  <2>1. \A g : Registered(g, n + 1) <=> Registered(g, n)
    BY <1>3, <1>7
  <2>2. DOMAIN s = {g \in Gateways : Registered(g, n + 1)}
    BY <1>4, <2>1
  <2>3. ASSUME NEW on \in BOOLEAN, G \in DOMAIN s, t = [s EXCEPT ![G].serves = on],
               on <=> Serves(G, n + 1)
        PROVE  Mid(t, n + 1, to)
    <3>1. /\ t \in CycleStates /\ DOMAIN t = DOMAIN s
          /\ \A h \in DOMAIN s : h # G => t[h] = s[h]
          /\ t[G].last = s[G].last /\ t[G].stakeAt = s[G].stakeAt /\ t[G].serves = on
      BY <1>2, <2>3, SetServes
    <3>2. \A g : g # G => (Serves(g, n + 1) <=> Serves(g, n))
      BY <1>3
    <3> HIDE DEF t
    <3>3. ASSUME NEW g \in DOMAIN s
          PROVE  t[g].last = to /\ t[g].stakeAt <= to /\ (t[g].serves <=> Serves(g, n + 1))
      <4>1. CASE g = G
        BY <1>4, <2>3, <3>1, <4>1
      <4>2. CASE g # G
        BY <1>4, <3>1, <3>2, <4>2
      <4> QED BY <4>1, <4>2
    <3> QED BY <2>2, <3>1, <3>3 DEF Mid
  <2>4. CASE e.kind = "chainAdded" /\ G \in DOMAIN s
    <3>1. t = [s EXCEPT ![G].serves = TRUE]
      BY <2>4 DEF Apply
    <3>2. Serves(G, n + 1)
      BY <1>3, <2>4
    <3> QED BY <2>3, <2>4, <3>1, <3>2
  <2>5. CASE e.kind = "chainRemoved" /\ G \in DOMAIN s
    <3>1. t = [s EXCEPT ![G].serves = FALSE]
      BY <2>5 DEF Apply
    <3>2. ~Serves(G, n + 1)
      BY <1>3, <2>5
    <3> DEFINE on == FALSE
    <3>3. on \in BOOLEAN /\ t = [s EXCEPT ![G].serves = on] /\ (on <=> Serves(G, n + 1))
      BY <3>1, <3>2
    <3> HIDE DEF on, t
    <3>4. Mid(t, n + 1, to)
      BY <2>3, <2>5, <3>3
    <3> QED BY <3>4 DEF t
  <2>6. CASE G \notin DOMAIN s \/ e.kind \notin {"chainAdded", "chainRemoved"}
    <3>1. t = s
      BY <1>7, <2>6 DEF Apply
    <3>2. \A g \in DOMAIN s : Serves(g, n + 1) <=> Serves(g, n)
      BY <1>3, <1>7, <2>6
    <3> HIDE DEF t
    <3>3. Mid(t, n + 1, to)
      BY <1>2, <1>4, <2>2, <3>1, <3>2 DEF Mid
    <3> QED BY <3>3 DEF t
  <2>7. \/ e.kind = "chainAdded" /\ G \in DOMAIN s
        \/ e.kind = "chainRemoved" /\ G \in DOMAIN s
        \/ G \notin DOMAIN s \/ e.kind \notin {"chainAdded", "chainRemoved"}
    OBVIOUS
  <2> QED BY <2>4, <2>5, <2>6, <2>7, Zenon
<1> QED BY <1>5, <1>6, <1>7

LEMMA EmptyState ==
  ASSUME NEW s \in CycleStates
  PROVE  s = <<>> <=> DOMAIN s = {}
<1>1. s \in [DOMAIN s -> GatewayData]
  BY StateTypes
<1>2. s = <<>> => DOMAIN s = {}
  OBVIOUS
<1>3. ASSUME DOMAIN s = {} PROVE s = <<>>
  <2>1. s \in [1..0 -> GatewayData]
    <3>1. 1..0 = {}
      OBVIOUS
    <3> QED BY <1>1, <1>3, <3>1
  <2>2. s \in Seq(GatewayData) /\ Len(s) = 0
    BY <2>1
  <2> QED BY <2>2
<1> QED BY <1>2, <1>3

LEMMA TouchType ==
  ASSUME NEW s \in CycleStates, NEW to \in Nat
  PROVE  Touch(s, to) \in CycleStates
<1> DEFINE t == Touch(s, to)
<1>1. \A g \in DOMAIN s : s[g] \in GatewayData
  BY StateTypes
<1>2. \A g \in DOMAIN s : [s[g] EXCEPT !.last = to] \in GatewayData
  BY <1>1 DEF GatewayData
<1>3. t = [g \in DOMAIN s |-> [s[g] EXCEPT !.last = to]]
  BY DEF Touch
<1> HIDE DEF t
<1>4. t \in [DOMAIN s -> GatewayData]
  BY <1>2, <1>3
<1>5. t \in CycleStates
  BY <1>4, StateTypes, IsState
<1> QED BY <1>5 DEF t

LEMMA EventType ==
  ASSUME ChainInv, NEW b
  PROVE  EventAt(b) \in Event \union {NoEvent}
BY BlockTypes DEF EventAt, ChainInv

LEMMA ApplyType ==
  ASSUME NEW s \in CycleStates, NEW e \in Event \union {NoEvent}, NEW to \in Nat
  PROVE  Apply(to, s, e) \in CycleStates
<1> DEFINE t == Apply(to, s, e)
           G == e.gateway
<1>1. DOMAIN s \in SUBSET Gateways /\ s \in [DOMAIN s -> GatewayData]
  BY StateTypes
<1>2. CASE e.kind = "registered"
  <2> DEFINE D == DOMAIN s \union {G}
             new == [last |-> to, serves |-> TRUE, stakeAt |-> 0]
  <2>1. e \in Event /\ G \in Gateways
    <3>1. e # NoEvent
      BY <1>2 DEF NoEvent
    <3> QED BY <3>1 DEF Event
  <2>2. t = [h \in D |-> IF h = G THEN new ELSE s[h]]
    BY <1>2 DEF Apply
  <2>3. new \in GatewayData
    BY DEF GatewayData
  <2> HIDE DEF new, t
  <2>4. t \in [D -> GatewayData] /\ D \in SUBSET Gateways
    BY <1>1, <2>1, <2>2, <2>3
  <2>5. t \in CycleStates
    BY <2>4, IsState
  <2> QED BY <2>5 DEF t
<1>3. CASE e.kind = "deregistered"
  <2> DEFINE D == DOMAIN s \ {G}
  <2>1. t = [h \in D |-> s[h]]
    BY <1>3 DEF Apply
  <2> HIDE DEF t
  <2>2. t \in [D -> GatewayData] /\ D \in SUBSET Gateways
    BY <1>1, <2>1
  <2>3. t \in CycleStates
    BY <2>2, IsState
  <2> QED BY <2>3 DEF t
<1>4. CASE e.kind = "chainAdded" /\ G \in DOMAIN s
  <2>1. t = [s EXCEPT ![G].serves = TRUE]
    BY <1>4 DEF Apply
  <2>2. [s EXCEPT ![G].serves = TRUE] \in CycleStates
    BY <1>4, SetServes
  <2> QED BY <2>1, <2>2
<1>5. CASE e.kind = "chainRemoved" /\ G \in DOMAIN s
  <2> DEFINE on == FALSE
  <2>1. t = [s EXCEPT ![G].serves = on] /\ on \in BOOLEAN
    BY <1>5 DEF Apply
  <2> HIDE DEF t, on
  <2>2. t \in CycleStates
    BY <1>5, <2>1, SetServes
  <2> QED BY <2>2 DEF t
<1>6. CASE /\ e.kind \notin {"registered", "deregistered"}
           /\ G \notin DOMAIN s \/ e.kind \notin {"chainAdded", "chainRemoved"}
  <2>1. t = s
    BY <1>6 DEF Apply
  <2> QED BY <2>1
<1> QED BY <1>2, <1>3, <1>4, <1>5, <1>6

\* The logs are applied one after the other.
LEMMA ProcessedSteps ==
  ASSUME ChainInv, NEW base \in CycleStates, NEW from \in Nat, NEW to \in Nat, from <= to
  PROVE  \E f : /\ f[0] = Touch(base, to) /\ f[to - from + 1] = Processed(base, from, to)
                /\ \A i \in 1..(to - from + 1) :
                     f[i] = Apply(to, f[i - 1], EventAt(from + i - 1))
<1> DEFINE n == to - from + 1
           logs == Logs(from, to)
           first == Touch(base, to)
           step == [p \in CycleStates \X (1..n) |-> Apply(to, p[1], logs[p[2]])]
           Solution(it) == it = [s \in SUBSET DOMAIN logs |->
                                   IF s = {} THEN first
                                   ELSE Apply(to, it[s \ {Max(s)}], logs[Max(s)])]
           chosen == CHOOSE it : Solution(it)
<1>1. Processed(base, from, to) = chosen[DOMAIN logs]
  BY Zenon DEF Processed, FoldLeft, MapThenFoldSet
<1>2. n \in Nat /\ n >= 1
  OBVIOUS
<1>3. DOMAIN logs = 1..n /\ \A i \in 1..n : logs[i] = EventAt(from + i - 1)
  BY DEF Logs
<1>4. first \in CycleStates
  BY TouchType
<1>5. step \in [CycleStates \X (1..n) -> CycleStates]
  <2>1. ASSUME NEW p \in CycleStates \X (1..n) PROVE Apply(to, p[1], logs[p[2]]) \in CycleStates
    <3>1. p[1] \in CycleStates /\ p[2] \in 1..n
      BY <2>1
    <3>2. logs[p[2]] \in Event \union {NoEvent}
      <4> HIDE DEF n, logs
      <4> QED BY <1>3, <3>1, EventType
    <3> HIDE DEF logs, n
    <3> QED BY <3>1, <3>2, ApplyType
  <2> HIDE DEF n, logs
  <2> QED BY <2>1
<1>6. \A s \in CycleStates, i \in 1..n : step[<<s, i>>] = Apply(to, s, logs[i])
  <2> HIDE DEF n, logs
  <2> QED OBVIOUS
<1>7. PICK it \in [SUBSET (1..n) -> CycleStates] : Iterates(it, first, step, n)
  <2> HIDE DEF n, first, step
  <2> QED BY <1>2, <1>4, <1>5, Iteration
<1>8. Solution(it)
  <2>1. it = [s \in SUBSET (1..n) |->
                IF s = {} THEN first ELSE step[<<it[s \ {Max(s)}], Max(s)>>]]
    BY <1>7, Zenon DEF Iterates
  <2>2. ASSUME NEW s \in SUBSET (1..n), s # {}
        PROVE  step[<<it[s \ {Max(s)}], Max(s)>>] = Apply(to, it[s \ {Max(s)}], logs[Max(s)])
    <3> HIDE DEF n, step, logs
    <3>1. Max(s) \in s
      BY <1>2, <2>2, MaxIs
    <3>2. Max(s) \in 1..n /\ s \ {Max(s)} \in SUBSET (1..n)
      BY <3>1
    <3>3. it[s \ {Max(s)}] \in CycleStates
      BY <1>7, <3>2
    <3> QED BY <1>6, <3>2, <3>3
  <2> HIDE DEF n, step, logs, first
  <2> QED BY <1>3, <2>1, <2>2, Zenon
<1>9. Solution(chosen)
  <2> HIDE DEF Solution
  <2> QED BY <1>8
<1> DEFINE f == [i \in 0..n |-> chosen[1..i]]
<1>10. \A s \in SUBSET (1..n) :
         chosen[s] = IF s = {} THEN first ELSE Apply(to, chosen[s \ {Max(s)}], logs[Max(s)])
  <2> HIDE DEF chosen, first, logs, n
  <2> QED BY <1>3, <1>9, Zenon
<1> HIDE DEF chosen
<1>11. f[0] = first
  <2>1. 1..0 = {} /\ f[0] = chosen[1..0] /\ 1..0 \in SUBSET (1..n)
    BY <1>2
  <2> HIDE DEF f, first
  <2> QED BY <1>10, <2>1
<1>12. f[n] = Processed(base, from, to)
  <2>1. f[n] = chosen[1..n]
    BY <1>2
  <2> HIDE DEF f, logs, n
  <2> QED BY <1>1, <1>3, <2>1
<1>13. ASSUME NEW i \in 1..n PROVE f[i] = Apply(to, f[i - 1], EventAt(from + i - 1))
  <2>0. i \in Nat /\ i >= 1 /\ i <= n
    BY <1>2
  <2>1. 1..i \in SUBSET (1..n) /\ 1..i # {}
    <3> HIDE DEF n
    <3>1. i \in 1..i /\ \A j \in 1..i : j \in 1..n
      BY <1>2, <2>0
    <3> QED BY <3>1
  <2>2. Max(1..i) = i /\ (1..i) \ {i} = 1..(i - 1)
    BY <2>0, MaxOfInterval
  <2>3. chosen[1..i] = Apply(to, chosen[1..(i - 1)], logs[i])
    <3> HIDE DEF logs, first, n
    <3> QED BY <1>10, <2>1, <2>2, Zenon
  <2>4. f[i] = chosen[1..i] /\ f[i - 1] = chosen[1..(i - 1)]
    BY <1>2
  <2>5. logs[i] = EventAt(from + i - 1)
    BY <1>3
  <2> HIDE DEF f, logs
  <2> QED BY <2>3, <2>4, <2>5
<1> HIDE DEF f
<1> QED BY <1>11, <1>12, <1>13

\* Between two blocks no event is lost, repeated or put off.
LEMMA ProcessedIs ==
  ASSUME ChainInv, NEW from \in Nat, NEW m \in Nat, NEW to \in Nat, from <= to, m <= to,
         to <= Len(blocks), NEW base, Mid(base, from - 1, m)
  PROVE  Mid(Processed(base, from, to), to, to)
<1> DEFINE n == to - from + 1
<1>0. base \in CycleStates /\ n \in Nat
  BY DEF Mid
<1>1. PICK f : /\ f[0] = Touch(base, to) /\ f[n] = Processed(base, from, to)
               /\ \A i \in 1..n : f[i] = Apply(to, f[i - 1], EventAt(from + i - 1))
  BY <1>0, ProcessedSteps
<1> DEFINE B == {i \in Nat : i <= n => Mid(f[i], from + i - 1, to)}
<1>2. 0 \in B
  <2>1. Mid(f[0], from - 1, to)
    BY <1>1, TouchIs
  <2>2. from + 0 - 1 = from - 1
    OBVIOUS
  <2> QED BY <2>1, <2>2
<1>3. ASSUME NEW i \in Nat, i \in B PROVE i + 1 \in B
  <2> SUFFICES ASSUME i + 1 <= n PROVE Mid(f[i + 1], from + (i + 1) - 1, to)
    OBVIOUS
  <2> DEFINE k == from + i - 1
  <2>1. Mid(f[i], k, to)
    BY <1>3
  <2>2. f[i + 1] = Apply(to, f[i], EventAt(k + 1))
    <3>1. i + 1 \in 1..n /\ (i + 1) - 1 = i /\ from + (i + 1) - 1 = k + 1
      BY <1>0
    <3> HIDE DEF n, k
    <3> QED BY <1>1, <3>1
  <2>3. k \in Int /\ k >= -1 /\ k + 1 <= Len(blocks) /\ from + (i + 1) - 1 = k + 1
    BY DEF ChainInv
  <2> HIDE DEF k
  <2> QED BY <2>1, <2>2, <2>3, ApplyStep
<1>4. n \in B
  <2> HIDE DEF B
  <2> QED BY <1>0, <1>2, <1>3, Induction
<1>5. from + n - 1 = to
  OBVIOUS
<1> QED BY <1>1, <1>4, <1>5

LEMMA StakesIs ==
  ASSUME NEW s, NEW to \in Nat, NEW failed, Mid(s, to, to)
  PROVE  /\ Mid(Stakes(s, to, failed), to, to)
         /\ failed = {} => \A g \in DOMAIN Stakes(s, to, failed) :
                             Stakes(s, to, failed)[g].stakeAt = to
<1> DEFINE t == Stakes(s, to, failed)
<1>1. s \in CycleStates
  BY DEF Mid
<1>2. DOMAIN t = DOMAIN s
  BY DEF Stakes
<1>3. ASSUME NEW g \in DOMAIN s
      PROVE  /\ t[g] \in GatewayData /\ t[g].last = s[g].last
             /\ t[g].stakeAt \in {s[g].stakeAt, to} /\ (failed = {} => t[g].stakeAt = to)
  <2>1. s[g] \in GatewayData
    BY <1>1, StateTypes
  <2> DEFINE d == [s[g] EXCEPT !.stakeAt = to]
  <2>2. d \in GatewayData /\ d.last = s[g].last /\ d.stakeAt = to
    BY <2>1 DEF GatewayData
  <2>3. t[g] = IF g \in failed THEN s[g] ELSE d
    BY DEF Stakes
  <2> HIDE DEF t, d
  <2> QED BY <2>1, <2>2, <2>3
<1>4. ASSUME NEW g \in DOMAIN s PROVE t[g].serves <=> s[g].serves
  <2>1. s[g] \in GatewayData
    BY <1>1, StateTypes
  <2>2. [s[g] EXCEPT !.stakeAt = to].serves <=> s[g].serves
    BY <2>1 DEF GatewayData
  <2>3. CASE g \in failed
    BY <2>3 DEF Stakes
  <2>4. CASE g \notin failed
    BY <2>2, <2>4 DEF Stakes
  <2> QED BY <2>3, <2>4
<1>5. t \in [DOMAIN s -> GatewayData]
  <2>1. t = [g \in DOMAIN s |-> t[g]]
    BY DEF Stakes
  <2> HIDE DEF t
  <2> QED BY <1>3, <2>1
<1>6. t \in CycleStates
  <2> HIDE DEF t
  <2> QED BY <1>1, <1>5, StateTypes, IsState
<1> HIDE DEF t
<1>7. Mid(t, to, to)
  BY <1>2, <1>3, <1>4, <1>6 DEF Mid
<1> QED BY <1>2, <1>3, <1>7 DEF t

\* No gateway is registered before the first block.
LEMMA NothingYet ==
  ASSUME NEW n \in Int, n <= 0, NEW m
  PROVE  Mid(<<>>, n, m)
<1>1. 1..n = {}
  OBVIOUS
<1>2. \A g : ~Registered(g, n)
  BY <1>1 DEF Registered
<1>3. DOMAIN <<>> = {}
  OBVIOUS
<1> DEFINE e == <<>>
<1>4. e \in CycleStates
  <2>1. e \in [{} -> GatewayData]
    <3>1. 1..0 = {} /\ e \in [1..0 -> GatewayData]
      OBVIOUS
    <3> QED BY <3>1
  <2> HIDE DEF e
  <2> QED BY <2>1, IsState
<1> QED BY <1>2, <1>3, <1>4 DEF Mid

\* The next block to read is the one after the block of the state.
LEMMA FromBlockIs ==
  ASSUME NEW s, NEW n, s # <<>>, Mid(s, n, n)
  PROVE  FromBlock(s) = n + 1
<1>1. s \in CycleStates /\ DOMAIN s \in SUBSET Gateways /\ DOMAIN s # {}
  BY StateTypes, EmptyState DEF Mid
<1>2. DOMAIN s \in SUBSET Nat
  BY <1>1, EpochAssumption
<1>3. \E g \in DOMAIN s : \A h \in DOMAIN s : g <= h
  <2> DEFINE D == DOMAIN s
  <2> HIDE DEF D
  <2>1. D \in SUBSET Nat /\ D # {}
    BY <1>1, <1>2 DEF D
  <2>2. \E g \in D : \A h \in D : g <= h
    BY <2>1, Least
  <2> QED BY <2>2 DEF D
<1> DEFINE g == CHOOSE g \in DOMAIN s : \A h \in DOMAIN s : g <= h
<1>4. g \in DOMAIN s
  BY <1>3, Zenon
<1>5. FromBlock(s) = s[g].last + 1
  BY Zenon DEF FromBlock
<1> HIDE DEF g
<1> QED BY <1>4, <1>5 DEF Mid

\* Every state is that of one block, and, until a call fails, of the last block or the
\* last but one before its cycle, with the stakes of that block.
StateOf(c, n) ==
  /\ Mid(states[c], n, n)
  /\ ~faulted => /\ ChainReached(c) /\ n >= Before(c) - 1
                 /\ \A g \in DOMAIN states[c] : states[c][g].stakeAt = n
StateInv == \A c \in DOMAIN states : \E n \in 0..Before(c) : StateOf(c, n)

\* What the cycle's state is built from: an older one, or nothing.
LEMMA BaseIs ==
  ASSUME LoopInv, ChainInv, StateInv, NEW c \in Cycles
  PROVE  \/ Base(c) = <<>>
         \/ /\ Base(c) # <<>>
            /\ \E n \in 0..Before(c) :
                 /\ Mid(Base(c), n, n)
                 /\ ~faulted => \A g \in DOMAIN Base(c) : Base(c)[g].stakeAt = n
<1> SUFFICES ASSUME Base(c) # <<>>
             PROVE  \E n \in 0..Before(c) :
                      /\ Mid(Base(c), n, n)
                      /\ ~faulted => \A g \in DOMAIN Base(c) : Base(c)[g].stakeAt = n
  OBVIOUS
<1>1. Candidates(c) # {} /\ Base(c) = states[CHOOSE d \in Candidates(c) : TRUE]
  BY DEF Base
<1> DEFINE d == CHOOSE d \in Candidates(c) : TRUE
<1>2. d \in Candidates(c)
  BY <1>1
<1>3. Candidates(c) \subseteq Older(c)
  BY DEF Candidates
<1>4. Base(c) = states[d]
  BY <1>1
<1> HIDE DEF d
<1>5. d \in DOMAIN states /\ d < c
  BY <1>2, <1>3 DEF Older
<1>6. d \in Int /\ c \in Int
  BY <1>5 DEF LoopInv, Cycles
<1>7. Before(d) <= Before(c) /\ Before(d) \in Int /\ Before(c) \in Int
  <2>1. Before(d) \in 0..Len(blocks) /\ Before(c) \in 0..Len(blocks)
    BY <1>6, BeforeIs
  <2>2. Before(d) <= Before(c)
    BY <1>5, <1>6, BeforeMonotone
  <2> DEFINE p == Before(d)
             q == Before(c)
  <2> HIDE DEF p, q
  <2>3. p \in Int /\ q \in Int
    BY <2>1 DEF p, q
  <2> QED BY <2>2, <2>3 DEF p, q
<1>8. PICK n \in 0..Before(d) : /\ Mid(states[d], n, n)
                                /\ ~faulted => \A g \in DOMAIN states[d] : states[d][g].stakeAt = n
  BY <1>5 DEF StateInv, StateOf
<1>9. n \in 0..Before(c)
  <2> DEFINE p == Before(d)
             q == Before(c)
  <2>1. p <= q /\ p \in Int /\ q \in Int /\ n \in 0..p
    BY <1>7, <1>8
  <2> HIDE DEF p, q
  <2>2. n \in 0..q
    BY <2>1
  <2> QED BY <2>2 DEF q
<1> QED BY <1>4, <1>8, <1>9

LEMMA NewStateIs ==
  ASSUME LoopInv, ChainInv, StateInv, cycle \in Cycles, NEW failed
  PROVE  LET s == NewState(Before(cycle), failed) IN
           \E n \in 0..Before(cycle) :
             /\ Mid(s, n, n) /\ (s = Base(cycle) \/ n = Before(cycle))
             /\ ~faulted /\ failed = {} =>
                  n >= Before(cycle) - 1 /\ \A g \in DOMAIN s : s[g].stakeAt = n
<1> DEFINE to == Before(cycle)
           base == Base(cycle)
           from == FromBlock(base)
           s == NewState(to, failed)
<1>1. to \in Nat /\ to >= 1 /\ to <= Len(blocks)
  <2>1. cycle \in Int /\ cycle >= 1
    BY DEF Cycles
  <2>2. to \in 0..Len(blocks) /\ to >= 1
    BY <2>1, BeforeIs
  <2> HIDE DEF to
  <2> QED BY <2>2
<1>2. ASSUME NEW n \in Int, from = n + 1, n >= -1, n <= to, NEW m \in Nat, m <= to, Mid(base, n, m),
             ~NothingNew(from, to)
      PROVE  \E k \in 0..to : /\ Mid(s, k, k) /\ (s = base \/ k = to)
                              /\ ~faulted /\ failed = {} =>
                                   k >= to - 1 /\ \A g \in DOMAIN s : s[g].stakeAt = k
  <2>1. s = Stakes(Processed(base, from, to), to, failed)
    BY <1>2 DEF NewState
  <2> HIDE DEF to, base, from, s
  <2>2. from \in Nat /\ from <= to /\ n = from - 1
    BY <1>1, <1>2 DEF NothingNew
  <2>3. Mid(Processed(base, from, to), to, to)
    BY <1>1, <1>2, <2>2, ProcessedIs
  <2>4. Mid(s, to, to) /\ (failed = {} => \A g \in DOMAIN s : s[g].stakeAt = to)
    BY <1>1, <2>1, <2>3, StakesIs
  <2>5. to \in 0..to /\ to >= to - 1
    BY <1>1
  <2> QED BY <2>4, <2>5
<1>3. CASE base = <<>>
  <2>1. from = 0
    BY <1>3 DEF FromBlock
  <2>2. Mid(base, -1, 0)
    BY <1>3, NothingYet
  <2> HIDE DEF base, from, to, s
  <2>3. ~NothingNew(from, to)
    BY <1>1, <2>1 DEF NothingNew
  <2> QED BY <1>1, <1>2, <2>1, <2>2, <2>3 DEF to, s, base
<1>4. CASE base # <<>>
  <2>1. PICK n \in 0..to : /\ Mid(base, n, n)
                           /\ ~faulted => \A g \in DOMAIN base : base[g].stakeAt = n
    BY <1>4, BaseIs
  <2>2. from = n + 1
    BY <1>4, <2>1, FromBlockIs
  <2>3. CASE NothingNew(from, to)
    <3>1. s = base
      BY <2>3 DEF NewState
    <3> HIDE DEF base, from, to, s
    <3>2. n >= to - 1
      BY <1>1, <2>1, <2>2, <2>3 DEF NothingNew
    <3> QED BY <2>1, <3>1, <3>2 DEF to, s, base
  <2>4. CASE ~NothingNew(from, to)
    <3> HIDE DEF base, from, to, s
    <3>1. n \in Int /\ n \in Nat /\ n >= -1 /\ n <= to
      BY <1>1, <2>1
    <3> QED BY <1>2, <2>1, <2>2, <2>4, <3>1 DEF to, s, base
  <2> QED BY <2>3, <2>4
<1> QED BY <1>3, <1>4

EpochInv == LoopInv /\ ChainInv /\ StateInv

\* A state and the events it comes from are the same after the step.
StateKept(c) ==
  /\ states'[c] = states[c]
  /\ Before(c)' >= Before(c) /\ (ChainReached(c) => ChainReached(c)' /\ Before(c)' = Before(c))
  /\ faulted => faulted'

LEMMA KeptState ==
  ASSUME ChainInv, ChainInv', NEW c \in DOMAIN states, c \in Int, StateKept(c),
         NEW n \in 0..Before(c), StateOf(c, n),
         \A m \in Int : m <= Len(blocks) =>
           \A g : (Registered(g, m)' <=> Registered(g, m)) /\ (Serves(g, m)' <=> Serves(g, m))
  PROVE  n \in 0..Before(c)' /\ StateOf(c, n)'
<1> DEFINE p == Before(c)
           q == Before(c)'
<1>1. p \in 0..Len(blocks) /\ n \in 0..p /\ q >= p
  BY BeforeIs DEF StateKept
<1>2. q \in Int
  <2>1. blocks' \in Seq(Block) /\ Sorted(blocks')
    BY DEF ChainInv, Sorted
  <2>2. q = CountBefore(blocks', c)
    BY DEF Before, CountBefore
  <2> HIDE DEF q
  <2> QED BY <2>1, <2>2, CountBeforeIs
<1> HIDE DEF p, q
<1>3. n \in 0..q /\ n \in Int /\ n <= Len(blocks)
  BY <1>1, <1>2 DEF ChainInv
<1>4. Mid(states[c], n, n)'
  BY <1>3 DEF Mid, StateKept, StateOf
<1>5. ~faulted' => /\ ChainReached(c)' /\ n >= q - 1
                   /\ \A g \in DOMAIN states'[c] : states'[c][g].stakeAt = n
  BY DEF StateKept, StateOf, p, q
<1>6. StateOf(c, n)'
  BY <1>4, <1>5 DEF StateOf, q
<1> QED BY <1>3, <1>6 DEF q

LEMMA ContractUnchanged ==
  ASSUME blocks' = blocks
  PROVE  \A m, g : (Registered(g, m)' <=> Registered(g, m)) /\ (Serves(g, m)' <=> Serves(g, m))
BY DEF Registered, Serves, IsEvent

LEMMA BeforeUnchanged ==
  ASSUME blocks' = blocks, NEW c
  PROVE  Before(c)' = Before(c) /\ (ChainReached(c)' <=> ChainReached(c))
BY DEF Before, ChainReached, LastStamp

\* Steps that keep the chain, or add a block to it, and add no state.
LEMMA StatesKept ==
  ASSUME EpochInv, ChainInv', \A c \in DOMAIN states' : c \in DOMAIN states /\ states'[c] = states[c],
         faulted' = faulted,
         blocks' = blocks \/ \E b : blocks' = Append(blocks, b)
  PROVE  StateInv'
<1> SUFFICES ASSUME NEW c \in DOMAIN states'
             PROVE  \E n \in 0..Before(c)' : StateOf(c, n)'
  BY DEF StateInv
<1>1. c \in DOMAIN states /\ c \in Int /\ states'[c] = states[c]
  BY DEF EpochInv, LoopInv, Cycles
<1>2. PICK n \in 0..Before(c) : StateOf(c, n)
  BY <1>1 DEF EpochInv, StateInv
<1>3. CASE blocks' = blocks
  <2>1. Before(c)' = Before(c) /\ (ChainReached(c)' <=> ChainReached(c))
    BY <1>3, BeforeUnchanged
  <2>2. Before(c) \in Int
    <3>1. Before(c) \in 0..Len(blocks)
      BY <1>1, BeforeIs DEF EpochInv
    <3> DEFINE p == Before(c)
    <3> HIDE DEF p
    <3>2. p \in Int
      BY <3>1 DEF p
    <3> QED BY <3>2 DEF p
  <2>3. StateKept(c)
    BY <1>1, <2>1, <2>2 DEF StateKept
  <2>4. \A m \in Int : m <= Len(blocks) =>
          \A g : (Registered(g, m)' <=> Registered(g, m)) /\ (Serves(g, m)' <=> Serves(g, m))
    BY <1>3, ContractUnchanged
  <2>5. n \in 0..Before(c)' /\ StateOf(c, n)'
    BY <1>1, <1>2, <2>3, <2>4, KeptState DEF EpochInv
  <2> QED BY <2>5
<1>4. ASSUME NEW b, blocks' = Append(blocks, b)
      PROVE  \E k \in 0..Before(c)' : StateOf(c, k)'
  <2>1. Before(c)' >= Before(c) /\ (ChainReached(c) => Before(c)' = Before(c))
    BY <1>1, <1>4, BeforeAfterMine DEF EpochInv
  <2>2. ChainReached(c) => ChainReached(c)'
    <3> SUFFICES ASSUME ChainReached(c) PROVE ChainReached(c)'
      OBVIOUS
    <3>1. Len(blocks') = Len(blocks) + 1 /\ Len(blocks) \in 1..Len(blocks')
          /\ DOMAIN blocks' = 1..Len(blocks') /\ blocks'[Len(blocks)] = blocks[Len(blocks)]
      BY <1>4, EpochAssumption DEF EpochInv, ChainInv, Blocks
    <3>2. blocks'[Len(blocks)].cycle <= blocks'[Len(blocks')].cycle
      <4>1. Len(blocks') \in DOMAIN blocks' /\ Len(blocks) \in DOMAIN blocks'
            /\ Len(blocks) <= Len(blocks')
        BY <3>1
      <4> QED BY <4>1 DEF ChainInv, Sorted
    <3>3. blocks'[Len(blocks)].cycle \in Int /\ blocks'[Len(blocks')].cycle \in Int
      <4>1. blocks' \in Seq(Block) /\ Len(blocks) \in DOMAIN blocks' /\ Len(blocks') \in DOMAIN blocks'
        BY <3>1 DEF ChainInv
      <4> QED BY <4>1, BlockTypes
    <3>4. blocks[Len(blocks)].cycle >= c
      BY DEF ChainReached, LastStamp
    <3> QED BY <1>1, <3>1, <3>2, <3>3, <3>4 DEF ChainReached, LastStamp
  <2>3. StateKept(c)
    BY <1>1, <2>1, <2>2 DEF StateKept
  <2>4. \A m \in Int : m <= Len(blocks) =>
          \A g : (Registered(g, m)' <=> Registered(g, m)) /\ (Serves(g, m)' <=> Serves(g, m))
    BY <1>4, ContractStays DEF EpochInv
  <2>5. n \in 0..Before(c)' /\ StateOf(c, n)'
    BY <1>1, <1>2, <2>3, <2>4, KeptState DEF EpochInv
  <2> QED BY <2>5
<1> QED BY <1>3, <1>4

\* A new state is that of the cycle: the search has waited for the block that ends it.
LEMMA GeneratedState == EpochInv /\ ChainInv' /\ Generate => StateInv'
<1> SUFFICES ASSUME EpochInv, ChainInv', Generate PROVE StateInv'
  OBVIOUS
<1>0. faulted => faulted'
  BY DEF Generate
<1>1. UNCHANGED blocks /\ pc = "generate" /\ cycle \in Cycles /\ cycle \in Int /\ cycle >= 1
  BY GenerateChanges DEF EpochInv, LoopInv, Cycles
<1>2. \A m, g : (Registered(g, m)' <=> Registered(g, m)) /\ (Serves(g, m)' <=> Serves(g, m))
  BY <1>1, ContractUnchanged
<1>3. \A c : Before(c)' = Before(c) /\ (ChainReached(c)' <=> ChainReached(c))
  BY <1>1, BeforeUnchanged
<1>4. ASSUME NEW c \in DOMAIN states, states'[c] = states[c]
      PROVE  \E n \in 0..Before(c)' : StateOf(c, n)'
  <2>1. PICK n \in 0..Before(c) : StateOf(c, n)
    BY DEF EpochInv, StateInv
  <2>2. Mid(states[c], n, n)'
    BY <1>2, <1>4, <2>1 DEF StateOf, Mid
  <2>3. StateOf(c, n)'
    BY <1>0, <1>3, <1>4, <2>1, <2>2 DEF StateOf
  <2> QED BY <1>3, <2>1, <2>3
<1>5. ASSUME NEW s, Publish(s), NEW n \in 0..Before(cycle), Mid(s, n, n),
             ~faulted' => /\ ChainReached(cycle) /\ n >= Before(cycle) - 1
                          /\ \A g \in DOMAIN s : s[g].stakeAt = n
      PROVE  StateInv'
  <2>1. PICK c : c = cycle
    OBVIOUS
  <2>2. /\ DOMAIN states' = DOMAIN states \union {c} /\ states'[c] = s
        /\ \A d \in DOMAIN states : d # c => states'[d] = states[d]
    BY <1>5, <2>1 DEF Publish
  <2>3. Mid(states[c], n, n)'
    BY <1>2, <1>5, <2>2 DEF Mid
  <2>4. n \in 0..Before(c)' /\ StateOf(c, n)'
    BY <1>3, <1>5, <2>1, <2>2, <2>3 DEF StateOf
  <2>5. \A d \in DOMAIN states' : \E k \in 0..Before(d)' : StateOf(d, k)'
    BY <1>4, <2>2, <2>4
  <2> QED BY <2>5 DEF StateInv
<1>6. Before(cycle) # 0 /\ 0 \in 0..Before(cycle)
  <2>1. Before(cycle) \in 0..Len(blocks) /\ Before(cycle) >= 1
    BY <1>1, BeforeIs DEF EpochInv
  <2> DEFINE p == Before(cycle)
  <2> HIDE DEF p
  <2>2. p # 0 /\ 0 \in 0..p
    BY <2>1 DEF p
  <2> QED BY <2>2 DEF p
<1>7. ASSUME NEW failed, ChainReached(cycle), Publish(NewState(Before(cycle), failed)),
             faulted' = (faulted \/ failed # {})
      PROVE  StateInv'
  <2> DEFINE s == NewState(Before(cycle), failed)
  <2>1. PICK n \in 0..Before(cycle) :
           /\ Mid(s, n, n)
           /\ ~faulted /\ failed = {} =>
                n >= Before(cycle) - 1 /\ \A g \in DOMAIN s : s[g].stakeAt = n
    BY <1>1, NewStateIs DEF EpochInv
  <2> HIDE DEF s
  <2>2. Publish(s)
    BY <1>7 DEF s
  <2>3. ~faulted' => ~faulted /\ failed = {}
    BY <1>7
  <2> QED BY <1>5, <1>7, <2>1, <2>2, <2>3
<1>8. ASSUME faulted' = TRUE, Publish(Base(cycle)) PROVE StateInv'
  <2> DEFINE s == Base(cycle)
  <2>1. \E n \in 0..Before(cycle) : Mid(s, n, n)
    <3>1. CASE s = <<>>
      BY <1>6, <3>1, NothingYet
    <3>2. CASE s # <<>>
      BY <1>1, <3>2, BaseIs DEF EpochInv
    <3> QED BY <3>1, <3>2
  <2> HIDE DEF s
  <2>2. Publish(s)
    BY <1>8 DEF s
  <2> QED BY <1>5, <1>8, <2>1, <2>2
<1>9. ASSUME faulted' = TRUE, states' = states PROVE StateInv'
  <2>1. \A d \in DOMAIN states' : \E k \in 0..Before(d)' : StateOf(d, k)'
    BY <1>4, <1>9
  <2> QED BY <2>1 DEF StateInv
<1>10. \/ \E failed : /\ ChainReached(cycle) /\ Publish(NewState(Before(cycle), failed))
                      /\ faulted' = (faulted \/ failed # {})
       \/ Before(cycle) = 0
       \/ faulted' = TRUE /\ Publish(Base(cycle))
       \/ faulted' = TRUE /\ states' = states
  BY DEF Generate
<1> QED BY <1>6, <1>7, <1>8, <1>9, <1>10, Zenon

LEMMA EpochStep == EpochInv /\ [Next]_vars => EpochInv'
<1> SUFFICES ASSUME EpochInv, [Next]_vars PROVE EpochInv'
  OBVIOUS
<1>1. LoopInv' /\ ChainInv'
  BY LoopStep, ChainStep DEF EpochInv
<1>2. CASE Generate
  BY <1>1, <1>2, GeneratedState DEF EpochInv
<1>3. CASE UNCHANGED vars
  <2>1. /\ \A c \in DOMAIN states' : c \in DOMAIN states /\ states'[c] = states[c]
        /\ faulted' = faulted /\ blocks' = blocks
    BY <1>3 DEF vars, chainVars
  <2> QED BY <1>1, <2>1, StatesKept DEF EpochInv
<1>4. CASE Tick
  <2>1. /\ \A c \in DOMAIN states' : c \in DOMAIN states /\ states'[c] = states[c]
        /\ faulted' = faulted /\ blocks' = blocks
    BY <1>4 DEF Tick
  <2> QED BY <1>1, <2>1, StatesKept DEF EpochInv
<1>5. CASE Mine
  <2>1. /\ \A c \in DOMAIN states' : c \in DOMAIN states /\ states'[c] = states[c]
        /\ faulted' = faulted /\ \E b : blocks' = Append(blocks, b)
    BY <1>5, MineChanges DEF EpochInv
  <2> QED BY <1>1, <2>1, StatesKept DEF EpochInv
<1>6. CASE Pick \/ InitDone \/ Interval \/ Callback \/ Check
  <2>1. /\ \A c \in DOMAIN states' : c \in DOMAIN states /\ states'[c] = states[c]
        /\ faulted' = faulted /\ blocks' = blocks
    BY <1>6 DEF Pick, InitDone, Interval, Callback, Check, chainVars
  <2> QED BY <1>1, <2>1, StatesKept DEF EpochInv
<1>7. CASE Prune
  <2>1. /\ \A c \in DOMAIN states' : c \in DOMAIN states /\ states'[c] = states[c]
        /\ faulted' = faulted /\ blocks' = blocks
    BY <1>7 DEF Prune, chainVars
  <2> QED BY <1>1, <2>1, StatesKept DEF EpochInv
<1> QED BY <1>2, <1>3, <1>4, <1>5, <1>6, <1>7 DEF Next, ServiceStep

LEMMA EpochInvariance == Spec => []EpochInv
<1>1. Init => EpochInv
  <2>1. Init => DOMAIN states = {}
    BY DEF Init
  <2> QED BY <2>1, LoopInit, ChainInit DEF EpochInv, StateInv
<1> QED BY <1>1, EpochStep, PTL DEF Spec

\* TypeOK: the state is well formed, the service never leaves the cycles there are.
THEOREM TypeCorrect == Spec => []TypeOK
<1>1. EpochInv => TypeOK
  <2> SUFFICES ASSUME EpochInv PROVE TypeOK
    OBVIOUS
  <2>1. ASSUME NEW c \in DOMAIN states
        PROVE  /\ DOMAIN states[c] \subseteq Gateways
               /\ \A g \in DOMAIN states[c] : states[c][g] \in GatewayData
    <3>1. states[c] \in CycleStates
      BY DEF EpochInv, StateInv, StateOf, Mid
    <3> QED BY <3>1, StateTypes
  <2> QED BY <2>1 DEF EpochInv, LoopInv, ChainInv, TypeOK
<1> QED BY <1>1, EpochInvariance, PTL

\* AtMostOneBlockLate: until a call fails, the state of a cycle is the contract's at the
\* start of the cycle or one block earlier, however it was built up from older states
\* (generate_gateway_epoch_state_for_cycle).
THEOREM StatesAreAtMostOneBlockLate == Spec => []AtMostOneBlockLate
<1>1. EpochInv => AtMostOneBlockLate
  <2> SUFFICES ASSUME EpochInv, ~faulted, NEW c \in DOMAIN states
               PROVE  AsOf(states[c], Before(c)) \/ AsOf(states[c], Before(c) - 1)
    BY DEF AtMostOneBlockLate
  <2>1. PICK n \in 0..Before(c) :
           /\ Mid(states[c], n, n) /\ n >= Before(c) - 1
           /\ \A g \in DOMAIN states[c] : states[c][g].stakeAt = n
    BY DEF EpochInv, StateInv, StateOf
  <2>2. n = Before(c) \/ n = Before(c) - 1
    <3>1. c \in Int
      BY DEF EpochInv, LoopInv, Cycles
    <3>2. Before(c) \in 0..Len(blocks)
      BY <3>1, BeforeIs DEF EpochInv
    <3> DEFINE p == Before(c)
    <3>3. p \in 0..Len(blocks) /\ n \in 0..p /\ n >= p - 1
      BY <2>1, <3>2
    <3> HIDE DEF p
    <3>4. n = p \/ n = p - 1
      BY <3>3
    <3> QED BY <3>4 DEF p
  <2>3. ASSUME NEW g \in DOMAIN states[c]
        PROVE  states[c][g] = [last |-> n, serves |-> Serves(g, n), stakeAt |-> n]
    <3> DEFINE d == states[c][g]
    <3>1. d \in GatewayData /\ d.last = n /\ d.stakeAt = n
      BY <2>1, StateTypes DEF Mid
    <3>2. d.serves \in BOOLEAN /\ (d.serves <=> Serves(g, n))
      BY <2>1, StateTypes DEF Mid
    <3>3. d.serves = Serves(g, n)
      BY <3>2, BooleanEquality
    <3> HIDE DEF d
    <3>4. d = [last |-> n, serves |-> Serves(g, n), stakeAt |-> n]
      BY <3>1, <3>3 DEF GatewayData
    <3> QED BY <3>4 DEF d
  <2>4. AsOf(states[c], n)
    BY <2>1, <2>3 DEF AsOf, Mid
  <2> QED BY <2>2, <2>4
<1> QED BY <1>1, EpochInvariance, PTL

\* States are published in the order of their cycles, and name blocks in that order.
InOrder ==
  \A c \in DOMAIN states : \A d \in DOMAIN states : d < c =>
    \A g \in DOMAIN states[c] : \A h \in DOMAIN states[d] : states[d][h].last <= states[c][g].last
OrderInv ==
  /\ \A c \in DOMAIN states : c <= cycle /\ (pc \in {"pick", "generate", "tick"} => c < cycle)
  /\ InOrder

\* The block that an entry of an older state names.
LEMMA NamedBlock ==
  ASSUME EpochInv, NEW d \in DOMAIN states, NEW h \in DOMAIN states[d], NEW c \in Cycles, d <= c
  PROVE  /\ states[d][h].last \in Int /\ Before(c) \in Int /\ states[d][h].last <= Before(c)
         /\ \A g \in DOMAIN states[d] : states[d][g].last = states[d][h].last
<1>1. d \in Int /\ c \in Int
  BY DEF EpochInv, LoopInv, Cycles
<1>2. PICK n \in 0..Before(d) : Mid(states[d], n, n)
  BY DEF EpochInv, StateInv, StateOf
<1>3. \A g \in DOMAIN states[d] : states[d][g].last = n
  BY <1>2 DEF Mid
<1> DEFINE p == Before(d)
           q == Before(c)
<1>4. p \in 0..Len(blocks) /\ q \in 0..Len(blocks)
  BY <1>1, BeforeIs DEF EpochInv
<1>5. p <= q
  BY <1>1, BeforeMonotone DEF EpochInv
<1>6. n \in 0..p
  BY <1>2
<1> HIDE DEF p, q
<1>7. n \in Int /\ q \in Int /\ n <= q
  BY <1>4, <1>5, <1>6
<1> QED BY <1>3, <1>7 DEF q

\* No older state is of a later block than the one that a new state starts from.
LEMMA BaseIsNewest ==
  ASSUME EpochInv, OrderInv, pc = "generate",
         NEW g \in DOMAIN Base(cycle), NEW d \in DOMAIN states, NEW h \in DOMAIN states[d]
  PROVE  states[d][h].last <= Base(cycle)[g].last
<1>1. Base(cycle) # <<>>
  OBVIOUS
<1>2. Candidates(cycle) # {} /\ Base(cycle) = states[CHOOSE e \in Candidates(cycle) : TRUE]
  BY <1>1 DEF Base
<1>3. PICK b : b = CHOOSE e \in Candidates(cycle) : TRUE
  OBVIOUS
<1>4. b \in Candidates(cycle) /\ Base(cycle) = states[b]
  BY <1>2, <1>3
<1>5. b \in Older(cycle)
  BY <1>4 DEF Candidates
<1>6. d < cycle /\ states[d] # <<>>
  BY DEF OrderInv
<1>7. d \in Older(cycle) /\ d <= b
  BY <1>1, <1>4, <1>5, <1>6 DEF Candidates, Older
<1>8. b \in DOMAIN states /\ b < cycle /\ cycle \in Cycles /\ b \in Int /\ d \in Int
  BY <1>5 DEF Older, EpochInv, LoopInv, Cycles
<1>9. CASE d = b
  <2>1. g \in DOMAIN states[d] /\ cycle \in Int
    BY <1>4, <1>8, <1>9 DEF Cycles
  <2>2. states[d][g].last = states[d][h].last /\ states[d][h].last \in Int
    BY <1>6, <1>8, <2>1, NamedBlock
  <2> QED BY <1>4, <1>9, <2>2
<1>10. CASE d # b
  <2>1. d < b
    BY <1>7, <1>8, <1>10
  <2> QED BY <1>4, <1>8, <2>1 DEF OrderInv, InOrder
<1> QED BY <1>9, <1>10

LEMMA GeneratedInOrder == EpochInv /\ OrderInv /\ Generate => OrderInv'
<1> SUFFICES ASSUME EpochInv, OrderInv, Generate PROVE OrderInv'
  OBVIOUS
<1>1. pc = "generate" /\ cycle' = cycle /\ cycle \in Cycles /\ cycle \in Int /\ cycle >= 1
  BY GenerateChanges DEF EpochInv, LoopInv, Cycles
<1>2. \A d \in DOMAIN states : d < cycle /\ d \in Int
  BY <1>1 DEF OrderInv, EpochInv, LoopInv, Cycles
<1>3. ASSUME NEW s, Publish(s),
             \A g \in DOMAIN s : \A d \in DOMAIN states : \A h \in DOMAIN states[d] :
               states[d][h].last <= s[g].last
      PROVE  OrderInv'
  <2>1. PICK k : k = cycle
    OBVIOUS
  <2>2. /\ DOMAIN states' = DOMAIN states \union {k} /\ states'[k] = s /\ pc' = "callback"
        /\ \A d \in DOMAIN states : states'[d] = states[d]
    BY <1>2, <1>3, <2>1 DEF Publish
  <2>3. ASSUME NEW c \in DOMAIN states', NEW d \in DOMAIN states', d < c,
               NEW g \in DOMAIN states'[c], NEW h \in DOMAIN states'[d]
        PROVE  states'[d][h].last <= states'[c][g].last
    <3>1. d \in DOMAIN states
      BY <1>1, <1>2, <2>1, <2>2, <2>3
    <3>2. CASE c \in DOMAIN states
      BY <2>2, <2>3, <3>1, <3>2 DEF OrderInv, InOrder
    <3>3. CASE c = k
      BY <1>3, <2>2, <2>3, <3>1, <3>3
    <3> QED BY <2>2, <3>2, <3>3
  <2>4. \A c \in DOMAIN states' : c <= cycle'
    BY <1>1, <1>2, <2>1, <2>2
  <2> QED BY <2>2, <2>3, <2>4 DEF OrderInv, InOrder
<1>4. ASSUME Publish(Base(cycle)) PROVE OrderInv'
  BY <1>1, <1>3, <1>4, BaseIsNewest
<1>5. ASSUME NEW failed, Publish(NewState(Before(cycle), failed)) PROVE OrderInv'
  <2> DEFINE s == NewState(Before(cycle), failed)
  <2>1. PICK n \in 0..Before(cycle) : Mid(s, n, n) /\ (s = Base(cycle) \/ n = Before(cycle))
    BY <1>1, NewStateIs DEF EpochInv
  <2> HIDE DEF s
  <2>2. Publish(s)
    BY <1>5 DEF s
  <2>3. CASE s = Base(cycle)
    BY <1>4, <2>2, <2>3
  <2>4. CASE n = Before(cycle)
    <3>1. \A g \in DOMAIN s : s[g].last = Before(cycle)
      BY <2>1, <2>4 DEF Mid
    <3>2. \A d \in DOMAIN states : \A h \in DOMAIN states[d] : states[d][h].last <= Before(cycle)
      BY <1>1, <1>2, NamedBlock
    <3> QED BY <1>3, <2>2, <3>1, <3>2
  <2> QED BY <2>1, <2>3, <2>4
<1>6. CASE states' = states /\ pc' = "panicked"
  BY <1>1, <1>6 DEF OrderInv, InOrder
<1>7. \/ Publish(Base(cycle))
      \/ states' = states /\ pc' = "panicked"
      \/ \E failed : Publish(NewState(Before(cycle), failed))
  BY DEF Generate
<1> QED BY <1>4, <1>5, <1>6, <1>7

LEMMA OrderInvariance == Spec => []OrderInv
<1>1. Init => OrderInv
  BY DEF Init, OrderInv, InOrder
<1>2. EpochInv /\ OrderInv /\ [Next]_vars => OrderInv'
  <2> SUFFICES ASSUME EpochInv, OrderInv, [Next]_vars PROVE OrderInv'
    OBVIOUS
  <2>1. cycle \in Int /\ DOMAIN states \subseteq Int
    BY DEF EpochInv, LoopInv, Cycles
  <2>2. CASE Generate
    BY <2>2, GeneratedInOrder
  <2>3. CASE Tick \/ Mine \/ UNCHANGED vars
    <3>1. UNCHANGED <<states, cycle, pc>>
      BY <2>3 DEF Tick, Mine, vars, chainVars
    <3> QED BY <3>1 DEF OrderInv, InOrder
  <2>4. ASSUME DOMAIN states' \subseteq DOMAIN states, \A c \in DOMAIN states' : states'[c] = states[c],
               \/ cycle' = cycle /\ (pc' \in {"pick", "generate", "tick"} => pc \in {"pick", "generate", "tick"})
               \/ cycle' \in Int /\ cycle' > cycle
        PROVE  OrderInv'
    <3>1. InOrder'
      BY <2>4 DEF OrderInv, InOrder
    <3>2. \A c \in DOMAIN states' : c <= cycle' /\ (pc' \in {"pick", "generate", "tick"} => c < cycle')
      <4>1. \A c \in DOMAIN states : c <= cycle /\ c \in Int
        BY <2>1 DEF OrderInv
      <4> QED BY <2>1, <2>4, <4>1 DEF OrderInv
    <3> QED BY <3>1, <3>2 DEF OrderInv
  <2>5. CASE Pick
    <3>1. ServiceClock \in Nat /\ ServiceClock <= LastCycle
      BY ServiceClockRange DEF EpochInv, LoopInv
    <3>2. cycle' \in 1..(LastCycle + 1) /\ cycle' >= cycle
      BY <2>5, <3>1, SkipToRange DEF Pick, EpochInv, LoopInv
    <3>3. UNCHANGED states /\ pc = "pick"
      BY <2>5 DEF Pick
    <3>4. cycle' = cycle \/ (cycle' \in Int /\ cycle' > cycle)
      BY <2>1, <3>2
    <3> QED BY <2>4, <3>3, <3>4
  <2>6. CASE InitDone \/ Interval
    <3>1. UNCHANGED <<states, cycle>> /\ pc \in {"pick", "tick"}
      BY <2>6 DEF InitDone, Interval
    <3> QED BY <2>4, <3>1
  <2>7. CASE Callback \/ Check
    <3>1. UNCHANGED states /\ (cycle' = cycle + 1 \/ (cycle' = cycle /\ pc' \in {"check", "prune"}))
      BY <2>7 DEF Callback, Check
    <3> QED BY <2>1, <2>4, <3>1
  <2>8. CASE Prune
    <3>1. cycle' = cycle + 1 /\ DOMAIN states' \subseteq DOMAIN states
          /\ \A c \in DOMAIN states' : states'[c] = states[c]
      BY <2>8 DEF Prune
    <3> QED BY <2>1, <2>4, <3>1
  <2> QED BY <2>2, <2>3, <2>5, <2>6, <2>7, <2>8 DEF Next, ServiceStep
<1> QED BY <1>1, <1>2, EpochInvariance, PTL DEF Spec

\* OfOneBlock: whatever calls fail, a state is the contract's as of one block, which all
\* its entries name, up to stakes that a failed read left old, and which is not before
\* the block of the state of an earlier cycle.
THEOREM StatesAreOfOneBlock == Spec => []OfOneBlock
<1>1. EpochInv /\ OrderInv => OfOneBlock
  <2> SUFFICES ASSUME EpochInv, OrderInv, NEW c \in DOMAIN states, NEW g \in DOMAIN states[c]
               PROVE  LET n == states[c][g].last IN
                        /\ n <= Before(c) /\ DOMAIN states[c] = {h \in Gateways : Registered(h, n)}
                        /\ states[c][g].serves = Serves(g, n) /\ states[c][g].stakeAt <= n
                        /\ \A h \in DOMAIN states[c] : states[c][h].last = n
                        /\ \A d \in DOMAIN states : d < c =>
                             \A h \in DOMAIN states[d] : states[d][h].last <= n
    BY Zenon DEF OfOneBlock
  <2>1. PICK n \in 0..Before(c) : Mid(states[c], n, n)
    BY DEF EpochInv, StateInv, StateOf
  <2>2. n <= Before(c)
    <3> DEFINE p == Before(c)
    <3>1. n \in 0..p
      OBVIOUS
    <3> HIDE DEF p
    <3>2. n <= p
      BY <3>1
    <3> QED BY <3>2 DEF p
  <2>3. n = states[c][g].last
    BY <2>1 DEF Mid
  <2>4. states[c][g].serves = Serves(g, n)
    <3>1. states[c][g].serves \in BOOLEAN /\ (states[c][g].serves <=> Serves(g, n))
      BY <2>1, StateTypes DEF Mid
    <3> QED BY <3>1, BooleanEquality
  <2>5. /\ DOMAIN states[c] = {h \in Gateways : Registered(h, n)} /\ states[c][g].stakeAt <= n
        /\ \A h \in DOMAIN states[c] : states[c][h].last = n
    BY <2>1 DEF Mid
  <2>6. \A d \in DOMAIN states : d < c =>
          \A h \in DOMAIN states[d] : states[d][h].last <= states[c][g].last
    BY DEF OrderInv, InOrder
  <2> QED BY <2>2, <2>3, <2>4, <2>5, <2>6, Zenon
<1> QED BY <1>1, EpochInvariance, OrderInvariance, PTL
-----------------------------------------------------------------------------
(* The service at rest.                                                     *)

\* As many ticks fired as cycles passed, or fewer; before the first one the states are
\* those of the initial loop.
RestInv ==
  /\ startCycle + ticks <= ServiceClock
  /\ phase = "init" => ticks = 0 /\ pc \in {"pick", "generate", "callback", "panicked"}
  /\ ticks = 0 => /\ startCycle < StatesToMaintain + cycle
                  /\ \A c \in DOMAIN states : startCycle < StatesToMaintain + c
  /\ NothingExpiredAtRest

\* What the numbers are.
LEMMA RestTypes ==
  ASSUME LoopInv
  PROVE  /\ ServiceClock \in Nat /\ cycle \in Nat /\ startCycle \in Nat /\ ticks \in Nat
         /\ DOMAIN states \subseteq Nat /\ StatesToMaintain \in Nat
BY ServiceClockRange, EpochAssumption DEF LoopInv, Cycles

LEMMA MaxAgeIsMore == MaxAge \in Nat /\ MaxAge >= StatesToMaintain
<1>1. \A n \in Nat : (n * 3) \div 2 \in Nat /\ (n * 3) \div 2 >= n
  OBVIOUS
<1> QED BY <1>1, EpochAssumption DEF MaxAge

LEMMA ClockStays == UNCHANGED <<clock, early>> => ServiceClock' = ServiceClock
BY DEF ServiceClock

LEMMA RestInit == Init => RestInv
<1> SUFFICES ASSUME Init PROVE RestInv
  OBVIOUS
<1>1. ServiceClock \in Nat /\ StatesToMaintain \in Nat /\ StatesToMaintain >= 1
  BY ServiceClockRange, EpochAssumption DEF Init
<1>2. startCycle = ServiceClock /\ ticks = 0 /\ cycle = SkipTo(1, startCycle) /\ DOMAIN states = {}
      /\ phase = "init" /\ pc = "pick"
  BY DEF Init
<1>3. startCycle < StatesToMaintain + cycle
  BY <1>1, <1>2 DEF SkipTo
<1> QED BY <1>1, <1>2, <1>3 DEF RestInv, NothingExpiredAtRest

\* The clock steps: a tick is due.
LEMMA RestTick ==
  ASSUME LoopInv, RestInv, Tick
  PROVE  RestInv'
<1>1. UNCHANGED <<states, cycle, startCycle, ticks, phase, pc>>
  BY TickChanges
<1>2. ServiceClock \in Nat /\ startCycle \in Nat /\ ticks \in Nat
  BY RestTypes
<1> DEFINE now == ServiceClock
           new == ServiceClock'
<1>3. new = now \/ new = now + 1
  BY TickChanges
<1>4. startCycle + ticks <= now
  BY DEF RestInv
<1>5. CASE new = now
  <2> HIDE DEF now, new
  <2>1. NothingExpiredAtRest'
    BY <1>1, <1>5 DEF RestInv, NothingExpiredAtRest, TickDue, MaxAge, now, new
  <2> QED BY <1>1, <1>4, <1>5, <2>1 DEF RestInv, now, new
<1>6. CASE new = now + 1
  <2> HIDE DEF now, new
  <2>1. new >= startCycle + 1 + ticks /\ startCycle + ticks <= new
    BY <1>2, <1>4, <1>6 DEF now
  <2>2. TickDue'
    BY <1>1, <2>1 DEF TickDue, new
  <2> QED BY <1>1, <2>1, <2>2 DEF RestInv, NothingExpiredAtRest, new
<1> QED BY <1>3, <1>5, <1>6

\* The loops: the service is not at rest after any of these steps but the first one's end.
LEMMA RestLoop ==
  ASSUME LoopInv, RestInv, Pick \/ InitDone \/ Interval \/ Callback \/ Check
  PROVE  RestInv'
<1>1. UNCHANGED <<clock, early, states, startCycle>> /\ phase \in {"init", "main"}
  BY DEF LoopInv, Pick, InitDone, Interval, Callback, Check, chainVars, loopVars
<1>2. ServiceClock' = ServiceClock
  BY <1>1, ClockStays
<1> DEFINE now == ServiceClock
<1>3. now \in Nat /\ cycle \in Nat /\ startCycle \in Nat /\ ticks \in Nat /\ DOMAIN states \subseteq Nat
      /\ StatesToMaintain \in Nat
  BY RestTypes
<1>4. startCycle + ticks <= now
  BY DEF RestInv
<1>5. CASE Interval
  <2>1. ticks' = ticks + 1 /\ now >= startCycle + 1 + ticks /\ pc' = "pick" /\ phase' = phase
        /\ pc = "tick"
    BY <1>5 DEF Interval, TickDue
  <2> HIDE DEF now
  <2>2. startCycle + ticks' <= now /\ ticks' # 0
    BY <1>3, <2>1
  <2>3. phase' # "init"
    BY <2>1 DEF RestInv
  <2> QED BY <1>1, <1>2, <2>1, <2>2, <2>3 DEF RestInv, NothingExpiredAtRest, now
<1>6. CASE InitDone
  <2>1. UNCHANGED <<ticks, cycle>> /\ pc' = "tick" /\ phase' = "main" /\ ticks = 0
    BY <1>6 DEF InitDone, RestInv
  <2>2. ASSUME ~TickDue', NEW c \in DOMAIN states' PROVE (ServiceClock < MaxAge + c)'
    <3>1. ~(now >= startCycle + 1 + ticks)
      BY <1>1, <1>2, <2>1, <2>2 DEF TickDue
    <3>2. startCycle < StatesToMaintain + c /\ c \in Nat
      BY <1>1, <1>3, <2>1, <2>2 DEF RestInv
    <3>3. now < MaxAge + c
      <4> HIDE DEF now
      <4> QED BY <1>3, <1>4, <2>1, <3>1, <3>2, MaxAgeIsMore
    <3> QED BY <1>2, <3>3 DEF MaxAge
  <2> QED BY <1>1, <1>2, <2>1, <2>2 DEF RestInv, NothingExpiredAtRest
<1>7. CASE Pick \/ Callback \/ Check
  <2>1. ticks' = ticks /\ phase' = phase /\ pc' # "tick"
        /\ (phase = "init" => pc' \in {"pick", "generate"})
    BY <1>7 DEF RestInv, Pick, Callback, Check, loopVars
  <2>2. cycle' \in Nat /\ cycle' >= cycle
    <3>1. CASE Pick
      BY <1>3, <3>1, EpochAssumption DEF Pick, SkipTo
    <3>2. CASE Callback \/ Check
      BY <1>3, <3>2 DEF Callback, Check
    <3> QED BY <1>7, <3>1, <3>2
  <2>3. startCycle < StatesToMaintain + cycle => startCycle < StatesToMaintain + cycle'
    <3>1. \A m, n, c, d \in Nat : m < n + c /\ d >= c => m < n + d
      OBVIOUS
    <3>2. startCycle \in Nat /\ StatesToMaintain \in Nat /\ cycle \in Nat
      BY <1>3
    <3> QED BY <2>2, <3>1, <3>2, Zenon
  <2> QED BY <1>1, <1>2, <2>1, <2>3 DEF RestInv, NothingExpiredAtRest
<1> QED BY <1>5, <1>6, <1>7

LEMMA RestGenerate ==
  ASSUME LoopInv, RestInv, Generate
  PROVE  RestInv'
<1>1. UNCHANGED <<clock, early, cycle, startCycle, ticks, phase>> /\ pc' \in {"callback", "panicked"}
      /\ DOMAIN states' \subseteq DOMAIN states \union {cycle}
  BY GenerateChanges
<1>2. ServiceClock' = ServiceClock
  BY <1>1, ClockStays
<1> QED BY <1>1, <1>2 DEF RestInv, NothingExpiredAtRest

\* What is left by a prune is not expired, and the clock has not moved since.
LEMMA RestPrune ==
  ASSUME LoopInv, RestInv, Prune
  PROVE  RestInv'
<1>1. UNCHANGED <<clock, early, startCycle, ticks, phase>> /\ cycle' = cycle + 1 /\ pc = "prune"
      /\ DOMAIN states' = {d \in DOMAIN states : ~Expired(d)}
  BY DEF Prune, chainVars, loopVars
<1>2. ServiceClock' = ServiceClock
  BY <1>1, ClockStays
<1>3. ASSUME NEW c \in DOMAIN states' PROVE c \in DOMAIN states /\ (ServiceClock < MaxAge + c)'
  <2>1. c \in DOMAIN states /\ ~(ServiceClock >= MaxAge + c)
    BY <1>1 DEF Expired
  <2>2. ServiceClock \in Nat /\ MaxAge \in Nat /\ c \in Nat
    BY <2>1, RestTypes, MaxAgeIsMore
  <2>3. ServiceClock < MaxAge + c
    BY <2>1, <2>2
  <2> QED BY <1>2, <2>1, <2>3 DEF MaxAge
<1>4. startCycle < StatesToMaintain + cycle => startCycle < StatesToMaintain + cycle'
  BY <1>1, RestTypes
<1> QED BY <1>1, <1>2, <1>3, <1>4 DEF RestInv, NothingExpiredAtRest

\* NothingExpiredAtRest: whenever the service sleeps until the next tick, every expired
\* state is pruned, for every chain, pace and fault (prune_old_cycle_states): a tick has
\* fired for each cycle that passed, so the clock stands where the last prune read it.
\* A loop that has stepped over the clock's cycle does not rest, and prunes nothing.
THEOREM OldStatesArePruned == Spec => []NothingExpiredAtRest
<1>1. EpochInv /\ RestInv /\ [Next]_vars => RestInv'
  <2> SUFFICES ASSUME EpochInv, RestInv, [Next]_vars PROVE RestInv'
    OBVIOUS
  <2>1. CASE UNCHANGED vars \/ Mine
    <3>1. UNCHANGED <<clock, early, states, cycle, startCycle, ticks, phase, pc>>
      BY <2>1 DEF Mine, vars, chainVars, loopVars
    <3>2. ServiceClock' = ServiceClock
      BY <3>1, ClockStays
    <3> QED BY <3>1, <3>2 DEF RestInv, NothingExpiredAtRest, TickDue, MaxAge
  <2>2. CASE Tick
    BY <2>2, RestTick DEF EpochInv
  <2>3. CASE Generate
    BY <2>3, RestGenerate DEF EpochInv
  <2>4. CASE Prune
    BY <2>4, RestPrune DEF EpochInv
  <2>5. CASE Pick \/ InitDone \/ Interval \/ Callback \/ Check
    BY <2>5, RestLoop DEF EpochInv
  <2> QED BY <2>1, <2>2, <2>3, <2>4, <2>5 DEF Next, ServiceStep
<1>2. RestInv => NothingExpiredAtRest
  BY DEF RestInv
<1> QED BY <1>1, <1>2, RestInit, EpochInvariance, PTL DEF Spec
-----------------------------------------------------------------------------
(* What the jobs rely on.                                                   *)

\* What ServiceContract sees of the service.
known == served \union (IF pc = "callback" THEN {cycle} ELSE {})
serviceCycle == IF pc \in {"check", "prune"} THEN cycle + 1 ELSE cycle
servicePc == IF pc \in {"generate", "callback", "panicked"} THEN pc ELSE "idle"

LEMMA ContractStutters ==
  ASSUME clock' = clock, known' = known, serviceCycle' = serviceCycle, servicePc' = servicePc
  PROVE  UNCHANGED Contract!contractVars
BY DEF Contract!contractVars, known, serviceCycle, servicePc

LEMMA ContractInit == Init => Contract!Init
<1> SUFFICES ASSUME Init PROVE Contract!Init
  OBVIOUS
<1>1. clock \in 1..LastCycle /\ pc = "pick" /\ served = {}
  BY DEF Init, Cycles
<1>2. known = {} /\ servicePc = "idle" /\ serviceCycle = cycle
  BY <1>1 DEF known, servicePc, serviceCycle
<1>3. ServiceClock \in Contract!Clocks
  BY DEF ServiceClock, Contract!Clocks
<1>4. cycle = Contract!NotTooOld(1, ServiceClock)
  BY DEF Init, SkipTo, Contract!NotTooOld
<1> QED BY <1>1, <1>2, <1>3, <1>4 DEF Contract!Init, known, servicePc, serviceCycle

LEMMA ContractStep ==
  ASSUME RpcFaults \/ ~ChainAhead, EpochInv, [Next]_vars
  PROVE  [Contract!Next]_Contract!contractVars
<1>1. CASE UNCHANGED vars \/ Mine
  <2>1. UNCHANGED <<clock, served, cycle, pc>>
    BY <1>1 DEF vars, chainVars, Mine
  <2> QED BY <2>1 DEF Contract!contractVars
<1>2. CASE Tick
  <2>1. UNCHANGED <<served, cycle, pc>> /\ (clock' = clock \/ clock' = clock + 1)
    BY <1>2, TickChanges DEF EpochInv
  <2>2. UNCHANGED <<known, serviceCycle, servicePc>>
    BY <2>1 DEF known, serviceCycle, servicePc
  <2> QED BY <2>1, <2>2, ContractStutters DEF Contract!Next, Contract!Tick, known, serviceCycle, servicePc
<1>3. CASE Pick
  <2>1. /\ pc = "pick" /\ pc' = "generate" /\ UNCHANGED <<clock, served>>
        /\ cycle' = SkipTo(cycle, ServiceClock)
    BY <1>3 DEF Pick, chainVars
  <2>2. ServiceClock \in Contract!Clocks /\ cycle' = Contract!NotTooOld(cycle, ServiceClock)
    BY <2>1 DEF ServiceClock, Contract!Clocks, SkipTo, Contract!NotTooOld
  <2>3. /\ servicePc = "idle" /\ servicePc' = "generate" /\ UNCHANGED <<clock, known>>
        /\ serviceCycle = cycle /\ serviceCycle' = cycle'
    BY <2>1 DEF known, serviceCycle, servicePc
  <2> QED BY <2>2, <2>3 DEF Contract!Next, Contract!Pick, known, serviceCycle, servicePc
<1>4. CASE InitDone \/ Interval
  <2>1. UNCHANGED <<clock, served, cycle>> /\ pc \in {"pick", "tick"} /\ pc' \in {"pick", "tick"}
    BY <1>4 DEF InitDone, Interval, chainVars
  <2>2. UNCHANGED <<known, serviceCycle, servicePc>>
    BY <2>1 DEF known, serviceCycle, servicePc
  <2> QED BY <2>1, <2>2, ContractStutters
<1>5. CASE Generate
  <2>1. UNCHANGED <<clock, served, cycle>> /\ pc = "generate"
    BY <1>5, GenerateChanges
  <2>2. \/ pc' = "callback" /\ (RpcFaults \/ ChainReached(cycle))
        \/ pc' = "panicked" /\ RpcFaults
    BY <1>5 DEF Generate, Publish
  <2>3. serviceCycle = cycle /\ UNCHANGED serviceCycle /\ servicePc = "generate" /\ known = served
    BY <2>1, <2>2 DEF known, serviceCycle, servicePc
  <2>4. CASE pc' = "panicked" /\ RpcFaults
    <3>1. UNCHANGED known /\ servicePc' = "panicked"
      BY <2>1, <2>4 DEF known, servicePc
    <3> QED BY <2>1, <2>3, <2>4, <3>1 DEF Contract!Next, Contract!Panic, known, serviceCycle, servicePc
  <2>5. CASE pc' = "callback" /\ (RpcFaults \/ ChainReached(cycle))
    <3>1. cycle <= clock + 1 \/ RpcFaults
      <4>1. CASE RpcFaults
        BY <4>1
      <4>2. CASE ~RpcFaults
        <5>1. LastStamp >= cycle /\ LastStamp <= ServiceClock
          BY <2>5, <4>2 DEF ChainReached, EpochInv, ChainInv
        <5>2. LastStamp \in Int
          <6>1. Len(blocks) \in DOMAIN blocks
            BY EpochAssumption DEF EpochInv, ChainInv, Blocks
          <6> QED BY <6>1, BlockTypes DEF EpochInv, ChainInv, LastStamp
        <5>3. clock \in Nat /\ cycle \in Nat /\ ServiceClock <= clock + 1 /\ ServiceClock \in Nat
          BY ServiceClockRange DEF EpochInv, LoopInv, Cycles
        <5>4. cycle <= clock + 1
          BY <5>1, <5>2, <5>3
        <5> QED BY <5>4
      <4> QED BY <4>1, <4>2
    <3>2. known' = known \union {serviceCycle} /\ servicePc' = "callback"
      BY <2>1, <2>3, <2>5 DEF known, servicePc
    <3>3. Contract!Publish
      BY <2>1, <2>3, <3>1, <3>2, Zenon DEF Contract!Publish, known, serviceCycle, servicePc
    <3> QED BY <3>3 DEF Contract!Next
  <2> QED BY <2>2, <2>4, <2>5
<1>6. CASE Callback
  <2>1. /\ pc = "callback" /\ UNCHANGED clock /\ served' = served \union {cycle}
        /\ \/ cycle' = cycle + 1 /\ pc' = "pick"
           \/ cycle' = cycle /\ pc' = "check"
    BY <1>6 DEF Callback, chainVars
  <2>2. /\ servicePc = "callback" /\ servicePc' = "idle" /\ UNCHANGED known
        /\ serviceCycle = cycle /\ serviceCycle' = cycle + 1
    BY <2>1 DEF known, serviceCycle, servicePc
  <2> QED BY <2>1, <2>2 DEF Contract!Next, Contract!CallBack, known, serviceCycle, servicePc
<1>7. CASE Check \/ Prune
  <2>1. /\ UNCHANGED <<clock, served>>
        /\ \/ pc = "check" /\ pc' = "prune" /\ cycle' = cycle
           \/ pc \in {"check", "prune"} /\ pc' \in {"pick", "tick"} /\ cycle' = cycle + 1
    BY <1>7 DEF Check, Prune, chainVars
  <2>2. UNCHANGED <<known, serviceCycle, servicePc>>
    BY <2>1 DEF known, serviceCycle, servicePc
  <2> QED BY <2>1, <2>2, ContractStutters
<1> QED BY <1>1, <1>2, <1>3, <1>4, <1>5, <1>6, <1>7 DEF Next, ServiceStep

\* ImplementsContract: the loops, their bursts of ticks and their skips are the service
\* that the jobs rely on.  A state is published a cycle early at most, unless blocks
\* carry timestamps from the future, which the contract counts among the faults.
THEOREM ServiceKeepsContract ==
  ASSUME RpcFaults \/ ~ChainAhead
  PROVE  Spec => ImplementsContract
<1>1. EpochInv /\ [Next]_vars => [Contract!Next]_Contract!contractVars
  BY ContractStep
<1> QED BY <1>1, ContractInit, EpochInvariance, PTL DEF Spec, ImplementsContract, Contract!Spec
-----------------------------------------------------------------------------
(* The draw.                                                                *)

\* A state as the selection finds it: its gateways are among the first ones, and their
\* stakes were read at blocks.
Drawable(state, top) ==
  /\ DOMAIN state \subseteq 0..top
  /\ \A g \in DOMAIN state : g \in Gateways /\ state[g].stakeAt \in 0..LastBlock

\* The gateways before g, and the total of a set of gateways.
Earlier(state, g) == {h \in Eligible(state) : h < g}
Total(state, gateways) == Cardinality(Units(state, gateways))

LEMMA WholeShare == \A a \in Nat, b \in Nat \ {0} : a >= b => a \div b \in Nat /\ a \div b >= 1
OBVIOUS

LEMMA ShareIs ==
  ASSUME NEW top \in Nat, NEW state, Drawable(state, top), NEW g \in Eligible(state)
  PROVE  g \in Nat /\ g <= top /\ Share(state, g) \in Nat /\ Share(state, g) >= 1
<1>1. g \in DOMAIN state /\ Selectable(state, g)
  BY DEF Eligible
<1>2. g \in 0..top /\ g \in Gateways /\ state[g].stakeAt \in 0..LastBlock
  BY <1>1 DEF Drawable
<1>3. PICK amount : amount = StakeAmount(g, state[g])
  OBVIOUS
<1>4. amount \in Nat
  <2>1. CASE state[g].stakeAt = 0
    BY <1>3, <2>1 DEF StakeAmount
  <2>2. CASE state[g].stakeAt # 0
    <3>1. state[g].stakeAt \in Blocks
      BY <1>2, <2>2, EpochAssumption DEF Blocks
    <3>2. StakeOf[g][state[g].stakeAt] \in Nat
      BY <1>2, <3>1, StakeAssumption
    <3> QED BY <1>3, <2>2, <3>2 DEF StakeAmount
  <2> QED BY <2>1, <2>2
<1>5. amount > MinStake
  BY <1>1, <1>3 DEF Selectable
<1>6. amount >= Factor /\ Factor \in Nat \ {0}
  BY <1>4, <1>5, StakeAssumption
<1>7. amount \div Factor \in Nat /\ amount \div Factor >= 1
  BY <1>4, <1>6, WholeShare
<1> QED BY <1>2, <1>3, <1>7 DEF Share

LEMMA UnitsFinite ==
  ASSUME NEW top \in Nat, NEW state, Drawable(state, top), NEW S \in SUBSET Eligible(state)
  PROVE  IsFiniteSet(S) /\ IsFiniteSet(Units(state, S))
<1>1. IsFiniteSet(S)
  <2>1. S \in SUBSET Nat /\ \A g \in S : g <= top
    BY ShareIs
  <2> QED BY <2>1, FS_BoundedSetOfNaturals
<1> DEFINE f == [g \in S |-> {g} \X (1..Share(state, g))]
           R == {{g} \X (1..Share(state, g)) : g \in S}
<1>2. f \in Surjection(S, R)
  BY DEF Surjection
<1>3. IsFiniteSet(R)
  <2> HIDE DEF f, R
  <2> QED BY <1>1, <1>2, FS_Surjection
<1>4. ASSUME NEW u \in R PROVE IsFiniteSet(u)
  <2>1. PICK g \in S : u = {g} \X (1..Share(state, g))
    OBVIOUS
  <2>2. IsFiniteSet({g})
    BY FS_Singleton
  <2>3. IsFiniteSet(1..Share(state, g))
    <3>1. Share(state, g) \in Int
      BY ShareIs
    <3> QED BY <3>1, FS_Interval
  <2> QED BY <2>1, <2>2, <2>3, FS_Product
<1>5. IsFiniteSet(UNION R)
  <2> HIDE DEF R
  <2> QED BY <1>3, <1>4, FS_UNION
<1> QED BY <1>1, <1>5 DEF Units

\* One gateway more adds its share.
LEMMA TotalAdds ==
  ASSUME NEW top \in Nat, NEW state, Drawable(state, top), NEW S \in SUBSET Eligible(state),
         NEW g \in Eligible(state), g \notin S
  PROVE  Total(state, S \union {g}) = Total(state, S) + Share(state, g)
<1> DEFINE own == {g} \X (1..Share(state, g))
<1>1. Units(state, S \union {g}) = Units(state, S) \union own
  BY DEF Units
<1>2. Units(state, S) \intersect own = {}
  BY DEF Units
<1>3. IsFiniteSet(own) /\ Cardinality(own) = Share(state, g)
  <2>1. PICK n \in Nat : n = Share(state, g)
    BY ShareIs
  <2>2. IsFiniteSet({g}) /\ Cardinality({g}) = 1
    BY FS_Singleton
  <2>3. IsFiniteSet(1..n) /\ Cardinality(1..n) = n
    BY FS_Interval
  <2>4. IsFiniteSet({g} \X (1..n)) /\ Cardinality({g} \X (1..n)) = Cardinality({g}) * Cardinality(1..n)
    BY <2>2, <2>3, FS_Product
  <2>5. Cardinality({g}) * Cardinality(1..n) = n
    BY <2>2, <2>3
  <2> QED BY <2>1, <2>4, <2>5
<1>4. IsFiniteSet(Units(state, S))
  BY UnitsFinite
<1>5. Cardinality(Units(state, S)) \in Nat
  BY <1>4, FS_CardinalityType
<1> HIDE DEF own
<1>6. Cardinality(Units(state, S) \union own)
        = Cardinality(Units(state, S)) + Cardinality(own) - Cardinality({})
  BY <1>2, <1>3, <1>4, FS_Union
<1>7. Cardinality({}) = 0
  BY FS_EmptySet
<1>8. Share(state, g) \in Nat
  BY ShareIs
<1>9. Cardinality(Units(state, S) \union own) = Cardinality(Units(state, S)) + Share(state, g)
  BY <1>3, <1>5, <1>6, <1>7, <1>8
<1> QED BY <1>1, <1>9 DEF Total

LEMMA TotalGrows ==
  ASSUME NEW top \in Nat, NEW state, Drawable(state, top),
         NEW S \in SUBSET Eligible(state), NEW R \in SUBSET S
  PROVE  Total(state, R) \in Nat /\ Total(state, S) \in Nat /\ Total(state, R) <= Total(state, S)
<1>1. IsFiniteSet(Units(state, S)) /\ Units(state, R) \in SUBSET Units(state, S)
  BY UnitsFinite DEF Units
<1>2. IsFiniteSet(Units(state, R))
  BY UnitsFinite
<1> QED BY <1>1, <1>2, FS_Subset, FS_CardinalityType DEF Total

\* The entry of a gateway is its share more than what the earlier ones have.
LEMMA DistributionIs ==
  ASSUME NEW top \in Nat, NEW state, Drawable(state, top), NEW g \in Eligible(state)
  PROVE  /\ DOMAIN Distribution(state) = Eligible(state)
         /\ Total(state, Earlier(state, g)) \in Nat /\ Distribution(state)[g] \in Nat
         /\ Distribution(state)[g] = Total(state, Earlier(state, g)) + Share(state, g)
         /\ Distribution(state)[g] <= TotalStake(state)
         /\ \A h \in Eligible(state) :
              h < g => Distribution(state)[h] <= Total(state, Earlier(state, g))
<1> DEFINE UpTo(h) == {k \in Eligible(state) : k <= h}
<1>1. \A h \in Eligible(state) : h \in Nat
  BY ShareIs
<1>2. \A h \in Eligible(state) : Distribution(state)[h] = Total(state, UpTo(h))
  BY DEF Distribution, Total
<1>3. UpTo(g) = Earlier(state, g) \union {g} /\ g \notin Earlier(state, g)
  BY <1>1 DEF Earlier
<1>4. Earlier(state, g) \in SUBSET Eligible(state) /\ UpTo(g) \in SUBSET Eligible(state)
  BY DEF Earlier
<1>5. Total(state, UpTo(g)) = Total(state, Earlier(state, g)) + Share(state, g)
  BY <1>3, <1>4, TotalAdds
<1>6. /\ Total(state, Earlier(state, g)) \in Nat /\ Total(state, UpTo(g)) \in Nat
      /\ Total(state, UpTo(g)) <= Total(state, Eligible(state))
  <2>1. Eligible(state) \in SUBSET Eligible(state) /\ {} \in SUBSET Earlier(state, g)
    OBVIOUS
  <2>2. Total(state, UpTo(g)) \in Nat /\ Total(state, UpTo(g)) <= Total(state, Eligible(state))
    BY <1>4, <2>1, TotalGrows
  <2>3. Total(state, Earlier(state, g)) \in Nat
    BY <1>4, <2>1, TotalGrows
  <2> QED BY <2>2, <2>3
<1>7. ASSUME NEW h \in Eligible(state), h < g
      PROVE  Distribution(state)[h] <= Total(state, Earlier(state, g))
  <2>1. UpTo(h) \in SUBSET Earlier(state, g)
    BY <1>1, <1>7 DEF Earlier
  <2>2. Total(state, UpTo(h)) <= Total(state, Earlier(state, g))
    BY <1>4, <2>1, TotalGrows
  <2> QED BY <1>2, <2>2
<1>8. TotalStake(state) = Total(state, Eligible(state))
  BY DEF TotalStake, Total
<1>9. DOMAIN Distribution(state) = Eligible(state)
  BY DEF Distribution
<1> HIDE DEF UpTo
<1> QED BY <1>2, <1>5, <1>6, <1>7, <1>8, <1>9

\* The earlier ones have nothing, or end with the entry of the last of them.
LEMMA EarlierEnds ==
  ASSUME NEW top \in Nat, NEW state, Drawable(state, top), NEW g \in Eligible(state)
  PROVE  \/ Total(state, Earlier(state, g)) = 0
         \/ \E h \in Eligible(state) :
              h < g /\ Distribution(state)[h] = Total(state, Earlier(state, g))
<1>1. \A h \in Eligible(state) : h \in 0..top
  BY ShareIs
<1>2. CASE Earlier(state, g) = {}
  <2>1. Units(state, {}) = {}
    BY DEF Units
  <2> QED BY <1>2, <2>1, FS_EmptySet DEF Total
<1>3. CASE Earlier(state, g) # {}
  <2>1. Earlier(state, g) \in SUBSET (0..top)
    BY <1>1 DEF Earlier
  <2>2. PICK h \in Earlier(state, g) : \A k \in Earlier(state, g) : k <= h
    BY <1>3, <2>1, Greatest
  <2>3. h \in Eligible(state) /\ h < g
    BY <2>2 DEF Earlier
  <2>4. {k \in Eligible(state) : k <= h} = Earlier(state, g)
    BY <1>1, <2>2, <2>3 DEF Earlier
  <2>5. Distribution(state)[h] = Total(state, Earlier(state, g))
    BY <2>3, <2>4 DEF Distribution, Total
  <2> QED BY <2>3, <2>5
<1> QED BY <1>2, <1>3

\* The total is the last entry.
LEMMA TotalIs ==
  ASSUME NEW top \in Nat, NEW state, Drawable(state, top)
  PROVE  /\ Eligible(state) = {} => TotalStake(state) = 0
         /\ Eligible(state) # {} =>
              \E g \in Eligible(state) : /\ \A h \in Eligible(state) : h <= g
                                         /\ TotalStake(state) = Distribution(state)[g]
<1>1. CASE Eligible(state) = {}
  <2>1. Units(state, {}) = {}
    BY DEF Units
  <2> QED BY <1>1, <2>1, FS_EmptySet DEF TotalStake
<1>2. CASE Eligible(state) # {}
  <2>1. Eligible(state) \in SUBSET (0..top)
    BY ShareIs
  <2>2. PICK g \in Eligible(state) : \A h \in Eligible(state) : h <= g
    BY <1>2, <2>1, Greatest
  <2>3. {h \in Eligible(state) : h <= g} = Eligible(state)
    BY <2>2
  <2>4. Distribution(state)[g] = TotalStake(state)
    BY <2>3 DEF Distribution, TotalStake
  <2> QED BY <1>2, <2>2, <2>4
<1> QED BY <1>1, <1>2

\* The search finds the one gateway whose stretch of the numbers has the draw.
LEMMA SearchIs ==
  ASSUME NEW top \in Nat, NEW state, Drawable(state, top), NEW draw \in 1..TotalStake(state)
  PROVE  /\ Selected(state, draw) \in Eligible(state)
         /\ \A g \in Eligible(state) :
              Selected(state, draw) = g <=>
                /\ Total(state, Earlier(state, g)) < draw
                /\ draw <= Distribution(state)[g]
<1> DEFINE d == Distribution(state)
           Fits(g) == /\ draw <= d[g]
                      /\ \A h \in DOMAIN d : h < g => d[h] < draw
<1>1. /\ DOMAIN d = Eligible(state)
      /\ \A g \in Eligible(state) :
           /\ g \in Nat /\ Total(state, Earlier(state, g)) \in Nat /\ d[g] \in Nat
           /\ \A h \in Eligible(state) : h < g => d[h] <= Total(state, Earlier(state, g))
  <2>1. DOMAIN d = Eligible(state)
    BY DEF Distribution
  <2> QED BY <2>1, ShareIs, DistributionIs
<1>2. draw \in Nat /\ draw >= 1
  <2>1. TotalStake(state) \in Nat
    <3>1. Eligible(state) \in SUBSET Eligible(state)
      OBVIOUS
    <3> QED BY <3>1, TotalGrows DEF TotalStake, Total
  <2> QED BY <2>1
<1>3. \E g \in Eligible(state) : Fits(g)
  <2> DEFINE S == {g \in Eligible(state) : draw <= d[g]}
  <2>1. S # {}
    <3>1. Eligible(state) # {}
      BY <1>2, TotalIs
    <3>2. PICK g \in Eligible(state) : TotalStake(state) = d[g]
      BY <3>1, TotalIs
    <3>3. draw <= d[g]
      BY <1>1, <3>2
    <3> QED BY <3>3
  <2>2. S \in SUBSET Nat
    BY <1>1
  <2>3. PICK g \in S : \A h \in S : g <= h
    <3> HIDE DEF S
    <3> QED BY <2>1, <2>2, Least
  <2>4. \A h \in DOMAIN d : h < g => d[h] < draw
    <3> SUFFICES ASSUME NEW h \in Eligible(state), h < g PROVE d[h] < draw
      BY <1>1
    <3>1. h \notin S
      BY <1>1, <2>3
    <3> HIDE DEF d
    <3> QED BY <1>1, <1>2, <3>1
  <2> QED BY <2>3, <2>4
<1>4. \A g \in Eligible(state) :
        Fits(g) <=> Total(state, Earlier(state, g)) < draw /\ draw <= d[g]
  <2> SUFFICES ASSUME NEW g \in Eligible(state)
               PROVE  Fits(g) <=> Total(state, Earlier(state, g)) < draw /\ draw <= d[g]
    OBVIOUS
  <2>1. CASE Total(state, Earlier(state, g)) = 0
    <3>1. \A h \in Eligible(state) : h < g => d[h] < draw
      <4> HIDE DEF d
      <4> QED BY <1>1, <1>2, <2>1
    <3> HIDE DEF d
    <3> QED BY <1>1, <1>2, <2>1, <3>1
  <2>2. ASSUME NEW h \in Eligible(state), h < g, d[h] = Total(state, Earlier(state, g))
        PROVE  Fits(g) <=> Total(state, Earlier(state, g)) < draw /\ draw <= d[g]
    <3> HIDE DEF d
    <3> QED BY <1>1, <1>2, <2>2
  <2> QED BY <2>1, <2>2, EarlierEnds
<1>5. \A g, h \in Eligible(state) : Fits(g) /\ Fits(h) => g = h
  <2> HIDE DEF d
  <2> QED BY <1>1, <1>2
<1>6. Selected(state, draw) = CHOOSE g \in Eligible(state) : Fits(g)
  BY <1>1 DEF Selected, Search
<1> HIDE DEF Fits, d
<1>7. Selected(state, draw) \in Eligible(state) /\ Fits(Selected(state, draw))
  BY <1>3, <1>6
<1>8. \A g \in Eligible(state) : Selected(state, draw) = g <=> Fits(g)
  BY <1>5, <1>7
<1> QED BY <1>4, <1>7, <1>8 DEF d

LEMMA StretchIs ==
  ASSUME NEW a \in Nat, NEW n \in Nat, n >= 1
  PROVE  Cardinality((a + 1)..(a + n)) = n
<1>1. a + 1 \in Int /\ a + n \in Int /\ ~(a + 1 > a + n) /\ (a + n) - (a + 1) + 1 = n
  OBVIOUS
<1>2. Cardinality((a + 1)..(a + n)) = (a + n) - (a + 1) + 1
  BY <1>1, FS_Interval
<1> QED BY <1>1, <1>2

\* A gateway has as many draws as its share.
LEMMA DrawsOfIs ==
  ASSUME NEW top \in Nat, NEW state, Drawable(state, top), NEW g \in DOMAIN state
  PROVE  DrawsOf(state, g) = IF Selectable(state, g) THEN Share(state, g) ELSE 0
<1> DEFINE S == {draw \in 1..TotalStake(state) : Selected(state, draw) = g}
<1>1. DrawsOf(state, g) = Cardinality(S)
  BY DEF DrawsOf, Draws
<1>2. CASE Selectable(state, g)
  <2>1. g \in Eligible(state)
    BY <1>2 DEF Eligible
  <2>2. PICK a \in Nat, n \in Nat, t \in Nat :
          /\ a = Total(state, Earlier(state, g)) /\ n = Share(state, g) /\ n >= 1
          /\ Distribution(state)[g] = a + n /\ a + n <= t /\ t = TotalStake(state)
    <3>1. TotalStake(state) \in Nat
      <4>1. Eligible(state) \in SUBSET Eligible(state)
        OBVIOUS
      <4> QED BY <4>1, TotalGrows DEF TotalStake, Total
    <3> QED BY <2>1, <3>1, ShareIs, DistributionIs
  <2>3. \A draw \in 1..t : Selected(state, draw) = g <=> a < draw /\ draw <= a + n
    BY <2>1, <2>2, SearchIs
  <2>4. S = (a + 1)..(a + n)
    <3>1. \A draw \in (a + 1)..(a + n) : draw \in 1..t /\ a < draw /\ draw <= a + n
      BY <2>2
    <3>2. \A draw \in 1..t : a < draw /\ draw <= a + n => draw \in (a + 1)..(a + n)
      BY <2>2
    <3>3. S = {draw \in 1..t : Selected(state, draw) = g}
      BY <2>2
    <3> HIDE DEF S
    <3> QED BY <2>3, <3>1, <3>2, <3>3
  <2> QED BY <1>1, <1>2, <2>2, <2>4, StretchIs
<1>3. CASE ~Selectable(state, g)
  <2>1. g \notin Eligible(state)
    BY <1>3 DEF Eligible
  <2>2. S = {}
    BY <2>1, SearchIs
  <2> HIDE DEF S
  <2> QED BY <1>1, <1>3, <2>2, FS_EmptySet
<1> QED BY <1>2, <1>3

\* What is selected depends on the distribution only.
LEMMA SelectedAlike ==
  ASSUME NEW top \in Nat, NEW bound \in Nat, NEW state, NEW other,
         Drawable(state, top), Drawable(other, bound), Distribution(state) = Distribution(other)
  PROVE  /\ TotalStake(state) = TotalStake(other)
         /\ \A draw : Selected(state, draw) = Selected(other, draw)
<1>1. Eligible(state) = Eligible(other)
  BY DEF Distribution
<1>2. CASE Eligible(state) = {}
  BY <1>1, <1>2, TotalIs DEF Selected
<1>3. CASE Eligible(state) # {}
  <2>1. PICK g \in Eligible(state) : /\ \A h \in Eligible(state) : h <= g
                                     /\ TotalStake(state) = Distribution(state)[g]
    BY <1>3, TotalIs
  <2>2. PICK k \in Eligible(other) : /\ \A h \in Eligible(other) : h <= k
                                     /\ TotalStake(other) = Distribution(other)[k]
    BY <1>1, <1>3, TotalIs
  <2>3. g \in Nat /\ k \in Nat /\ g <= k /\ k <= g
    BY <1>1, <2>1, <2>2, ShareIs
  <2>4. g = k
    BY <2>3
  <2> QED BY <2>1, <2>2, <2>4 DEF Selected
<1> QED BY <1>2, <1>3

\* The gateways that the contract has known are finitely many.
LEMMA GatewaysBounded ==
  ASSUME ChainInv
  PROVE  \E top \in Nat : \A g \in Gateways, n \in 0..Len(blocks) : Registered(g, n) => g <= top
<1> DEFINE Bounds(m, k) == \A b \in 1..k : blocks[b].event.gateway <= m
           S == {k \in Nat : k <= Len(blocks) => \E m \in Nat : Bounds(m, k)}
<1>1. Len(blocks) \in Nat /\ DOMAIN blocks = 1..Len(blocks)
  BY DEF ChainInv
<1>2. \A b \in 1..Len(blocks) : blocks[b].event.gateway \in Nat
  <2> SUFFICES ASSUME NEW b \in 1..Len(blocks) PROVE blocks[b].event.gateway \in Nat
    OBVIOUS
  <2>1. blocks[b].event \in Event \union {NoEvent}
    BY <1>1, BlockTypes DEF ChainInv
  <2>2. CASE blocks[b].event \in Event
    BY <2>2, EpochAssumption DEF Event
  <2>3. CASE blocks[b].event = NoEvent
    BY <2>3 DEF NoEvent
  <2> QED BY <2>1, <2>2, <2>3
<1>3. 0 \in S
  <2>1. Bounds(0, 0)
    OBVIOUS
  <2> QED BY <2>1
<1>4. ASSUME NEW k \in Nat, k \in S PROVE k + 1 \in S
  <2> SUFFICES ASSUME k + 1 <= Len(blocks) PROVE \E m \in Nat : Bounds(m, k + 1)
    OBVIOUS
  <2>0. \E m \in Nat : Bounds(m, k)
    <3>1. k <= Len(blocks)
      BY <1>1
    <3> HIDE DEF Bounds
    <3> QED BY <1>4, <3>1
  <2>1. PICK m \in Nat : Bounds(m, k)
    BY <2>0
  <2>2. k + 1 \in 1..Len(blocks)
    BY <1>1
  <2>3. PICK p \in Nat : p = blocks[k + 1].event.gateway
    BY <1>2, <2>2
  <2>4. \A b \in 1..(k + 1) : b \in 1..k \/ b = k + 1
    OBVIOUS
  <2>5. \A b \in 1..k : blocks[b].event.gateway \in Nat
    BY <1>1, <1>2
  <2>6. PICK q \in Nat : q = m + p
    OBVIOUS
  <2>7. m <= q /\ p <= q
    BY <2>6
  <2>8. ASSUME NEW b \in 1..(k + 1) PROVE blocks[b].event.gateway <= q
    <3>1. CASE b \in 1..k
      BY <2>1, <2>5, <2>7, <3>1
    <3>2. CASE b = k + 1
      BY <2>3, <2>7, <3>2
    <3> QED BY <2>4, <3>1, <3>2
  <2>9. Bounds(q, k + 1)
    BY <2>8
  <2> HIDE DEF Bounds, S
  <2> QED BY <2>9
<1>5. Len(blocks) \in S
  <2> HIDE DEF S
  <2> QED BY <1>1, <1>3, <1>4, Induction
<1>6. PICK m \in Nat : Bounds(m, Len(blocks))
  BY <1>1, <1>5
<1>7. ASSUME NEW g \in Gateways, NEW n \in 0..Len(blocks), Registered(g, n) PROVE g <= m
  <2>1. PICK b \in 1..n : blocks[b].event.gateway = g
    BY <1>7 DEF Registered, IsEvent
  <2>2. b \in 1..Len(blocks)
    BY <1>1
  <2> QED BY <1>6, <2>1, <2>2
<1> QED BY <1>7

\* The cycle whose waitlist is about to be called back has its state.
CallbackInv == pc = "callback" => cycle \in DOMAIN states

LEMMA CallbackInvariance == Spec => []CallbackInv
<1>1. Init => CallbackInv
  BY DEF Init, CallbackInv
<1>2. CallbackInv /\ [Next]_vars => CallbackInv'
  <2> SUFFICES ASSUME CallbackInv, [Next]_vars PROVE CallbackInv'
    OBVIOUS
  <2>1. CASE Generate
    <3>2. cycle' = cycle
      BY <2>1 DEF Generate
    <3>3. (\E state : Publish(state)) \/ pc' = "panicked"
      BY <2>1 DEF Generate
    <3> QED BY <3>2, <3>3 DEF Publish, CallbackInv
  <2>2. CASE Callback \/ Prune
    BY <2>2 DEF Callback, Prune, CallbackInv
  <2>3. CASE Pick \/ InitDone \/ Interval \/ Check
    BY <2>3 DEF Pick, InitDone, Interval, Check, CallbackInv
  <2>4. CASE Tick \/ Mine \/ UNCHANGED vars
    BY <2>4 DEF Tick, Mine, vars, CallbackInv
  <2> QED BY <2>1, <2>2, <2>3, <2>4 DEF Next, ServiceStep
<1> QED BY <1>1, <1>2, PTL DEF Spec

\* The state of the published cycle.
LEMMA PublishedState ==
  ASSUME EpochInv, CallbackInv, NEW c \in Published
  PROVE  /\ c \in DOMAIN states /\ Before(c) \in Nat /\ Before(c) <= Len(blocks)
         /\ Len(blocks) \in Nat /\ Len(blocks) <= LastBlock
         /\ \E n \in Nat : n <= Before(c) /\ StateOf(c, n)
<1>1. c \in DOMAIN states
  BY DEF EpochInv, CallbackInv, Published
<1>2. c \in Int
  BY <1>1 DEF EpochInv, LoopInv, Cycles
<1>3. PICK p \in 0..Len(blocks) : p = Before(c)
  BY <1>2, BeforeIs DEF EpochInv
<1>4. Len(blocks) \in 1..LastBlock
  BY DEF EpochInv, ChainInv, Blocks
<1>5. PICK n \in 0..p : StateOf(c, n)
  BY <1>1, <1>3 DEF EpochInv, StateInv
<1>6. p \in Nat /\ p <= Len(blocks) /\ Len(blocks) \in Nat /\ Len(blocks) <= LastBlock
  BY <1>4, EpochAssumption
<1>7. n \in Nat /\ n <= p
  OBVIOUS
<1> QED BY <1>1, <1>3, <1>5, <1>6, <1>7

\* A state as of a block can be drawn from.
LEMMA MidIsDrawable ==
  ASSUME EpochInv, NEW state, NEW n \in Nat, n <= Len(blocks), Mid(state, n, n),
         NEW top \in Nat, \A g \in Gateways, k \in 0..Len(blocks) : Registered(g, k) => g <= top
  PROVE  Drawable(state, top)
<1>1. Len(blocks) \in 1..LastBlock
  BY DEF EpochInv, ChainInv, Blocks
<1>2. n \in 0..Len(blocks) /\ n <= LastBlock
  BY <1>1, EpochAssumption
<1>3. ASSUME NEW g \in DOMAIN state
      PROVE  g \in 0..top /\ g \in Gateways /\ state[g].stakeAt \in 0..LastBlock
  <2>1. g \in Gateways /\ Registered(g, n) /\ state[g].stakeAt <= n /\ state[g].stakeAt \in Nat
    BY StateTypes DEF Mid
  <2>2. g \in Nat /\ g <= top
    BY <1>2, <2>1, EpochAssumption
  <2> QED BY <1>2, <2>1, <2>2, EpochAssumption
<1> QED BY <1>3 DEF Drawable

\* SelectsByStake: whatever calls failed and whichever number is drawn, the gateway that
\* is selected serves, and each one is selected by as many draws as its stake counts.
THEOREM DrawsFollowStake == Spec => []SelectsByStake
<1>1. EpochInv /\ CallbackInv => SelectsByStake
  <2> SUFFICES ASSUME EpochInv, CallbackInv, NEW c \in Published
               PROVE  /\ \A g \in Selections(states[c]) : ServesWell(g, states[c][g], c)
                      /\ \A g \in DOMAIN states[c] :
                           DrawsOf(states[c], g) =
                             IF Selectable(states[c], g) THEN Share(states[c], g) ELSE 0
    BY DEF SelectsByStake
  <2>1. PICK n \in Nat : n <= Before(c) /\ StateOf(c, n)
    BY PublishedState
  <2>2. n <= Len(blocks) /\ Before(c) \in Nat
    BY <2>1, PublishedState
  <2>3. PICK top \in Nat :
          \A g \in Gateways, k \in 0..Len(blocks) : Registered(g, k) => g <= top
    BY GatewaysBounded DEF EpochInv
  <2>4. Mid(states[c], n, n)
    BY <2>1 DEF StateOf
  <2>5. Drawable(states[c], top)
    BY <2>2, <2>3, <2>4, MidIsDrawable
  <2>6. ASSUME NEW g \in Selections(states[c]) PROVE ServesWell(g, states[c][g], c)
    <3>1. g \in Eligible(states[c])
      BY <2>5, SearchIs DEF Selections, Draws
    <3>2. g \in DOMAIN states[c] /\ Selectable(states[c], g)
      BY <3>1 DEF Eligible
    <3> DEFINE d == states[c][g]
    <3>3. d.last = n /\ d.stakeAt <= n /\ d.stakeAt \in Nat
      BY <2>4, <3>2, StateTypes DEF Mid
    <3>4. d.serves /\ (d.serves <=> Serves(g, n))
      BY <2>4, <3>2 DEF Mid, Selectable
    <3>5. StakeAmount(g, d) > MinStake /\ ~Draining(g, d)
      BY <3>2 DEF Selectable
    <3> HIDE DEF d
    <3>6. d.stakeAt # 0
      <4>1. CASE d.stakeAt = 0
        BY <3>5, <4>1, StakeAssumption DEF StakeAmount
      <4> QED BY <4>1
    <3>7. StakeOf[g][d.stakeAt] > MinStake /\ ~DrainingAt[g][d.stakeAt]
      BY <3>5, <3>6 DEF StakeAmount, Draining
    <3>8. d.stakeAt \in 1..d.last
      BY <3>3, <3>6
    <3>9. Serves(g, d.last) /\ d.last <= Before(c)
      BY <2>1, <3>3, <3>4
    <3> QED BY <3>7, <3>8, <3>9 DEF d, ServesWell
  <2>7. ASSUME NEW g \in DOMAIN states[c]
        PROVE  DrawsOf(states[c], g) =
                 IF Selectable(states[c], g) THEN Share(states[c], g) ELSE 0
    BY <2>5, DrawsOfIs
  <2> QED BY <2>6, <2>7
<1> QED BY <1>1, EpochInvariance, CallbackInvariance, PTL

\* The contract's state of a block, as a state of the service.
LEMMA ContractStateIs ==
  ASSUME NEW n \in Nat
  PROVE  Mid(ContractState(n), n, n)
<1> DEFINE s == ContractState(n)
           D == {g \in Gateways : Registered(g, n)}
<1>1. DOMAIN s = D /\ D \in SUBSET Gateways
  BY DEF ContractState
<1>2. ASSUME NEW g \in D
      PROVE  s[g] \in GatewayData /\ s[g].last = n /\ s[g].stakeAt = n /\ s[g].serves = Serves(g, n)
  <2>1. s[g] = [last |-> n, serves |-> Serves(g, n), stakeAt |-> n]
    BY DEF ContractState
  <2>2. Serves(g, n) \in BOOLEAN
    BY DEF Serves
  <2> HIDE DEF s
  <2> QED BY <2>1, <2>2 DEF GatewayData
<1>3. s \in [D -> GatewayData]
  BY <1>1, <1>2 DEF ContractState
<1>4. s \in CycleStates
  BY <1>1, <1>3, IsState
<1>5. n <= n
  OBVIOUS
<1>6. \A g \in DOMAIN s : s[g].last = n /\ s[g].stakeAt <= n /\ (s[g].serves <=> Serves(g, n))
  BY <1>1, <1>2, <1>5
<1> HIDE DEF s
<1>7. DOMAIN s = {g \in Gateways : Registered(g, n)}
  BY <1>1
<1>8. Mid(s, n, n)
  BY <1>4, <1>6, <1>7 DEF Mid
<1> QED BY <1>8 DEF s

\* SelectsAlike: until a call fails, every gateway selects for a cycle as the contract's
\* state would, unless the last block before the cycle changed a stake or a chain.
THEOREM GatewaysSelectAlike == Spec => []SelectsAlike
<1>1. EpochInv /\ CallbackInv /\ AtMostOneBlockLate => SelectsAlike
  <2> SUFFICES ASSUME EpochInv, CallbackInv, AtMostOneBlockLate, ~faulted, NEW c \in Published,
                      Unchanged(Before(c)), NEW draw \in Draws(TotalStake(ContractState(Before(c))))
               PROVE  /\ draw \in Draws(TotalStake(states[c]))
                      /\ Selected(states[c], draw) = Selected(ContractState(Before(c)), draw)
    BY DEF SelectsAlike
  <2>1. PICK p \in Nat : p = Before(c) /\ p <= Len(blocks) /\ Len(blocks) \in Nat
    BY PublishedState
  <2>2. p > 1 /\ Distribution(ContractState(p)) = Distribution(ContractState(p - 1))
    BY <2>1 DEF Unchanged
  <2>3. PICK n \in Nat : n <= p /\ StateOf(c, n)
    BY <2>1, PublishedState
  <2>4. PICK top \in Nat :
          \A g \in Gateways, k \in 0..Len(blocks) : Registered(g, k) => g <= top
    BY GatewaysBounded DEF EpochInv
  <2>5. Drawable(states[c], top)
    BY <2>1, <2>3, <2>4, MidIsDrawable DEF StateOf
  <2>6. Drawable(ContractState(p), top)
    BY <2>1, <2>4, ContractStateIs, MidIsDrawable
  <2>7. AsOf(states[c], p) \/ AsOf(states[c], p - 1)
    BY <2>1, PublishedState DEF AtMostOneBlockLate
  <2>8. ASSUME NEW k, AsOf(states[c], k) PROVE states[c] = ContractState(k)
    <3>1. states[c] \in CycleStates
      BY <2>3 DEF StateOf, Mid
    <3>2. states[c] = [g \in DOMAIN states[c] |-> states[c][g]]
      BY <3>1, StateTypes
    <3>3. /\ DOMAIN states[c] = {g \in Gateways : Registered(g, k)}
          /\ \A g \in DOMAIN states[c] :
               states[c][g] = [last |-> k, serves |-> Serves(g, k), stakeAt |-> k]
      BY <2>8 DEF AsOf
    <3> QED BY <3>2, <3>3, Zenon DEF ContractState
  <2>9. Distribution(states[c]) = Distribution(ContractState(p))
    BY <2>2, <2>7, <2>8
  <2>10. /\ TotalStake(states[c]) = TotalStake(ContractState(p))
         /\ Selected(states[c], draw) = Selected(ContractState(p), draw)
    BY <2>5, <2>6, <2>9, SelectedAlike
  <2> QED BY <2>1, <2>10
<1> QED BY <1>1, EpochInvariance, CallbackInvariance, StatesAreAtMostOneBlockLate, PTL
=============================================================================
