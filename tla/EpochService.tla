---------------------------- MODULE EpochService ----------------------------
(***************************************************************************)
(* The gateway epoch state service (common_chain_gateway_state_service.rs):*)
(* for each cycle it builds the state of the gateways at the start of the  *)
(* cycle from an older state and the events since, publishes it, calls the *)
(* waitlist of the cycle back, and prunes old states.                      *)
(*                                                                         *)
(* Time passes in half cycles: the service enters a cycle before the       *)
(* selection does, whose clock is behind by offset_for_epoch.  The common  *)
(* chain is a sequence of blocks, each with at most one gateway event.     *)
(***************************************************************************)
EXTENDS Integers, Sequences, FiniteSets, SequencesExt

CONSTANTS
  Gateways,          \* addresses, ordered as the BTreeMap orders them
  StatesToMaintain,  \* GATEWAY_BLOCK_STATES_TO_MAINTAIN
  LastCycle,         \* bound: the last cycle of the clock and of the service
  LastBlock,         \* bound: the blocks of the chain
  ChainAhead,        \* may block timestamps be ahead of the local clock?
  RpcFaults          \* may RPC calls fail?

Cycles == 1..LastCycle
Blocks == 1..LastBlock

ASSUME EpochAssumption ==
  /\ Gateways \subseteq Nat
  /\ StatesToMaintain \in Nat \ {0} /\ LastCycle \in Nat \ {0} /\ LastBlock \in Nat \ {0}
  /\ ChainAhead \in BOOLEAN /\ RpcFaults \in BOOLEAN

Kinds == {"registered", "deregistered", "chainAdded", "chainRemoved"}
Event == [kind : Kinds, gateway : Gateways]
NoEvent == [kind |-> "none", gateway |-> 0]
Block == [cycle : 0..(LastCycle + 1), event : Event \union {NoEvent}]

\* GatewayData: its last block, whether it serves the request chain, and the block
\* its stake was read at (0: the zero of a registration).
GatewayData == [last : Nat, serves : BOOLEAN, stakeAt : Nat]

VARIABLES
  clock, early,  \* the selection's cycle; is the service's clock one ahead?
  blocks,        \* the common chain
  states,        \* gateway_epoch_state: cycle -> gateway -> data
  served,        \* the cycles whose waitlist was called back
  cycle,         \* cycle_number
  startCycle,    \* current_cycle when the service started
  ticks,         \* ticks of the interval so far
  phase, pc,     \* in the initial loop or the main one, and where
  faulted        \* history: has an RPC call failed?

chainVars == <<clock, early, blocks>>
loopVars == <<startCycle, ticks, phase>>
vars == <<chainVars, states, served, cycle, loopVars, pc, faulted>>

ServiceClock == IF early THEN clock + 1 ELSE clock

\* Slips: an unguarded subtraction; skipping one cycle too late.
SkipUnguarded(c, now) == now - StatesToMaintain + 1
SkipLate(c, now) == IF now > StatesToMaintain + c THEN now - StatesToMaintain + 1 ELSE c

\* The oldest cycle worth serving: a cycle that is almost too old is skipped.
SkipTo(c, now) == IF now >= StatesToMaintain + c THEN now - StatesToMaintain + 1 ELSE c

Init ==
  /\ clock \in Cycles /\ early \in BOOLEAN /\ ServiceClock <= LastCycle
  /\ blocks = <<[cycle |-> 0, event |-> NoEvent]>>
  /\ states = <<>>
  /\ served = {}
  /\ startCycle = ServiceClock
  /\ cycle = SkipTo(1, startCycle)
  /\ ticks = 0
  /\ phase = "init" /\ pc = "pick"
  /\ faulted = FALSE
-----------------------------------------------------------------------------
(* The common chain.                                                       *)

IsEvent(b, kinds, g) == blocks[b].event.kind \in kinds /\ blocks[b].event.gateway = g

\* The Gateways contract as of block n.
Registered(g, n) ==
  \E b \in 1..n : /\ IsEvent(b, {"registered"}, g)
                  /\ \A d \in (b + 1)..n : ~IsEvent(d, {"deregistered"}, g)
Serves(g, n) ==
  \E b \in 1..n : /\ IsEvent(b, {"registered", "chainAdded"}, g)
                  /\ \A d \in (b + 1)..n : ~IsEvent(d, {"deregistered", "chainRemoved"}, g)

Allowed(event) ==
  LET g == event.gateway
      n == Len(blocks)
  IN CASE event.kind = "registered" -> ~Registered(g, n)
       [] event.kind = "deregistered" -> Registered(g, n)
       [] event.kind = "chainAdded" -> Registered(g, n) /\ ~Serves(g, n)
       [] event.kind = "chainRemoved" -> Registered(g, n) /\ Serves(g, n)
       [] OTHER -> TRUE

LastStamp == blocks[Len(blocks)].cycle

Mine ==
  /\ Len(blocks) < LastBlock
  /\ \E e \in Event \union {NoEvent} :
       \E c \in {ServiceClock} \union (IF ChainAhead THEN {ServiceClock + 1} ELSE {}) :
         /\ Allowed(e) /\ c >= LastStamp
         /\ blocks' = Append(blocks, [cycle |-> c, event |-> e])
  /\ UNCHANGED <<clock, early, states, served, cycle, loopVars, pc, faulted>>

\* The last block before the cycle, 0 if there is none.
Before(c) == Cardinality({b \in DOMAIN blocks : blocks[b].cycle < c})
ChainReached(c) == LastStamp >= c
-----------------------------------------------------------------------------
(* generate_gateway_epoch_state_for_cycle.                                 *)

Older(c) == {d \in DOMAIN states : d < c}

\* The newest older state with gateways, or the oldest one when none has any: the
\* loop over the added cycles goes on past empty states.
Candidates(c) ==
  LET full == {d \in Older(c) : states[d] # <<>>} IN
  IF full # {} THEN {d \in full : \A e \in full : e <= d}
  ELSE {d \in Older(c) : \A e \in Older(c) : d <= e}

Base(c) == IF Candidates(c) = {} THEN <<>> ELSE states[CHOOSE d \in Candidates(c) : TRUE]

FromBlock(base) ==
  IF base = <<>> THEN 0
  ELSE base[CHOOSE g \in DOMAIN base : \A h \in DOMAIN base : g <= h].last + 1

\* What one event does to the map; others are ignored for an unknown gateway.
Apply(to, state, event) ==
  LET g == event.gateway
      known == g \in DOMAIN state
  IN CASE event.kind = "registered" ->
            [h \in DOMAIN state \union {g} |->
               IF h = g THEN [last |-> to, serves |-> TRUE, stakeAt |-> 0] ELSE state[h]]
       [] event.kind = "deregistered" -> [h \in DOMAIN state \ {g} |-> state[h]]
       [] event.kind = "chainAdded" /\ known -> [state EXCEPT ![g].serves = TRUE]
       [] event.kind = "chainRemoved" /\ known -> [state EXCEPT ![g].serves = FALSE]
       [] OTHER -> state

\* Slip: the last block of the gateways already there is left as it was.
KeepLast(state, to) == state

Touch(state, to) == [g \in DOMAIN state |-> [state[g] EXCEPT !.last = to]]

EventAt(b) == IF b \in DOMAIN blocks THEN blocks[b].event ELSE NoEvent

\* Slip: the range of the filter taken as half open.
HalfOpenLogs(from, to) == [i \in 1..(to - from) |-> EventAt(from + i - 1)]

Logs(from, to) == [i \in 1..(to - from + 1) |-> EventAt(from + i - 1)]

Processed(base, from, to) ==
  FoldLeft(LAMBDA s, e : Apply(to, s, e), Touch(base, to), Logs(from, to))

\* Slip: the stakes are read at the head of the chain.
StakesNow(state, to, failed) ==
  [g \in DOMAIN state |->
     IF g \in failed THEN state[g] ELSE [state[g] EXCEPT !.stakeAt = Len(blocks)]]

\* The stakes are read at the last block; a call that fails keeps the old value.
Stakes(state, to, failed) ==
  [g \in DOMAIN state |-> IF g \in failed THEN state[g] ELSE [state[g] EXCEPT !.stakeAt = to]]

NothingNew(from, to) == to <= from

\* The state of the cycle, from the last block that the search returned.
NewState(to, failed) ==
  LET base == Base(cycle)
      from == FromBlock(base)
  IN IF NothingNew(from, to) THEN base ELSE Stakes(Processed(base, from, to), to, failed)

LogsAreRead(to) == ~NothingNew(FromBlock(Base(cycle)), to)

Publish(state) ==
  /\ states' = [c \in DOMAIN states \union {cycle} |-> IF c = cycle THEN state ELSE states[c]]
  /\ pc' = "callback"

\* The search waits for the block that ends it.  When it finds no block, or gives up
\* on errors, from_block_number is used as the last block too and the state is the
\* older one.  A failed read of the logs ends the task.
Generate ==
  /\ pc = "generate"
  /\ \/ \E failed \in IF RpcFaults THEN SUBSET Gateways ELSE {{}} :
          /\ ChainReached(cycle) /\ Before(cycle) > 0
          /\ Publish(NewState(Before(cycle), failed))
          /\ faulted' = (faulted \/ failed # {})
     \/ /\ ChainReached(cycle) /\ Before(cycle) = 0
        /\ Publish(Base(cycle))
        /\ UNCHANGED faulted
     \/ /\ RpcFaults /\ faulted' = TRUE
        /\ \/ Publish(Base(cycle))
           \/ /\ ChainReached(cycle) /\ Before(cycle) > 0 /\ LogsAreRead(Before(cycle))
              /\ pc' = "panicked" /\ UNCHANGED states
  /\ UNCHANGED <<chainVars, served, cycle, loopVars>>
-----------------------------------------------------------------------------
(* gateway_epoch_state_service.                                            *)

Pick ==
  /\ pc = "pick"
  /\ phase = "init" => cycle <= startCycle
  /\ cycle' = SkipTo(cycle, ServiceClock)
  /\ cycle' <= LastCycle
  /\ pc' = "generate"
  /\ UNCHANGED <<chainVars, states, served, loopVars, faulted>>

InitDone ==
  /\ pc = "pick" /\ phase = "init" /\ cycle > startCycle
  /\ phase' = "main" /\ pc' = "tick"
  /\ UNCHANGED <<chainVars, states, served, cycle, startCycle, ticks, faulted>>

\* The interval starts at the cycle after startCycle; missed ticks fire at once.
TickDue == ServiceClock >= startCycle + 1 + ticks

Interval ==
  /\ pc = "tick" /\ TickDue
  /\ ticks' = ticks + 1
  /\ pc' = "pick"
  /\ UNCHANGED <<chainVars, states, served, cycle, startCycle, phase, faulted>>

Callback ==
  /\ pc = "callback"
  /\ served' = served \union {cycle}
  /\ IF phase = "init" THEN cycle' = cycle + 1 /\ pc' = "pick"
     ELSE pc' = "check" /\ UNCHANGED cycle
  /\ UNCHANGED <<chainVars, states, loopVars, faulted>>

\* Slip: the inner loop forgets to go on to the next cycle.
RepeatCycle ==
  /\ pc = "check"
  /\ pc' = IF cycle = ServiceClock THEN "prune" ELSE "pick"
  /\ UNCHANGED <<chainVars, states, served, cycle, loopVars, faulted>>

Check ==
  /\ pc = "check"
  /\ IF cycle = ServiceClock THEN pc' = "prune" /\ UNCHANGED cycle
     ELSE cycle' = cycle + 1 /\ pc' = "pick"
  /\ UNCHANGED <<chainVars, states, served, loopVars, faulted>>

MaxAge == (StatesToMaintain * 3) \div 2

\* Slips: no slack for the faster clock of the service; one cycle late.
ExpiredEarly(c) == ServiceClock >= StatesToMaintain + c
ExpiredLate(c) == ServiceClock > MaxAge + c

Expired(c) == ServiceClock >= MaxAge + c

Prune ==
  /\ pc = "prune"
  /\ states' = [c \in {d \in DOMAIN states : ~Expired(d)} |-> states[c]]
  /\ cycle' = cycle + 1
  /\ pc' = "tick"
  /\ UNCHANGED <<chainVars, served, loopVars, faulted>>
-----------------------------------------------------------------------------
Tick ==
  /\ \/ early /\ clock' = clock + 1 /\ early' = FALSE
     \/ ~early /\ clock < LastCycle /\ early' = TRUE /\ UNCHANGED clock
  /\ UNCHANGED <<blocks, states, served, cycle, loopVars, pc, faulted>>

ServiceStep == Pick \/ InitDone \/ Interval \/ Generate \/ Callback \/ Check \/ Prune

Next == Tick \/ Mine \/ ServiceStep

Spec == Init /\ [][Next]_vars

\* The service is a task of the runtime; the chain and the clock go on.
FairSpec == Spec /\ WF_vars(ServiceStep) /\ WF_vars(Mine) /\ WF_vars(Tick)
-----------------------------------------------------------------------------
(* Properties.                                                             *)

TypeOK ==
  /\ clock \in Cycles /\ early \in BOOLEAN /\ ServiceClock <= LastCycle
  /\ blocks \in Seq(Block) /\ Len(blocks) \in Blocks
  /\ DOMAIN states \subseteq Cycles
  /\ \A c \in DOMAIN states : /\ DOMAIN states[c] \subseteq Gateways
                              /\ \A g \in DOMAIN states[c] : states[c][g] \in GatewayData
  /\ served \subseteq Cycles
  /\ cycle \in 1..(LastCycle + 1) /\ startCycle \in Cycles /\ ticks \in Nat
  /\ phase \in {"init", "main"}
  /\ pc \in {"pick", "generate", "callback", "check", "prune", "tick", "panicked"}
  /\ faulted \in BOOLEAN

\* The state is that of the contract as of block n: its gateways, their chains, and
\* stakes read at that block.
AsOf(state, n) ==
  /\ DOMAIN state = {g \in Gateways : Registered(g, n)}
  /\ \A g \in DOMAIN state :
       state[g] = [last |-> n, serves |-> Serves(g, n), stakeAt |-> n]

\* Built step by step from older states, skipping empty ones, a state is what the
\* contract says at the start of its cycle or one block earlier: until a call fails no
\* event is lost or applied to the wrong base (generate_gateway_epoch_state_for_cycle).
AtMostOneBlockLate ==
  ~faulted => \A c \in DOMAIN states : AsOf(states[c], Before(c)) \/ AsOf(states[c], Before(c) - 1)

\* The state of a cycle is the contract's at the start of the cycle, so gateways that
\* started at different times agree on it.
UpToDate == \A c \in DOMAIN states : AsOf(states[c], Before(c))

\* Whatever calls fail, a state is the contract's as of one block, the last block of all
\* its entries, up to the stakes: a search that gives up makes a state old and a failed
\* read leaves a stake old, but no event between two states is ever lost or replayed, and
\* no state is of an earlier block than the state of an earlier cycle (FromBlock, Base and
\* the copies of older states).
OfOneBlock ==
  \A c \in DOMAIN states : \A g \in DOMAIN states[c] :
    LET n == states[c][g].last IN
      /\ n <= Before(c) /\ DOMAIN states[c] = {h \in Gateways : Registered(h, n)}
      /\ states[c][g].serves = Serves(g, n) /\ states[c][g].stakeAt <= n
      /\ \A h \in DOMAIN states[c] : states[c][h].last = n
      /\ \A d \in DOMAIN states : d < c => \A h \in DOMAIN states[d] : states[d][h].last <= n

\* A state is gone only when every job of its cycle is refused as too old, by the
\* clock of the selection (prune_old_cycle_states, select_gateway_for_job_id).
PrunedIsTooOld == \A c \in served \ DOMAIN states : clock >= StatesToMaintain + c

\* Whenever the service has caught up and sleeps until the next tick, no state is as old
\* as 1.5 times the states to maintain, however late it began, whatever ticks it missed
\* and whatever the loops overshot before (gateway_epoch_state_service,
\* prune_old_cycle_states).
NothingExpiredAtRest ==
  pc = "tick" /\ ~TickDue => \A c \in DOMAIN states : ServiceClock < MaxAge + c

\* Every cycle that the chain reaches is served or skipped, unless the task dies.
EveryCycleHandled ==
  \A c \in Cycles : ChainReached(c) ~> (c \in served \/ c < cycle \/ pc = "panicked")

Contract == INSTANCE ServiceContract WITH
  known <- served \union (IF pc = "callback" THEN {cycle} ELSE {}),
  serviceCycle <- IF pc \in {"check", "prune"} THEN cycle + 1 ELSE cycle,
  servicePc <- IF pc \in {"generate", "callback", "panicked"} THEN pc ELSE "idle"

\* The two loops, their bursts of ticks and their skips are the service the jobs rely on.
ImplementsContract == Contract!Spec
=============================================================================
