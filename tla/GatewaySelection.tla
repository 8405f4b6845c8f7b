-------------------------- MODULE GatewaySelection --------------------------
(***************************************************************************)
(* The weighted draw of select_gateway_for_job_id, on the states that the  *)
(* gateway epoch state service publishes: the gateways of the job's chain  *)
(* with enough stake, in the order of their addresses, each with a share   *)
(* of the numbers from 1 to the total that is as long as its stake.        *)
(*                                                                         *)
(* Which number the seeded generator yields is left open: every property   *)
(* speaks of all draws.  Age, waitlist and lookup are JobLifecycle's.      *)
(***************************************************************************)
EXTENDS EpochService

CONSTANTS
  StakeOf,     \* of a gateway and a block: the stake, as gateways() returns it
  DrainingAt,  \* of a gateway and a block: is the gateway draining?
  MinStake,    \* MIN_GATEWAY_STAKE
  Factor       \* GATEWAY_STAKE_ADJUSTMENT_FACTOR

\* A stake above the minimum is not lost in the division by the factor.
ASSUME StakeAssumption ==
  /\ StakeOf \in [Gateways -> [Blocks -> Nat]]
  /\ DrainingAt \in [Gateways -> [Blocks -> BOOLEAN]]
  /\ Factor \in Nat \ {0} /\ MinStake \in Nat /\ Factor <= MinStake

\* stake_amount and draining of an entry: zero and false until they are read.
StakeAmount(g, data) == IF data.stakeAt = 0 THEN 0 ELSE StakeOf[g][data.stakeAt]
Draining(g, data) == data.stakeAt # 0 /\ DrainingAt[g][data.stakeAt]

Selectable(state, g) ==
  state[g].serves /\ StakeAmount(g, state[g]) > MinStake /\ ~Draining(g, state[g])

\* The gateways that the loop over the BTreeMap pushes, in the order of their addresses.
Eligible(state) == {g \in DOMAIN state : Selectable(state, g)}

Share(state, g) == StakeAmount(g, state[g]) \div Factor

\* The units of stake of some gateways: as many as the sum of their shares.
Units(state, gateways) == UNION {{g} \X (1..Share(state, g)) : g \in gateways}

\* stake_distribution: for each gateway the running total of the shares.
Distribution(state) ==
  [g \in Eligible(state) |-> Cardinality(Units(state, {h \in Eligible(state) : h <= g}))]

TotalStake(state) == Cardinality(Units(state, Eligible(state)))

\* Slip: numbers drawn from zero.
DrawsFromZero(total) == 0..(total - 1)

Draws(total) == 1..total

\* What the binary search returns, found or not: the first entry not below the draw.
Search(distribution, draw) ==
  CHOOSE g \in DOMAIN distribution :
    /\ draw <= distribution[g]
    /\ \A h \in DOMAIN distribution : h < g => distribution[h] < draw

Selected(state, draw) == Search(Distribution(state), draw)

\* The selection fails if nobody has a stake.
Selections(state) == {Selected(state, draw) : draw \in Draws(TotalStake(state))}
-----------------------------------------------------------------------------
(* Properties.                                                             *)

\* The cycle whose state has just been published: no state changes after that.
Published == IF pc = "callback" THEN {cycle} ELSE {}

\* The gateway served the job's chain at the last block of its cycle's state, and at the
\* block its stake was read it had the minimum and was not leaving.
ServesWell(g, data, c) ==
  /\ Serves(g, data.last) /\ data.last <= Before(c)
  /\ data.stakeAt \in 1..data.last
  /\ StakeOf[g][data.stakeAt] > MinStake /\ ~DrainingAt[g][data.stakeAt]

DrawsOf(state, g) ==
  Cardinality({draw \in Draws(TotalStake(state)) : Selected(state, draw) = g})

\* Whatever calls failed and whichever number is drawn, the gateway that is selected
\* serves, and each one is selected by exactly as many draws as its stake counts
\* (select_gateway_for_job_id on the states of generate_gateway_epoch_state_for_cycle).
SelectsByStake ==
  \A c \in Published :
    /\ \A g \in Selections(states[c]) : ServesWell(g, states[c][g], c)
    /\ \A g \in DOMAIN states[c] :
         DrawsOf(states[c], g) = IF Selectable(states[c], g) THEN Share(states[c], g) ELSE 0

\* The contract's own state as of block n.
ContractState(n) ==
  [g \in {h \in Gateways : Registered(h, n)} |->
     [last |-> n, serves |-> Serves(g, n), stakeAt |-> n]]

\* The last block before the cycle changed nothing that the draw depends on.
Unchanged(n) ==
  n > 1 /\ Distribution(ContractState(n)) = Distribution(ContractState(n - 1))

\* Until a call fails, gateways that started at different times select alike for a
\* cycle unless the last block before it changed a stake or a chain: each of them
\* selects as the contract's state would.
SelectsAlike ==
  ~faulted => \A c \in Published :
    Unchanged(Before(c)) =>
      \A draw \in Draws(TotalStake(ContractState(Before(c)))) :
        /\ draw \in Draws(TotalStake(states[c]))
        /\ Selected(states[c], draw) = Selected(ContractState(Before(c)), draw)
=============================================================================
