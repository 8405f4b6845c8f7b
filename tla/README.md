# A verification of the serverless gateway

The gateway (`src/src/*.rs`) relays jobs from request chains to the common chain,
relays the responses back, and watches the other gateways: a gateway that does not
relay its job in time is reported, and the job is retried with another one. This
directory holds TLA+ models of that program, the TLC runs that check them, and
TLAPS proofs of their central properties. File names below are under `src/src/`.

## 1. The system

| component | code | state | operations |
|---|---|---|---|
| Job lifecycle | `common_chain_interaction.rs` | `active_jobs` (jobs this gateway relays), `current_jobs` (jobs it watches), the two `mpsc` channels | one spawned task per event: `job_relayed_handler`, `job_relayed_slash_timer`, `gateway_reassigned_handler`, `cancel_job_with_job_id`, `job_responded_handler`; two sender loops, `txns_to_common_chain`, `txns_to_request_chain` |
| Gateway selection | `select_gateway_for_job_id` | none of its own; reads the cycle states, pushes on the waitlist | age check, lookup, weighted draw by stake |
| Epoch state service | `common_chain_gateway_state_service.rs` | `gateway_epoch_state` (cycle -> gateway -> data), `gateway_epoch_state_waitlist`, its `cycle_number` | generate the state of a cycle from the chain's events, call the waitlist back, prune old states |
| Block search | `chain_util.rs`, `get_block_number_by_timestamp` | a local estimate of the block rate | find the last block before a timestamp |
| Job subscriptions | `job_subscription_management.rs` | `subscription_jobs`, a heap of trigger times | replay of historic events, live updates, the manager loop |
| Event confirmation | `chain_util.rs`, `confirm_event` | `last_seen_block`, shared by the streams of a chain | hold an event until it is deep enough, then check its receipt |
| Admin API, registration | `api_impl.rs`, `wait_for_registration` | `AppState`: injected flags, wallet, chain ids, `contracts_client` | inject parameters, export the registration message, start the gateway |
| Signing, configuration, bindings | `chain_util.rs`, `config.rs`, `contract_abi.rs`, `error.rs` | none | pure functions |

How they interact. The admin API builds the contracts client and starts a listener that
waits for the registration event, after which the epoch service, the event loops and the
subscription manager are spawned. The event loops take the logs of each request chain
through `confirm_event` and spawn a task per log, so the handlers of one job's events run
in any order, interleaved at every lock and await. The tasks share the two job tables and
the waitlist, each behind its own lock. A job whose cycle state does not exist yet waits
on the waitlist; the epoch service asks the block search for the last block of the
previous cycle, publishes the state built up to it, then takes the waitlist of the cycle
and handles its jobs one after the other. The subscription manager turns the instances of
a subscription into jobs that enter the same handler. Tasks send over bounded channels to
two senders, which submit one transaction at a time and wait for its confirmation. The
other gateways run the same program on the same chains: a job that they report, or relay,
comes back as an event of the common chain.

What is hard, and what makes each part correct:

* **Jobs.** No lock is held from a decision to the write it leads to; a
  `GatewayReassigned` event can reach the gateway before the attempt it ends is in a
  table; the 40 s timer races the peer it watches. Correct: a job is in one table, for one
  attempt, never ahead of the contract, and behind it only in the order of events that the
  code drops; every watched job has its timer; no gateway that relayed is reported; no job
  waits for a wake-up that was already given.
* **Epoch states.** The selection's clock and the service's differ by `offset_for_epoch`;
  a state is published and a waitlist released in two steps; a state is built from an
  older one, so that an error is inherited. Correct: a cycle's state is what the contract
  held when the cycle began, so that all gateways draw the same one; a state is dropped
  only when no job may ask for it; every cycle is served.
* **Block search.** The chain grows during the search, and the steps are estimates.
  Correct: the block found is the last one before the timestamp, and one is found.
* **Subscriptions.** Replayed and live events, updates and the manager meet in a table and
  a heap that are locked separately. Correct: a subscription is in the table exactly while
  its next instance is scheduled; each instance is triggered once, in time, until the
  termination time; the manager survives.
* **Event confirmation.** A reorg moves or drops a transaction whose log is waiting.
  Correct: what is handed on is final, and what is final is handed on.
* **Selection.** Every gateway draws for itself, from a state it built at its own pace,
  with stakes whose reads may have failed. Correct: a gateway that is drawn serves the
  chain, as often as its stake counts, and all gateways draw the same one.
* **Registration.** Requests run in parallel and share a dozen mutexes; an export awaits
  the chains between its checks and its writes. Correct: the contracts sign with the
  injected wallet, one owner and one set of chains are ever signed, one listener is
  started, no lock cycle, and the gateway starts when it is registered everywhere.
* **The network.** The gateways crash, miss events and count the attempts each for itself.
  Correct: one gateway that keeps track is enough for the job to be settled, and responses
  are sent by the gateway that relayed.

`PROJECT.json` lists every hazard at its line, with the properties that cover it.

## 2. The modules

| module | models |
|---|---|
| `JobLifecycle` | the job tasks, tables, waitlist, channels and senders; contracts and peers as environment |
| `JobBook` | abstract: the record of a job, which `JobLifecycle` and `GatewayNetwork` implement |
| `JobInvariant`, `JobLifecycle_proofs` | the inductive invariants of `JobLifecycle`; theorems |
| `GatewayNetwork`, `GatewayNetwork_proofs` | several gateways and one job, with crashes and losses; theorems |
| `EpochService` | the service's two loops, the generation of a state from the chain, pruning |
| `ServiceContract` | abstract: what the service promises the jobs, which `EpochService` implements |
| `EpochService_proofs` | theorems about `EpochService` and `GatewaySelection` |
| `GatewaySelection` | the weighted draw, on the states of `EpochService` |
| `BlockSearch`, `BlockSearch_proofs` | `get_block_number_by_timestamp` on a growing chain; theorems |
| `Subscriptions`, `Subscriptions_proofs` | replay, live handlers, heap and manager; theorems |
| `ConfirmEvent`, `ConfirmEvent_proofs` | `confirm_event` on a chain with reorgs; theorems |
| `Registration`, `Registration_proofs` | the admin API, its locks, `wait_for_registration`; theorems |
| `DataInduction` | induction over the numbers in a form the provers can use, and what it gives: least and greatest elements, folds, maxima |
| `MC...` | the constants of the small instances |

### JobLifecycle and JobBook

An action is what a task does between two points where another task can run. A task is
identified by the event that spawned it: `[event, job, seq, copy]`. `pc[t]` is where its
handler is and `held[t]` is the part of its local `Job` that matters, the sequence number
and the selected gateway. `active` and `current` are the two tables; `NoAttempt` means the
key is absent. `waitlist[c]` is the `Vec<Job>` of a cycle and `released[c]` the list the
callback handed to its task, whose jobs take turns (`Turn`). A message on a channel is the
task that sent it; the head of a channel is the message its receiver is submitting, so a
channel of capacity n holds n + 1. The weighted draw is abstracted to `selection`, the
gateway each cycle state yields for an attempt, chosen once: every gateway that holds the
same state draws the same. `chain` is what the contract accepts - the open attempt, its
status, the gateway whose relay it took - and `reassigned` the GatewayReassigned events it
emitted. A subscription's trigger enters the same handler as a JobRelayed event and is
covered by it.

Two abstractions deserve a word. Pruned cycle states stay in `known`: a state is pruned
only when jobs of its cycle are refused as too old before the lookup, which is what
`PrunedIsTooOld` of `EpochService` says. And `chain` gives a job at most one relay: a
second relay of an attempt is rejected by the contract (`AlreadyRelayed`).

`JobBook` numbers the attempts of a job without a gap; each is first chosen for, and then
this gateway's, watched, or given up.

### GatewayNetwork

`JobLifecycle` sees one gateway and lets its peers do anything; this module composes
several of them on one contract and asks what they achieve together. It is as coarse as
the handlers: `attempt` and `holder` of a gateway are the record that `JobBook` has of a
job, a whole handler is a step, and the interleavings within one gateway are left to
`JobLifecycle`. That is sound as far as both implement `JobBook`: `JobLifecycle` shows
that the tasks of one gateway do to its record what a page of the book allows
(`ImplementsBook`, `OneAttemptPerJob`), and `ImplementsBooks` that every gateway here
does. Each gateway has its own `view`, the gateway its cycle states yield for an attempt;
`Views` ranges over all of them, so gateways may disagree. Faults are a crash, which empties
tables, timers and channel, an event missed while the websocket was down, a transaction
that failed, and a timer whose `unwrap` of `get_logs` panicked. `lost` remembers them; a
selection that fails, or a GatewayReassigned event that finds no entry, sets it too, since
the gateway then drops out of the job's attempts. The env of the timer's comparison
(section 5) is taken to match, and JobCancelled is in `JobLifecycle` only. The queue to the sender has no bound here (the
code's holds 100 messages); the wait on a full one is in `JobLifecycle`.

### EpochService and ServiceContract

The chain is a sequence of blocks, each with the cycle its timestamp falls in and at most
one event of the Gateways contract; `Registered` and `Serves` are the contract's state as
of a block. Time passes in half cycles: the selection subtracts `offset_for_epoch` and is
at `clock`, the service may be one ahead (`early`). `states` is `gateway_epoch_state`; an
entry keeps its last block, whether it serves the request chain, and the block its stake
was read at, which stands for the stake. `pc` follows the service: `Pick` skips cycles that
are almost too old, `Generate` is `generate_gateway_epoch_state_for_cycle` (base state,
logs since, each applied in order, stakes), `Callback` releases the waitlist, `Check` and
`Prune` end an inner loop, `Interval` is a tick of the timer, and missed ticks come at
once. `Generate` is one step because nobody reads what it builds before it is published;
it takes from the block search its result, and from its errors the fallback to
`from_block_number`. `faulted` is a history variable: it remembers that a call has failed,
since a failed search or stake read may copy an older state for good. Logs of one block keep their order in the code, so one event a block
loses nothing but the number of blocks.

`ServiceContract` has neither chain nor states: cycles in order, skipped when almost too
old, published not before they begin, called back in a later step. It ties two modules
together: `EpochService` keeps it (`ServiceKeepsContract`), and the service that
`JobLifecycle` reckons with takes exactly its steps (`JobsReckonWithTheContract`). The
contract starts after the first skip of old cycles and `JobLifecycle` before it, with the
same cycle published first.

### GatewaySelection

`Eligible`, `Distribution`, `Draws` and `Search` are the loop, the running totals, the
range of the generator and the binary search of `select_gateway_for_job_id`. The code keeps
addresses and totals in two vectors in the order of the `BTreeMap`; here a total is keyed
by its gateway, and gateways are numbers in the order of their addresses. A sum of shares
is the number of `Units`, pairs of a gateway and a number up to its share. Which number the seeded
generator yields, and the skips of later attempts, are left open: the properties speak of
every draw. `StakeOf` and `DrainingAt` are what `gateways()` returns at a block; an entry
whose read has failed keeps the block of an earlier read, or none, which is zero and false.
The assumption that `Factor` is at most `MinStake` is the code's (1e18 and 111.11e18): no
gateway above the minimum loses its share in the division. The properties look at the
state of a cycle when it is published; it does not change afterwards.

### BlockSearch

`stamp` is the chain, one timestamp a block; `bn`, `first`, `earliest`, `rate` and
`retries` are the variables of the function. A step fetches one block and does all the loop
does with it, so blocks are mined between any two fetches. The rate is an `f64` in the code
and a fraction here; all products of the runs' numbers truncate to the same integer in
both. The subtraction that wraps in `u64` does not occur: every difference is taken after
the comparison that makes it positive.

### Subscriptions

`log` is the subscription events of the request chain, `cut` how many of them the gateway
replays. The code replays up to the block before the one it started at and subscribes to
new events later: what is emitted in between is in neither stream, and is here a live event
whose task never begins. `task[t]` is the handler of event `t[1]`, delivery `t[2]`; replayed events are
handled by one task in order, live ones by tasks of their own. A job is start, interval and
termination time. Inputs, output, fees and sizes are not modelled, so an update of the
parameters changes nothing but can still find its job gone. `heap` is a bag, since the
`BinaryHeap` holds equal entries; the manager's `peek`, wait, pop, lookup and push are
steps, and so is each lock that a handler takes. The panic of an `unwrap` under a write
lock poisons the lock; every later access panics. The trigger of a first instance and the
read that follows it are one step: nothing that others write lies between them but the
spawn of the job.

`Copies`, `Kinds` and `Replayed` select the environments of the runs: how often live
events are delivered, which kinds occur, and how long the log is when the gateway begins.
`Room` bounds the log: its last event comes only while an update is about to find its job
gone, which is when a third event matters.

### ConfirmEvent

`block` is where the chain has each transaction now, `stream` the logs of `eth_subscribe`,
with the removals a reorg announces. The stream of events takes one log at a time: it polls
the head until `last_seen_block` is deep enough, then asks for the receipt. Another
stream of the same chain can only bring `lastSeen` closer to the head. A transaction that
a reorg drops may be included again in a later block, with a log of its own. The branch for a
log without a transaction hash is not modelled: a mined log has one.

### Registration

An action is what a request does under one mutex; `At` is a request that waits for the
mutex of its point, `Keep` a guard that lives on, `Glance` one that is dropped at once,
`Reply` the end of a handler and of its guards. `WaitsAt` lists who waits for what, from
which `WaitsFor` is defined. What an export reads before it awaits the chains is in
`seen[r]`. The contracts client is its owner, its chains and, for each chain, the wallet
its contract instances sign with; `Resign` replaces one of them at a time. An instance of
the request chains stands for the relay contract and the subscription contract, whose
write locks are taken one after the other with nothing in between that this module tells
apart. The listener is a task per chain: connecting, subscribed, done or panicked.
`eth_subscribe` gives no past logs, so an event that falls between two subscriptions is
missed. A request chain no longer reorgs once its watcher is done with it, and the common
chain never does: its log is taken as it is. A log of a request chain goes through
`confirm_event`, which `ConfirmEvent` models in detail and which here does not hand on an
event that a reorg has taken. `run` starts an event loop per chain, the epoch service and
the subscription manager: `loops`.

Left out are returns that read and write nothing: invalid hex, a URL that does not parse
(the same URL was parsed when the client was built), an `unwrap` of a failed
`get_block_number` in an export, which holds no lock.

In all modules an event that a lost websocket swallows is covered for safety, since no
delivery is ever forced; only the liveness properties speak of events that were delivered.

## 3. The runs

There are few runs on purpose, each for a question of its own; a run checks every property
that its instance is large enough for, and its faults are on unless a property needs them
off.

| run | instance | shows |
|---|---|---|
| `JobOneJob` | 1 job, 2 attempts, 3 cycles, all 27 selections, calls fail, transactions get lost, timers and the service panic | one attempt per job, never ahead of the contract, behind it only if the event of its end came before the entry, never back once gone; nobody forgotten on the waitlist but at the edge of too old; refinement of `JobBook` |
| `JobRetries` | 1 job, 3 attempts, every selection, 1 cycle, channels of capacity 1, fairness | a watched job has its timer or its report was mined; nobody waits forever on a waitlist, a turn or the full channel to the common chain; every delivered event is handled to its end |
| `JobSlashEnv` | a job id whose low byte is not its env | violation: a gateway that relayed is reported |
| `NetFaults` | 2 gateways with every pair of selections, 2 attempts, every fault at any time, fairness for each gateway | a gateway that loses nothing settles the job whatever happens to the chosen one; responses come from the gateway that relayed; no job is left in `active_jobs` but the one it relayed; each gateway is a page of `JobBook` |
| `EpochStates` | 2 gateways with stakes that change, 3 cycles, 5 blocks, every event history, timestamps ahead, calls fail | a state is the contract's, or one block late, until a call fails, and the contract's as of its last block whatever fails, no older than an earlier cycle's; the selection from it is by stake, and agrees with the contract's; `ServiceContract` is kept |
| `EpochBounded` | 4 cycles, 5 blocks, no gateways, timestamps ahead, calls fail, a service of any pace, fairness | what is pruned is too old, nothing due is left when the service rests, every cycle is served or skipped |
| `EpochOneBlock` | 1 gateway | violation: the single block of a cycle counts a cycle later |
| `SubEvents` | 2 events and a late one, of one subscription or two, each replayed or live, any order | table and heap agree, the manager runs, the instances are triggered one after the other and in time, the manager never sleeps past an entry, and when everybody waits nothing that was due is missing |
| `SubPoison` | updates race the manager | violation: a handler panics and poisons the table |
| `SearchResult` | every chain of 7 blocks with gaps of 0 to 3 s, every target, calls fail, fairness | what is found is the last block before the target; the answer is never excluded; it gives up only when there is none, unless blocks come faster than before; with a block a second the search ends |
| `RegTwoRequests` | 2 requests of any kind at a time, 2 owners, 2 wallets, 2 chains, calls fail, websockets drop, reorgs, fairness for the listener | the contracts sign with the injected wallet, one identity and one listener, no lock cycle, started only when registered everywhere, and then started unless an event was lost |
| `ConfirmFinal` | 2 transactions, 2 confirmations, reorgs of 2, re-inclusion, calls fail, fairness | what is handed on is final; what is final is handed on |

`JobLifecycle` has one gateway and one peer, which is enough for each side of every
comparison the code makes (self or not, the same gateway or another).

Bounds. `MaxGatewayRetries` is the code's own 2 in `JobOneJob`. `JobRetries` has 3: a
channel that holds one message and the one in flight takes two, and a job sends at most one
message an attempt to the common chain, so only the third one finds it full. The code's
channels hold 100 messages, and it takes about as many jobs to fill them. The channel of
the responses is guarded in the same way and never full in the runs, as a job is answered
once. `StatesToMaintain` is 2 instead of 5: a job of cycle 1 can be current, late and too
old within 3 cycles, and the service can skip a cycle. A state is pruned when it is 3
cycles old, which takes the 4 cycles of `EpochBounded`; in `EpochStates` with 3 nothing is
pruned, and the properties there do not speak of it. In `JobRetries` one cycle is enough: a
job waits for it or it is there. Jobs that share a waitlist are covered by the theorem
`NoWakeupIsLost`, not by a run. `U64Limit` only has to separate ids that fit from ids that do not. Five
blocks let a gateway register, leave and return over three cycles with a block between. A
search sees at least two jumps in each direction in a chain of 7. Intervals of 1 and 2 with
a clock of 3 give up to three instances, some at the termination time, some after it;
window 1 makes an instance old, or not, at replay. Live events are delivered once in the
runs; what holds for repeated ones is proved (`NeverOversleeps`, `NeverAhead`). Two requests are enough for every pair of
handlers to meet at every lock, two owners, wallets and chains for them to differ; an
export asks for one chain or none. Two gateways give a chooser and a chosen one in each
attempt; three were too slow to run with every view, and the theorems hold for any number.
The stakes are numbers around the minimum with different and equal shares, below it and
above it, and one gateway leaves. Retries in `ConfirmEvent` are 2 instead
of 5: one that is used and one that ends it. Deadlock is not checked: when every event is
handled and the clocks and chains are at their bounds, the models stop, as the program
idles. `RegTwoRequests` checks it: requests can always arrive, unless one is stuck.

In `EpochBounded` nothing is assumed of the pace of the service: the clock may move between
any two of its steps. `NothingExpiredAtRest` is about a service that waits for a tick that
is still to come. A burst of missed ticks with timestamps ahead of the clock, or a search
that gives up, can take the inner loop past the clock's cycle: it then serves each cycle
early, does not end while it stays ahead, and prunes nothing, and neither property says
otherwise (section 5).

Fairness. Jobs: the runtime runs every ready task and every timer expires (weak fairness
per task), the two senders and the service are loops. Epoch: the service is a task, the
chain is mined and the clock goes on. Search: the chain is mined and the search's calls are
answered. Network: a gateway
that runs handles every event that is not lost and every timer, and its sender goes on.
Registration: the runtime runs the listener's tasks; requests, owners and chains do what
they like. Confirmation: the chain is
mined and the stream's task goes on; reorgs need not happen. Nothing is assumed of the
peers, of the delivery of events or of what the chains contain. The liveness of the
subscriptions is stated without fairness: `CaughtUp` says that when everybody waits,
nothing that was due is missing.

## 4. The proofs

`JobLifecycle_proofs` proves, for every value of the constants that satisfies
`ConstantsAssumption`:

* `TypeCorrect`: `TypeOK`. Inductive with `HeldInv` (what a task holds at each point) and
  `WaitlistInv` (exactly waiting tasks are on a waitlist).
* `OneAttempt`: `OneAttemptPerJob`, if every event is delivered once. The invariant is
  `OneToken`: a job has one token, which is its first event, a table entry, the task
  choosing for it or the task replacing it. A task that cancels an attempt keeps the token
  between its two removals (`Replacing`), which is why the tables alone are not inductive.
  With duplicated events the property is false - two GatewayReassigned tasks can both pass
  the sequence check before either removes - hence the assumption.
* `NoWakeupIsLost`: `NobodyForgotten`, the waitlist against the service, with
  `ServiceInv`, whatever is delivered and however many jobs wait. That a waiting task is on
  the list of its cycle (`WaitingIsListed`) is part of it.
* `NeverAhead`: `AttemptNotAhead`, from the order of the contract's events (`OrderInv`).
* `EntriesWatched`: `TrackedMeansWatched`, when no timer can panic. A report that was mined
  counts as the end of the watch only if the attempt was reassigned or the job was not open
  any more (`ReportInv`), and an entry belongs to a task that watches it or has reported
  (`EntriesTasked`).
* `StaleEntriesOvertaken`: `StaleOnlyIfOvertaken`, if every event is delivered once. An
  attempt that the contract has moved past has a GatewayReassigned event of its own
  (`Announced`). Once handled, it either took the entry out and is at the next attempt
  (`PastInv`), or found none and was dropped.
* `GoneStaysGone`: `GoneForGood`, an action property, also with duplicated events: a task
  that brings a job back took it from a table, or carried it, at the step before.
* `RecordIsKept`: the refinement of `JobBook`, if every event is delivered once. The
  mapping takes the largest attempt number that a task of the job holds. The invariant
  `BookInv`, on top of `OneToken`, says that the attempt being chosen for, being replaced
  or in a table is that largest one (`Top`), and that a task that has not looked into the
  tables holds none. Each step is first described by what it does to one job's record
  (`RecordNext`: nothing, the next attempt, the end of a choice or an entry), and
  `BookStep` turns this into a step of the book.
* `JobsReckonWithTheContract`: what the jobs assume of the epoch service is
  `ServiceContract`, step for step.

`ConstantsAssumption` asks that each event is delivered at least once (`RequestCopies` and
`CommonCopies` are not empty), that channels have room for a message and that a job has an
attempt; all else is typing. Only liveness (`TasksFinish`) is left to the runs.

`GatewayNetwork_proofs` proves, for any number of gateways and attempts, any views and any
faults, `AnswersAreOwn`, `NothingIsLeft` and `NetworkImplementsBooks`, from one inductive
invariant: a gateway's attempt has no gap to the events it has seen or lost, timers run
for attempts it began, a message on a channel was preceded by its table entry, and the
contract's relay came from the gateway whose attempt it was. A gateway that holds an
attempt the contract has left is one that still has to handle the event (`Behind`), from
which `AnswersAreOwn` follows for the moment of the answer.

`Registration_proofs` proves `SignersAreTheWallets`, `MessagesAgree`, `StartsRegistered`,
`LocksAreOrdered` and `TypeCorrect` for any requests, owners, wallets and chains. The
invariant says which locks a request holds at each point, that what it has read before is
still true while it holds them, and that a request in `resign` is the only reason for a
signer to differ from the wallet. `LocksAreOrdered` gives each lock a rank that rises along
every handler: in a group of requests that all wait within the group, the one waiting for
the highest lock would have to wait for a higher one.

`EpochService_proofs` proves, for every chain of any length and any number of gateways:

* `TypeCorrect`, from `EpochInv`: what the two loops and the chain know of each other
  (`LoopInv`, `ChainInv`) and, for every state held, that it is the contract's as of its
  last block but for stakes it could not read (`StateInv`).
* `StatesAreOfOneBlock` (`OfOneBlock`), whatever fails. That the blocks of the states rise
  with the cycles (`OrderInv`) holds because a state is built from the newest older one that
  has gateways. The state of a cycle is computed by
  a fold over the logs of a range of blocks; `Iteration` of `DataInduction` reduces it to a
  fact about one log, which is that applying the event of a block to the contract's state
  before it gives the state after it.
* `StatesAreAtMostOneBlockLate` (`AtMostOneBlockLate`): until a call fails, the block a
  state is of is the last before its cycle or the one before. It needs that the search
  finds the last block (which `BlockSearch_proofs` proves of the search), and that the base
  of a fold is a state of an earlier cycle.
* `PrunedStatesAreTooOld` (`PrunedIsTooOld`), whatever fails, if `StatesToMaintain` is at
  least 2. The invariant adds that a cycle about to be served has a state. The argument is
  the slack in the age of a pruned state: 3/2 of n is at least n + 1, which pays for the
  cycle by which the service's clock may be ahead of the selection's (`MaxAgeHasSlack`);
  with n = 1 it would not hold.
* `OldStatesArePruned` (`NothingExpiredAtRest`), for every chain, pace and fault. Each tick
  fires in the cycle it is due or later (`RestInv`), so while none is due the clock shows
  the cycle of the last one: it has not moved since the last prune. Before the first tick
  the states are those of the initial loop, which are younger.
* `ServiceKeepsContract`: the refinement of `ServiceContract`, if calls may fail or no
  timestamp is ahead. With a timestamp ahead of the clock a state is published before its
  cycle has begun; the contract allows that only along with failing calls.
* `DrawsFollowStake` (`SelectsByStake`) and `GatewaysSelectAlike` (`SelectsAlike`), about
  the states when they are published (`CallbackInv`). The draws that the binary search
  gives a gateway are the numbers between the running total before it and its own;
  their number is its share, by counting the units of both totals. That some entry is not
  below a draw, and that the first such is unique, is `Least` on the eligible gateways.

`BlockSearch_proofs` proves the result of the search for chains of any length, any gaps and
any initial rate: `FoundIsLastBlock`, `AnswerIsNotExcluded` and `TypeCorrect`. The
estimates play no part in it. The invariant `BoundInv` says what the bound knows: no block
above it is before the target, nor is the bound itself, unless it is the candidate, put
there by the clamp without a look. `PointInv` says what the two comparisons have
established at each point of the loop, and `Ordered` carries both over the growth of the
chain. `LastBeforeIs` and `LastBeforeAtMost` turn them into the number of the last block.
Type correctness is the absence of negative differences, which the code's `u64` could not
hold. `SearchGivesUpRightly` (`GivesUpRightly`) is about the estimates: where blocks never
come faster than before, the blocks behind a block took at most their number times the gap
at it (`GapsBehind`), and those ahead of it at least theirs (`GapsAhead`), both by induction
over the blocks. A step back is the distance to the target at the pace measured
ahead, so it is no longer than there are blocks behind (`EstimateFits`, `StepBackFits`), and
a search that passes the first block has one that is not before the target (`GiveUpInv`).

`ConfirmEvent_proofs` proves `HandledStaysFinal` and `TypeCorrect` for any confirmation
depth that is at least the depth of the reorgs. The invariant is that `lastSeen` is never
ahead of the head and that a handled log's block is `Confirmations` below it.

`Subscriptions_proofs` proves `TypeCorrect` and `NeverOversleeps` (`WaitsForTheEarliest`)
for any number of subscriptions and events, also when live events are delivered twice. The
invariant says that all events of a subscription agree on its start and interval, that a
job was announced by one of them (`JobsInv`), and that every time in the heap, or about to
be pushed, is one at which its subscription has begun (`Begun`), which is why no instance
number is negative. The manager cannot oversleep because it wakes at the minimum of the
heap it saw (`WakeIs`), and whoever pushes after that still has its message to send.

If every event is delivered once (`Copies` = 1) it also proves:

* `KeptWhileScheduled` (`KeptIffScheduled`), from `KeepInv`: a subscription has one token,
  which is its entry in the heap, the manager holding it, or the task about to push it
  (`TokenInv`), a job is inserted by its start event only (`OnceInv`), and no task stands
  before the panic of a lookup while nobody has panicked (`CalmInv`).
* `InstancesOnSchedule` (`OnSchedule`) and `NothingIsMissed` (`NothingMissed`), from
  `ScheduleInv`: what was triggered is an initial segment of the instances up to the one
  in the heap (`FiredInv`), termination times are those the chain announced so far
  (`TermInv`), the manager wakes when the earliest entry is due (`WakeInv`), and how a job
  stands to its plan until, and after, its last instance (`PlanInv`, `EndInv`).

With `Copies` = 2 the first is false (section 5).

`DataInduction` proves induction over the natural numbers in a form that names a set where
the library's theorem has an operator as a parameter, which the provers cannot instantiate:
the property becomes the set of the numbers that have it. It rests on `FS_Interval` and
`FS_Subset`: a set of numbers from 1 to n that has, with a number, all below it, has as
many elements as its last says. Least and greatest elements, the maximum that the
community modules define with CHOOSE, and the value of a `FoldLeft` follow.

The invariants of `JobInvariant`, `KeepInv`, `ScheduleInv` and `GiveUpInv` also hold in TLC's
runs of their components. The type invariants of `GatewayNetwork` and `ConfirmEvent` are
proved and left out of the runs.

Only model-checked: the liveness properties (`TasksFinish`, `EveryCycleHandled`,
`SearchEnds`, `FinalEventsHandled`, `StartsOrIsLost`, `JobSettles`), since fairness and
ENABLED are outside the prover's reach. Every other property of a passing run is a theorem.

## 5. Where the code and its words part

Three runs end in a violation of what the repository says of the program, and are the
findings of `PROJECT.json`, each with the line it contradicts:

* `JobSlashEnv`: the slash timer takes the env of a relay from the topic of the job id, so
  it reports a gateway whose relay is on the chain. The other runs of `JobLifecycle` use
  job ids whose low byte is the env, for which the comparison comes out right.
* `EpochOneBlock`: a cycle with a single new block keeps the state of the cycle before,
  though the comment speaks of no block.
* `SubPoison`: a subscription update takes a job to be there under a second lock; when it
  is gone the task panics and poisons the table for all, the manager included.

Other edges are premises in the properties that hold, each named where it stands:

* `~faulted` in `AtMostOneBlockLate`: a search that fails copies an older state, in which a
  gateway that left may be back, and nothing repairs it.
* `BlockEachSecond` in `SearchEnds`: on a slower chain a step forward can be truncated to
  no block and is repeated for ever.
* `NeverFaster` in `GivesUpRightly`: where blocks come faster than before, an estimate from
  the blocks behind the candidate steps past the first block and the search gives up.
* `Behind` in `AnswersItsOwn`: until a gateway has handled the event that ended its attempt
  it answers a job that another one relayed.
* `~lost[g]` in `JobSettles`: if every gateway that watches a job misses an event of it,
  nobody retries it.
* `Lost(c)` in `StartsOrIsLost`: a panicked subscription, or an event that falls between two
  subscriptions, leaves the gateway waiting for good, with the listener flag set.
* `h.log = h.block` in `HandledIsFinal`: a transaction that a reorg moved to a later block
  is handed on when its old block is deep enough.
* `WithinTermination` exempts replayed subscriptions: an interval longer than the window
  moves the next instance past the termination time after the comparison with it.
* `RunsUntilTermination` exempts subscriptions whose termination time was raised: replayed,
  the job is judged by its first termination time; live, it can be gone when the extension
  comes.
* `pc[t] = "ignored"` in `StaleOnlyIfOvertaken`: a GatewayReassigned event that comes before
  the entry it ends is dropped, and the entry is watched or relayed although it is over.
* `NoPanics` and `ReportSettled` in `TrackedMeansWatched`: a timer whose `get_logs` fails,
  and a report that is rejected because the relay was mined after the timer's look, leave an
  entry in `current_jobs` for good.
* `OfOneBlock` compares a state with earlier ones that have gateways: across a cycle without
  any, a search that fails brings back those of the cycle before.
* An inner loop of the epoch service that has stepped over the clock's cycle, after a burst
  of ticks with timestamps ahead of the clock or a search that gave up, prunes nothing while
  it stays ahead; `NothingExpiredAtRest` is about the service at rest.
* `KeptIffScheduled` and `OneAttemptPerJob` speak of events that are delivered once: a start
  event delivered twice puts two entries of one job in the heap, and the second one's turn
  can find no job and end the manager.
* `PeersAgree`: in the runs all gateways draw from the same cycle state, so nobody else
  decides about an attempt that this gateway holds. The theorems do not need it.

## 6. The plan

Built: every component of section 1 that has state, and a theorem for each property that is
not liveness. What is left is to say more:

1. Measures for the liveness properties: that no step of the search, of a handler or of the
   listener raises a measure, which with the fairness of the runs is why they end.
2. `BlockSearch` and `EpochService` joined by an abstract search, as `JobLifecycle` and
   `EpochService` are by `ServiceContract`.
3. `JobLifecycle` with duplicated events: which part of `OneAttemptPerJob` survives them.

## 7. What is not modelled, and why

* `index`, the ping handler: no state.
* The seeded generator: any number it can yield is a draw of `GatewaySelection`.
* Hashing, signing, JSON and the generated contract bindings: pure functions, with no
  interleaving. `chain` takes a signed response as the gateway's.
* Gas price, nonce and receipt handling inside a transaction: a transaction succeeds, fails
  or is lost.
* Payments, and the bytes of code, inputs and outputs: carried, never looked at.
* The contracts: external. They are in the models as far as their events and rejections
  decide what the gateway does.
