---------------------------- MODULE JobLifecycle ----------------------------
(***************************************************************************)
(* The life of a job inside one gateway (common_chain_interaction.rs): the *)
(* tasks spawned for the events of the request chain and of the common     *)
(* chain, the two job tables they share (active_jobs: jobs this gateway    *)
(* relays, current_jobs: jobs it watches another gateway relay), the       *)
(* waitlist of jobs whose cycle state is not there yet, the epoch service  *)
(* that wakes them, and the two channels to the transaction senders.       *)
(*                                                                         *)
(* Each delivered event spawns a tokio task, so a task is identified by    *)
(* its event.  One action is the code a task runs between two points where *)
(* another task can interleave: a lock taken and released, an await.       *)
(* The contracts and the other gateways are environment actions.           *)
(***************************************************************************)
EXTENDS Integers, Sequences, FiniteSets

CONSTANTS
  JobIds,             \* job ids, as numbers: the slash timer looks at the value
  Self, Peers,        \* enclave_address, and the other gateways
  NoGateway,          \* "no gateway": None, or an Err of the selection
  MaxGatewayRetries,  \* MAX_GATEWAY_RETRIES
  StatesToMaintain,   \* GATEWAY_BLOCK_STATES_TO_MAINTAIN
  LastCycle,          \* bound: the last cycle the clocks and the service reach
  JobCycle,           \* the cycle of each job's starttime
  JobEnv,             \* the execution environment of each job
  U64Limit,           \* job ids at or above it do not fit a u64
  ChannelSize,        \* capacity of each mpsc channel
  RequestCopies,      \* the deliveries of each event of the request chain,
  CommonCopies,       \* and of the common chain: a reorg delivers events again
  PeersAgree,         \* do the peers compute the same selection as Self?
  RpcFaults,          \* may RPC calls fail and transactions get lost?
  Selections          \* the selections the cycle states may yield

Gateways == Peers \union {Self}
Attempts == 1..MaxGatewayRetries
Cycles == 1..LastCycle

ASSUME ConstantsAssumption ==
  /\ JobIds \subseteq Nat /\ U64Limit \in Nat
  /\ Self \notin Peers /\ NoGateway \notin Gateways
  /\ MaxGatewayRetries \in Nat \ {0} /\ StatesToMaintain \in Nat \ {0}
  /\ LastCycle \in Nat \ {0}
  /\ JobCycle \in [JobIds -> Cycles] /\ JobEnv \in [JobIds -> 0..255]
  /\ ChannelSize \in Nat \ {0} /\ RequestCopies # {} /\ CommonCopies # {}
  /\ PeersAgree \in BOOLEAN /\ RpcFaults \in BOOLEAN
  /\ Selections \subseteq [JobIds -> [Attempts -> Gateways \union {NoGateway}]]

\* Every event is delivered once.
ExactlyOnce ==
  (\A a, b \in RequestCopies : a = b) /\ (\A a, b \in CommonCopies : a = b)

\* The fields of a Job that its handling changes or branches on.
Attempt == [seq : 0..MaxGatewayRetries, gateway : Gateways \union {NoGateway}]
NoAttempt == [seq |-> 0, gateway |-> NoGateway]

CancelEvents == {"JobCancelled", "JobResourceUnavailable"}
RequestTask == [event : {"JobRelayed", "JobCancelled"},
                job : JobIds, seq : {0}, copy : RequestCopies]
CommonTask == [event : {"JobResponded", "JobResourceUnavailable"},
               job : JobIds, seq : {0}, copy : CommonCopies]
ReassignedTask == [event : {"GatewayReassigned"},
                   job : JobIds, seq : Attempts, copy : CommonCopies]
Task == RequestTask \union CommonTask \union ReassignedTask

\* A task holds its job's current attempt: the gateway is being chosen, or it
\* has been chosen and the attempt is not yet in a table.
CarryingPcs == {"select", "waitlisted", "store"}
\* A task that watches the attempt it put into current_jobs.
WatchingPcs == {"timer", "untrack", "slash", "queuedSlash"}
CancellingPcs == {"cancelActive", "cancelCurrent"}
AnsweringPcs == {"decode", "reread", "remove", "respond", "queuedResponse",
                 "responseSubmitted"}
FinishedPcs == {"dropped", "relaySubmitted", "untracked", "slashSubmitted",
                "cancelled", "exhausted", "ignored", "responded", "panicked"}
Pcs == CarryingPcs \union WatchingPcs \union CancellingPcs \union AnsweringPcs
       \union FinishedPcs \union {"idle", "lookup", "send", "queuedRelay"}

VARIABLES
  active,        \* active_jobs: job id -> attempt (NoAttempt: no entry)
  current,       \* current_jobs
  waitlist,      \* gateway_epoch_state_waitlist: cycle -> Vec<Job>
  released,      \* the job lists handed to the tasks the callback spawned
  known,         \* the keys of gateway_epoch_state
  serviceCycle,  \* cycle_number of the epoch service
  servicePc,     \* where the epoch service is
  clock,         \* the cycle of the wall clock, as the selection computes it
  relayChan,     \* channel to txns_to_common_chain; its head is being submitted
  responseChan,  \* channel to txns_to_request_chain; its head is being submitted
  pc, held,      \* of each task: where it is, and the attempt it holds
  selection,     \* the gateway each cycle state yields for (job, attempt)
  chain,         \* GatewayJobs contract: attempt, status, relaying gateway
  reassigned     \* GatewayReassigned events: (job, attempt) -> prevGateway

tables == <<active, current>>
waiting == <<waitlist, released>>
service == <<known, serviceCycle, servicePc>>
chans == <<relayChan, responseChan>>
tasks == <<pc, held>>
environment == <<clock, selection>>
contracts == <<chain, reassigned>>
vars == <<tables, waiting, service, chans, tasks, environment, contracts>>

Init ==
  /\ active = [j \in JobIds |-> NoAttempt]
  /\ current = [j \in JobIds |-> NoAttempt]
  /\ waitlist = [c \in Cycles |-> <<>>]
  /\ released = [c \in Cycles |-> <<>>]
  /\ known = {}
  /\ serviceCycle = 1
  /\ servicePc = "idle"
  /\ clock \in Cycles
  /\ relayChan = <<>>
  /\ responseChan = <<>>
  /\ pc = [t \in Task |-> "idle"]
  /\ held = [t \in Task |-> NoAttempt]
  /\ selection \in Selections
  /\ chain = [j \in JobIds |-> [seq |-> 1, status |-> "open", by |-> NoGateway]]
  /\ reassigned = [j \in JobIds |-> [s \in Attempts |-> NoGateway]]
-----------------------------------------------------------------------------
(* The contracts, as far as the gateway's transactions and events show them. *)

\* relayJob and reassignGatewayRelay are accepted for a job that is not
\* relayed yet, with the contract's own sequence id.
AcceptsAttempt(j, s) == chain[j].status = "open" /\ chain[j].seq = s

RelayMined(j, s, g) ==
  /\ IF AcceptsAttempt(j, s)
       THEN \E st \in {"relayed", "unavailable"} :
              chain' = [chain EXCEPT ![j].status = st, ![j].by = g]
       ELSE chain' = chain
  /\ UNCHANGED reassigned

ReassignMined(j, s, old) ==
  IF AcceptsAttempt(j, s)
    THEN /\ chain' = [chain EXCEPT ![j].seq = s + 1]
         /\ reassigned' = [reassigned EXCEPT ![j][s] = old]
    ELSE UNCHANGED contracts

Emitted(t) ==
  \/ t.event = "JobRelayed"
  \/ /\ t.event = "JobCancelled"
     /\ \E u \in Task : u.event = "JobRelayed" /\ u.job = t.job /\ pc[u] # "idle"
  \/ t.event = "GatewayReassigned" /\ reassigned[t.job][t.seq] # NoGateway
  \/ t.event = "JobResponded" /\ chain[t.job].status = "responded"
  \/ t.event = "JobResourceUnavailable" /\ chain[t.job].status = "unavailable"
-----------------------------------------------------------------------------
(* The event loops: every log spawns a task.                               *)

Goto(t, label) == pc' = [pc EXCEPT ![t] = label]

EntryPc(t) ==
  CASE t.event = "JobRelayed" -> "select"
    [] t.event = "GatewayReassigned" -> "lookup"
    [] t.event = "JobResponded" -> "decode"
    [] OTHER -> "cancelActive"

\* Slip: the handler passes the wrong first sequence number.
SecondAttempt == [seq |-> 2, gateway |-> NoGateway]

FirstAttempt == [seq |-> 1, gateway |-> NoGateway]

Deliver(t) ==
  /\ pc[t] = "idle"
  /\ Emitted(t)
  /\ Goto(t, EntryPc(t))
  /\ held' = [held EXCEPT ![t] = IF t.event = "JobRelayed" THEN FirstAttempt ELSE @]
  /\ UNCHANGED <<tables, waiting, service, chans, environment, contracts>>
-----------------------------------------------------------------------------
(* job_relayed_handler: select a gateway, record the attempt, send it or    *)
(* watch it.                                                                *)

\* Slip: a job waits for itself.
TurnAfterItself(t) ==
  \A i \in 1..Len(released[JobCycle[t.job]]) :
    LET list == released[JobCycle[t.job]] IN
    list[i] = t => \A k \in 1..i : pc[list[k]] \notin {"select", "store", "send"}

\* The jobs of one waitlist are handled one after the other by one task.
Turn(t) ==
  \A i \in 1..Len(released[JobCycle[t.job]]) :
    LET list == released[JobCycle[t.job]] IN
    list[i] = t => \A k \in 1..(i - 1) : pc[list[k]] \notin {"select", "store", "send"}

TooOld(c) == clock >= StatesToMaintain + c

\* Slip: the push comes after the lock on the cycle states is released, so what the
\* lookup found may be stale.
StaleLookup(c) == TRUE

Unpublished(c) == c \notin known

\* The job goes on the waitlist under the read lock on the cycle states, so the
\* state cannot be published between the lookup and the push.
Select(t) ==
  LET c == JobCycle[t.job]
      g == selection[t.job][held[t].seq]
  IN
  /\ pc[t] = "select" /\ Turn(t)
  /\ \/ /\ TooOld(c) \/ (c \in known /\ g = NoGateway)
        /\ Goto(t, "dropped")
        /\ UNCHANGED <<held, waitlist>>
     \/ /\ ~TooOld(c) /\ c \in known /\ g # NoGateway
        /\ Goto(t, "store")
        /\ held' = [held EXCEPT ![t].gateway = g]
        /\ UNCHANGED waitlist
     \/ /\ ~TooOld(c) /\ Unpublished(c)
        /\ Goto(t, "waitlisted")
        /\ waitlist' = [waitlist EXCEPT ![c] = Append(@, t)]
        /\ UNCHANGED held
  /\ UNCHANGED <<tables, released, service, chans, environment, contracts>>

Store(t) ==
  /\ pc[t] = "store"
  /\ IF held[t].gateway = Self
       THEN /\ active' = [active EXCEPT ![t.job] = held[t]]
            /\ Goto(t, "send")
            /\ UNCHANGED current
       ELSE /\ current' = [current EXCEPT ![t.job] = held[t]]
            /\ Goto(t, "timer")
            /\ UNCHANGED active
  /\ UNCHANGED <<waiting, service, chans, held, environment, contracts>>

\* The receiver takes one message out of the channel while it submits it.
HasRoom(chan) == Len(chan) <= ChannelSize

\* tx.send of a job to relay, or of a slash; the message is the task's attempt.
Send(t) ==
  /\ pc[t] \in {"send", "slash"}
  /\ HasRoom(relayChan)
  /\ relayChan' = Append(relayChan, t)
  /\ Goto(t, IF pc[t] = "send" THEN "queuedRelay" ELSE "queuedSlash")
  /\ UNCHANGED <<tables, waiting, service, responseChan, held, environment, contracts>>
-----------------------------------------------------------------------------
(* job_relayed_slash_timer.                                                 *)

\* The JobRelayed logs of this job that the timer finds on the common chain.
RelayedBy(j, g) == chain[j].status \in {"relayed", "responded"} /\ chain[j].by = g
HasRelayedLog(j) == chain[j].status \in {"relayed", "responded"}

\* The env of the log is read from topics[1], which is the job id: as_u64 panics
\* on an id that does not fit, and `as u8` keeps its low byte.
LogEnv(j) == j % 256
LogPanics(j) == HasRelayedLog(j) /\ j >= U64Limit
LogMatches(t) ==
  /\ RelayedBy(t.job, held[t].gateway)
  /\ LogEnv(t.job) = JobEnv[t.job]

Timer(t) ==
  /\ pc[t] = "timer"
  /\ \/ /\ LogPanics(t.job) \/ RpcFaults
        /\ Goto(t, "panicked")
     \/ ~LogPanics(t.job) /\ Goto(t, IF LogMatches(t) THEN "untrack" ELSE "slash")
  /\ UNCHANGED <<tables, waiting, service, chans, held, environment, contracts>>

\* Slip: the timer ends without removing the entry.
UntrackForgets(t) ==
  /\ pc[t] = "untrack"
  /\ Goto(t, "untracked")
  /\ UNCHANGED <<tables, waiting, service, chans, held, environment, contracts>>

Untrack(t) ==
  /\ pc[t] = "untrack"
  /\ current' = [current EXCEPT ![t.job] = NoAttempt]
  /\ Goto(t, "untracked")
  /\ UNCHANGED <<active, waiting, service, chans, held, environment, contracts>>
-----------------------------------------------------------------------------
(* gateway_reassigned_handler and cancel_job_with_job_id.                   *)

\* The table an event's prevGateway points the handler to.
TableOf(g) == IF g = Self THEN active ELSE current

ReassignedEntry(t) == TableOf(reassigned[t.job][t.seq])[t.job]

\* Slip: the sequence check is missing.
AnyAttempt(entry, t) == TRUE

IsEventsAttempt(entry, t) == entry.seq = t.seq

\* Slip: a job in no table is taken to be in the state that the event tells of.
LookupRevives(t) ==
  LET entry == [seq |-> t.seq, gateway |-> reassigned[t.job][t.seq]] IN
  /\ pc[t] = "lookup"
  /\ held' = [held EXCEPT ![t] = entry]
  /\ Goto(t, "cancelActive")
  /\ UNCHANGED <<tables, waiting, service, chans, environment, contracts>>

Lookup(t) ==
  LET entry == ReassignedEntry(t) IN
  /\ pc[t] = "lookup"
  /\ IF entry # NoAttempt /\ IsEventsAttempt(entry, t)
       THEN held' = [held EXCEPT ![t] = entry] /\ Goto(t, "cancelActive")
       ELSE UNCHANGED held /\ Goto(t, "ignored")
  /\ UNCHANGED <<tables, waiting, service, chans, environment, contracts>>

\* Slip: the retries are not limited.
RetriesAlways(t) ==
  IF t.event \in CancelEvents
    THEN Goto(t, "cancelled") /\ UNCHANGED held
    ELSE Goto(t, "select") /\ held' = [held EXCEPT ![t].seq = @ + 1]

\* Slip: the next attempt keeps the number of the one it replaces.
RetriesSame(t) ==
  IF t.event \in CancelEvents
    THEN Goto(t, "cancelled") /\ UNCHANGED held
    ELSE Goto(t, "select") /\ held' = [held EXCEPT ![t].gateway = NoGateway]

\* After the cancellation a reassigned job starts its next attempt, if any.
AfterCancel(t) ==
  IF t.event \in CancelEvents
    THEN Goto(t, "cancelled") /\ UNCHANGED held
  ELSE IF held[t].seq + 1 > MaxGatewayRetries
    THEN Goto(t, "exhausted") /\ UNCHANGED held
    ELSE /\ Goto(t, "select")
         /\ held' = [held EXCEPT ![t] = [seq |-> @.seq + 1, gateway |-> NoGateway]]

CancelActive(t) ==
  /\ pc[t] = "cancelActive"
  /\ active' = [active EXCEPT ![t.job] = NoAttempt]
  /\ IF active[t.job] # NoAttempt
       THEN AfterCancel(t)
       ELSE Goto(t, "cancelCurrent") /\ UNCHANGED held
  /\ UNCHANGED <<current, waiting, service, chans, environment, contracts>>

CancelCurrent(t) ==
  /\ pc[t] = "cancelCurrent"
  /\ current' = [current EXCEPT ![t.job] = NoAttempt]
  /\ AfterCancel(t)
  /\ UNCHANGED <<active, waiting, service, chans, environment, contracts>>
-----------------------------------------------------------------------------
(* get_job_from_job_responded_event, job_responded_handler, remove_job.     *)

Decode(t) ==
  /\ pc[t] = "decode"
  /\ Goto(t, IF active[t.job] = NoAttempt THEN "ignored" ELSE "reread")
  /\ UNCHANGED <<tables, waiting, service, chans, held, environment, contracts>>

Reread(t) ==
  /\ pc[t] = "reread"
  /\ held' = [held EXCEPT ![t] = active[t.job]]
  /\ Goto(t, IF active[t.job] = NoAttempt THEN "ignored" ELSE "remove")
  /\ UNCHANGED <<tables, waiting, service, chans, environment, contracts>>

SameAttempt(entry, attempt) == entry.seq = attempt.seq

RemoveJob(t) ==
  /\ pc[t] = "remove"
  /\ active' = [active EXCEPT ![t.job] = IF SameAttempt(@, held[t]) THEN NoAttempt ELSE @]
  /\ Goto(t, "respond")
  /\ UNCHANGED <<current, waiting, service, chans, held, environment, contracts>>

Respond(t) ==
  /\ pc[t] = "respond"
  /\ HasRoom(responseChan)
  /\ responseChan' = Append(responseChan, t)
  /\ Goto(t, "queuedResponse")
  /\ UNCHANGED <<tables, waiting, service, relayChan, held, environment, contracts>>
-----------------------------------------------------------------------------
(* The two transaction senders: one message at a time, in order.            *)

CommonChainTxn ==
  /\ relayChan # <<>>
  /\ relayChan' = Tail(relayChan)
  /\ LET t == Head(relayChan) IN
     \/ /\ pc[t] = "queuedRelay"
        /\ Goto(t, "relaySubmitted")
        /\ \/ RelayMined(t.job, held[t].seq, Self)
           \/ RpcFaults /\ UNCHANGED contracts
     \/ /\ pc[t] = "queuedSlash"
        /\ Goto(t, "slashSubmitted")
        /\ \/ ReassignMined(t.job, held[t].seq, held[t].gateway)
           \/ RpcFaults /\ UNCHANGED contracts
  /\ UNCHANGED <<tables, waiting, service, responseChan, held, environment>>

RequestChainTxn ==
  /\ responseChan # <<>>
  /\ pc[Head(responseChan)] = "queuedResponse"
  /\ Goto(Head(responseChan), "responseSubmitted")
  /\ UNCHANGED <<tables, waiting, service, chans, held, environment, contracts>>

\* remove_response_job_from_active_jobs: whatever is in the table for the job.
RemoveResponseJob ==
  /\ responseChan # <<>>
  /\ LET t == Head(responseChan) IN
     /\ pc[t] = "responseSubmitted"
     /\ Goto(t, "responded")
     /\ active' = [active EXCEPT ![t.job] = NoAttempt]
  /\ responseChan' = Tail(responseChan)
  /\ UNCHANGED <<current, waiting, service, relayChan, held, environment, contracts>>
-----------------------------------------------------------------------------
(* The epoch service, as far as the jobs see it: it picks a cycle, publishes *)
(* its state and releases the waitlist of the cycle.                         *)

\* The service's clock has no offset, so it can be one cycle ahead.
ServiceClocks == {clock, clock + 1}

\* Slip: one cycle too early and too far.
SkipPast(c, now) == IF now + 1 >= StatesToMaintain + c THEN now - StatesToMaintain + 2 ELSE c

SkipTo(c, now) == IF now >= StatesToMaintain + c THEN now - StatesToMaintain + 1 ELSE c

PickCycle ==
  /\ servicePc = "idle"
  /\ \E now \in ServiceClocks : serviceCycle' = SkipTo(serviceCycle, now)
  /\ serviceCycle' <= LastCycle
  /\ servicePc' = "generate"
  /\ UNCHANGED <<tables, waiting, known, chans, tasks, environment, contracts>>

\* get_block_number_by_timestamp waits until the chain has reached the cycle; only
\* its error path returns earlier.
Reached(c) == c <= clock + 1 \/ RpcFaults

PublishState ==
  /\ servicePc = "generate"
  /\ Reached(serviceCycle)
  /\ \/ known' = known \union {serviceCycle} /\ servicePc' = "callback"
     \/ RpcFaults /\ servicePc' = "panicked" /\ UNCHANGED known
  /\ UNCHANGED <<tables, waiting, serviceCycle, chans, tasks, environment, contracts>>

Listed(t, list) == \E i \in 1..Len(list) : list[i] = t

Callback ==
  /\ servicePc = "callback"
  /\ servicePc' = "idle"
  /\ serviceCycle' = serviceCycle + 1
  /\ released' = [released EXCEPT ![serviceCycle] = waitlist[serviceCycle]]
  /\ waitlist' = [waitlist EXCEPT ![serviceCycle] = <<>>]
  /\ pc' = [t \in Task |-> IF Listed(t, waitlist[serviceCycle]) THEN "select" ELSE pc[t]]
  /\ UNCHANGED <<tables, known, chans, held, environment, contracts>>
-----------------------------------------------------------------------------
(* The environment: the clock, the other gateways, the executors.           *)

Tick ==
  /\ clock < LastCycle
  /\ clock' = clock + 1
  /\ UNCHANGED <<tables, waiting, service, chans, tasks, selection, contracts>>

PeerRelays(j) ==
  /\ \E p \in Peers :
       /\ PeersAgree => (chain[j].seq \in Attempts /\ selection[j][chain[j].seq] = p)
       /\ AcceptsAttempt(j, chain[j].seq)
       /\ RelayMined(j, chain[j].seq, p)
  /\ UNCHANGED <<tables, waiting, service, chans, tasks, environment>>

PeerReassigns(j) ==
  /\ chain[j].seq \in Attempts
  /\ AcceptsAttempt(j, chain[j].seq)
  /\ \E p \in Peers : \E old \in Gateways \ {p} :
       /\ PeersAgree => selection[j][chain[j].seq] = old
       /\ ReassignMined(j, chain[j].seq, old)
  /\ UNCHANGED <<tables, waiting, service, chans, tasks, environment>>

ExecutorsRespond(j) ==
  /\ chain[j].status = "relayed"
  /\ chain' = [chain EXCEPT ![j].status = "responded"]
  /\ UNCHANGED <<tables, waiting, service, chans, tasks, environment, reassigned>>

TaskStep(t) ==
  \/ Select(t) \/ Store(t) \/ Send(t) \/ Timer(t) \/ Untrack(t)
  \/ Lookup(t) \/ CancelActive(t) \/ CancelCurrent(t)
  \/ Decode(t) \/ Reread(t) \/ RemoveJob(t) \/ Respond(t)

Environment ==
  \/ Tick
  \/ \E j \in JobIds : PeerRelays(j) \/ PeerReassigns(j) \/ ExecutorsRespond(j)

SenderStep == CommonChainTxn \/ RequestChainTxn \/ RemoveResponseJob
ServiceStep == PickCycle \/ PublishState \/ Callback

Next ==
  \/ \E t \in Task : Deliver(t) \/ TaskStep(t)
  \/ SenderStep
  \/ ServiceStep
  \/ Environment

Spec == Init /\ [][Next]_vars

\* tokio runs every ready task and every timer expires; the senders and the
\* service are loops.  Deliveries, peers and the clock are not assumed fair.
FairSpec ==
  /\ Spec
  /\ \A t \in Task : WF_vars(TaskStep(t))
  /\ WF_vars(CommonChainTxn) /\ WF_vars(RequestChainTxn) /\ WF_vars(RemoveResponseJob)
  /\ WF_vars(ServiceStep)
-----------------------------------------------------------------------------
(* Properties.                                                              *)

\* Every variable has its type; a stored attempt has a number and a gateway,
\* active_jobs holds only jobs of this gateway and current_jobs none of them.
TypeOK ==
  /\ active \in [JobIds -> {NoAttempt} \union [seq : Attempts, gateway : {Self}]]
  /\ current \in [JobIds -> {NoAttempt} \union [seq : Attempts, gateway : Peers]]
  /\ waitlist \in [Cycles -> Seq(Task)]
  /\ released \in [Cycles -> Seq(Task)]
  /\ known \subseteq Cycles
  /\ serviceCycle \in 1..(LastCycle + 1)
  /\ servicePc \in {"idle", "generate", "callback", "panicked"}
  /\ servicePc \in {"generate", "callback"} => serviceCycle \in Cycles
  /\ clock \in Cycles
  /\ relayChan \in Seq(Task)
  /\ responseChan \in Seq(Task)
  /\ pc \in [Task -> Pcs]
  /\ held \in [Task -> Attempt]
  /\ selection \in [JobIds -> [Attempts -> Gateways \union {NoGateway}]]
  /\ chain \in [JobIds -> [seq : 1..(MaxGatewayRetries + 1),
                           status : {"open", "relayed", "responded", "unavailable"},
                           by : Gateways \union {NoGateway}]]
  /\ reassigned \in [JobIds -> [Attempts -> Gateways \union {NoGateway}]]

TasksOf(j) == {t \in Task : t.job = j}
Carrying(t) == pc[t] \in CarryingPcs
Tracked(j) == active[j] # NoAttempt \/ current[j] # NoAttempt

\* The handling of a job is a single thread of attempts although its events are
\* handled by unordered tasks: it is never in both tables, never chosen for by two
\* tasks at once, and never in a table while the next attempt is being chosen
\* (job_relayed_handler, gateway_reassigned_handler, cancel_job_with_job_id).
OneAttemptPerJob ==
  \A j \in JobIds :
    /\ active[j] = NoAttempt \/ current[j] = NoAttempt
    /\ \A t, u \in TasksOf(j) : Carrying(t) /\ Carrying(u) => t = u
    /\ Tracked(j) => \A t \in TasksOf(j) : ~Carrying(t)

\* A job is never left on the waitlist of a cycle whose state is published: the
\* callback of that cycle is still to come (the push of select_gateway_for_job_id
\* under the read lock, against insert and then callback in the service).
NoLostWakeup ==
  \A c \in known :
    waitlist[c] # <<>> => servicePc = "callback" /\ serviceCycle = c

\* A job is stranded on the waitlist of a cycle the service has skipped only in
\* the window where the two clocks disagree: its cycle is then one tick from too
\* old (the offset of select_gateway_for_job_id, the skip of the service).
StrandedOnlyAtTheEdge ==
  \A c \in Cycles :
    waitlist[c] # <<>> /\ c < serviceCycle => clock + 1 >= StatesToMaintain + c

\* A waiting job is on the list that the callback of its cycle hands over.
WaitingIsListed ==
  \A t \in Task : pc[t] = "waitlisted" => Listed(t, waitlist[JobCycle[t.job]])

\* Nobody waits for a wakeup that was already given: a waiting job is on the list of
\* its cycle, and the cycle is to come, is being called back, or was skipped by the
\* service when the job was one tick from too old (select_gateway_for_job_id against
\* the epoch service).
NobodyForgotten == WaitingIsListed /\ NoLostWakeup /\ StrandedOnlyAtTheEdge

\* No unwrap of the slash timer panics.
NoPanics == ~RpcFaults /\ \A j \in JobIds : j < U64Limit

\* The task's report was mined, and the contract has announced the reassignment or
\* had the job relayed or refused before.
ReportSettled(t) ==
  /\ pc[t] = "slashSubmitted"
  /\ \/ reassigned[t.job][held[t].seq] # NoGateway
     \/ chain[t.job].status # "open"

\* As long as no timer panics, a job in current_jobs has a task that will untrack it or
\* report its gateway, or one whose report was mined: then the GatewayReassigned event
\* takes the entry out, unless that event came before the entry, or the report came
\* after the job was relayed or refused, and the entry stays (job_relayed_handler
\* spawns the timer, job_relayed_slash_timer ends it).
TrackedMeansWatched ==
  \A j \in JobIds :
    NoPanics /\ current[j] # NoAttempt =>
      \E t \in TasksOf(j) :
        held[t] = current[j] /\ (pc[t] \in WatchingPcs \/ ReportSettled(t))

\* No attempt runs ahead of the contract: whatever events are lost, late or
\* duplicated, a task and a table entry are at most at the contract's sequence id
\* (the sequence check and increment of gateway_reassigned_handler).
AttemptNotAhead ==
  \A j \in JobIds :
    /\ \A t \in TasksOf(j) : held[t].seq <= chain[j].seq
    /\ active[j].seq <= chain[j].seq /\ current[j].seq <= chain[j].seq

\* Every event of the job that the chains have emitted is delivered and handled.
Settled(j) ==
  \A t \in TasksOf(j) : pc[t] \in FinishedPcs \/ (pc[t] = "idle" /\ ~Emitted(t))

\* The GatewayReassigned event of the attempt found it in no table.
Overtook(j, s) ==
  \E t \in TasksOf(j) : t.event = "GatewayReassigned" /\ t.seq = s /\ pc[t] = "ignored"

\* Once a job's events are handled, the entry it is left with is of the contract's
\* attempt, unless the event that ended the entry's attempt came before the entry and
\* was dropped (gateway_reassigned_handler against the insert of job_relayed_handler).
StaleOnlyIfOvertaken ==
  \A j \in JobIds :
    Settled(j) =>
      \A entry \in {active[j], current[j]} \ {NoAttempt} :
        entry.seq = chain[j].seq \/ Overtook(j, entry.seq)

\* A reassigned task that is replacing its job's attempt.
Replacing(t) == t.event = "GatewayReassigned" /\ pc[t] \in CancellingPcs

\* The job was announced, and is neither in a table nor being chosen for.
Gone(j) ==
  /\ ~Tracked(j)
  /\ \A t \in TasksOf(j) :
       ~Carrying(t) /\ ~Replacing(t) /\ (t.event = "JobRelayed" => pc[t] # "idle")

\* A job that is gone stays gone, whatever is delivered late or twice: once its entry
\* was cancelled, answered, untracked or out of retries, no task brings it back
\* (cancel_job_with_job_id against the other handlers).
GoneForGood == [][\A j \in JobIds : Gone(j) => Gone(j)']_vars

\* A gateway is reported for slashing only if its relay is not on the chain when
\* the timer looks (job_relayed_slash_timer).
SlashOnlyUnrelayed ==
  [][\A t \in Task : pc[t] = "timer" /\ pc'[t] = "slash"
                       => ~RelayedBy(t.job, held[t].gateway)]_vars

Stranded(t) ==
  pc[t] = "waitlisted" /\ JobCycle[t.job] \notin known /\ JobCycle[t.job] < serviceCycle

\* Every delivered event is handled to its end, unless its job waits for a cycle
\* the service skipped: no wait on the waitlist, on a released list or on the full
\* channel to the sender lasts forever (deliveries are finitely many, so this is once
\* and for all).
TasksFinish ==
  <>[](\A t \in Task : pc[t] \in FinishedPcs \union {"idle"} \/ Stranded(t))
-----------------------------------------------------------------------------
(* The abstract record of a job: JobBook.                                   *)

HeldSeqs(j) == {held[t].seq : t \in TasksOf(j)}
BookAttempt == [j \in JobIds |-> CHOOSE m \in HeldSeqs(j) : \A n \in HeldSeqs(j) : n <= m]
BookHolder ==
  [j \in JobIds |-> CASE \E t \in TasksOf(j) : Carrying(t) -> "choosing"
                      [] active[j] # NoAttempt -> "mine"
                      [] current[j] # NoAttempt -> "watched"
                      [] OTHER -> "none"]

Book == INSTANCE JobBook WITH attempt <- BookAttempt, holder <- BookHolder

\* The tasks, tables and waitlist implement the record of one job at a time.
ImplementsBook == Book!Spec
=============================================================================
