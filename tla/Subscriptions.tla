---------------------------- MODULE Subscriptions ----------------------------
(***************************************************************************)
(* Job subscriptions (job_subscription_management.rs): a request chain     *)
(* announces subscriptions and updates of them; the gateway replays the    *)
(* events of before it began, in order, and handles later ones in tasks of *)
(* their own; a manager sleeps until the earliest entry of a heap, fires   *)
(* the instance and pushes the next one.                                   *)
(*                                                                         *)
(* A job is start, interval and termination time.  What else it carries,   *)
(* and an update of that, changes nothing that is modelled.                *)
(***************************************************************************)
EXTENDS Integers, Sequences, FiniteSets, Bags, BagsExt

CONSTANTS
  Subs,       \* subscription ids
  Intervals,  \* the intervals a subscription may have
  Window,     \* how old an instance may be when events are replayed
  LastTime,   \* bound: the last value of the clock
  MaxLog,     \* bound: the events of the chain, the last one with a condition (Room)
  Copies,     \* how often a live event may be delivered (2: a reorg repeats it)
  Kinds,      \* kinds of events of the chain, among those below
  Replayed    \* the lengths the chain's log may have when the gateway begins

ASSUME SubscriptionsAssumption ==
  /\ IsFiniteSet(Subs) /\ Intervals \subseteq Nat \ {0}
  /\ Window \in Nat /\ LastTime \in Nat /\ MaxLog \in Nat /\ Copies \in {1, 2}
  /\ Kinds \subseteq {"started", "params", "termination"}
  /\ Replayed \subseteq Nat

Times == 0..(LastTime + 1)
Job == [start : Times, interval : Intervals, term : Times]
Event == [kind : Kinds, sub : Subs, job : Job]
Tasks == (1..MaxLog) \X (1..Copies)
None == -1

VARIABLES
  now,       \* the clock, in seconds
  log,       \* the subscription events of the chain
  cut,       \* how many of them are replayed; None before the gateway begins
  jobs,      \* subscription_jobs
  heap,      \* subscription_job_instance_heap: a bag of entries
  messages,  \* Add messages to the manager
  poisoned,  \* did a task panic while it held the lock of jobs?
  task,      \* the handler of each event: pc and next trigger time
  manager,   \* pc, wake-up time, popped entry and next trigger time
  fired      \* the instances triggered: a bag of subscription and number

chainVars == <<log, cut>>
vars == <<now, chainVars, jobs, heap, messages, poisoned, task, manager, fired>>

Entry == [sub : Subs, time : Nat]
NoEntry == [sub |-> None, time |-> None]
Instance == [sub : Subs, number : Nat]

\* The records the pc of a task and of the manager move in.
At(pc, next) == [pc |-> pc, next |-> next]
ManagerAt(pc) == [pc |-> pc, wake |-> None, entry |-> NoEntry, next |-> None]

Init ==
  /\ now = 0 /\ log = <<>> /\ cut = None
  /\ jobs = <<>> /\ heap = EmptyBag /\ messages = 0 /\ poisoned = FALSE
  /\ task = [t \in Tasks |-> At("none", None)]
  /\ manager = ManagerAt("off")
  /\ fired = EmptyBag
-----------------------------------------------------------------------------
(* The request chain.                                                      *)

EventsOf(s) == {i \in DOMAIN log : log[i].sub = s}
OnChain(s) == log[CHOOSE i \in EventsOf(s) : \A j \in EventsOf(s) : j <= i].job

\* Bound: the last event comes only while an update is about to find its job gone.
Room ==
  \/ Len(log) < MaxLog - 1
  \/ /\ Len(log) < MaxLog
     /\ \E t \in Tasks : task[t].pc = "apply" /\ log[t[1]].sub \notin DOMAIN jobs

Emit(kind, s, job) ==
  /\ kind \in Kinds /\ Room
  /\ log' = Append(log, [kind |-> kind, sub |-> s, job |-> job])
  /\ UNCHANGED <<now, cut, jobs, heap, messages, poisoned, task, manager, fired>>

StartSubscription(s) ==
  /\ EventsOf(s) = {}
  /\ \E start \in {now, now + 1}, interval \in Intervals :
       \E term \in (start + 1)..(LastTime + 1) :
         Emit("started", s, [start |-> start, interval |-> interval, term |-> term])

UpdateParams(s) == EventsOf(s) # {} /\ now <= OnChain(s).term /\ Emit("params", s, OnChain(s))

UpdateTermination(s) ==
  /\ EventsOf(s) # {} /\ now <= OnChain(s).term
  /\ \E term \in now..(LastTime + 1) :
       term # OnChain(s).term /\ Emit("termination", s, [OnChain(s) EXCEPT !.term = term])

\* The gateway is registered: the manager starts, and the logs of before are fetched.
Begin ==
  /\ cut = None /\ Len(log) \in Replayed
  /\ cut' = Len(log)
  /\ manager' = [manager EXCEPT !.pc = "peek"]
  /\ UNCHANGED <<now, log, jobs, heap, messages, poisoned, task, fired>>

Tick ==
  /\ now < LastTime
  /\ now' = now + 1
  /\ UNCHANGED <<chainVars, jobs, heap, messages, poisoned, task, manager, fired>>
-----------------------------------------------------------------------------
(* Helpers of job_subscription_management.rs.                              *)

\* get_minimum_timestamp_for_job
Minimum == now - Window

\* Slip: the operands of the subtraction swapped.
SwappedInstanceOf(s, job, time) == [sub |-> s, number |-> (job.start - time) \div job.interval]

\* subscription_job_to_relay_job: the number that is added to the id of the job
InstanceOf(s, job, time) == [sub |-> s, number |-> (time - job.start) \div job.interval]

\* A replayed subscription goes on with its first instance that is young enough.
SkipOld(job, next, replayed) ==
  IF replayed /\ next < Minimum
  THEN job.start + (((Minimum - job.start) \div job.interval) + 1) * job.interval
  ELSE next

\* Slip: an instance at the termination time is not wanted.
EndsAtTermination(s, next) == next >= jobs[s].term

IsPastEnd(s, next) == next > jobs[s].term

\* Slip: the job stays when its termination time is reached.
NextOrStay(s, previous, replayed, neither) ==
  IF s \notin DOMAIN jobs \/ IsPastEnd(s, previous + jobs[s].interval) THEN At(neither, None)
  ELSE At("push", SkipOld(jobs[s], previous + jobs[s].interval, replayed))

\* add_next_trigger_time_to_heap up to its write: the write to do, or neither.
NextTrigger(s, previous, replayed, neither) ==
  IF s \notin DOMAIN jobs THEN At(neither, None)
  ELSE LET next == previous + jobs[s].interval IN
       IF IsPastEnd(s, next) THEN At("remove", None)
       ELSE At("push", SkipOld(jobs[s], next, replayed))

WithJob(s, job) == [r \in DOMAIN jobs \union {s} |-> IF r = s THEN job ELSE jobs[r]]
WithoutJob(s) == [r \in DOMAIN jobs \ {s} |-> jobs[r]]
-----------------------------------------------------------------------------
(* A task that handles an event.  Every access to a poisoned lock panics.  *)

EventOf(t) == log[t[1]]
IsReplayed(t) == t[1] <= cut
IsDone(i) == \E c \in 1..Copies : task[<<i, c>>].pc = "done"

\* Replayed events are handled by one task, one after the other.
MayBegin(t) ==
  /\ cut # None /\ t[1] <= Len(log) /\ task[t].pc = "none"
  /\ IsReplayed(t) => t[2] = 1 /\ \A j \in 1..(t[1] - 1) : IsDone(j)

Goto(t, at) == task' = [task EXCEPT ![t] = at]

Panic(t) ==
  /\ Goto(t, At("panicked", None))
  /\ UNCHANGED <<now, chainVars, jobs, heap, messages, poisoned, manager, fired>>

\* add_subscription_job: a replayed subscription that is over is dropped.
IsOver(t) == IsReplayed(t) /\ EventOf(t).job.term < now

Insert(t) ==
  /\ MayBegin(t) /\ EventOf(t).kind = "started"
  /\ IF IsOver(t) THEN Goto(t, At("done", None)) /\ UNCHANGED jobs
     ELSE /\ ~poisoned
          /\ jobs' = WithJob(EventOf(t).sub, EventOf(t).job)
          /\ Goto(t, At("schedule", None))
  /\ UNCHANGED <<now, chainVars, heap, messages, poisoned, manager, fired>>

InFuture(job) == job.start > now

\* Slip: the heap starts from the first instance although it was triggered.
PreviousOfFirst(job) == job.start - job.interval

FiresFirst(t) == ~InFuture(EventOf(t).job) /\ (IsReplayed(t) => EventOf(t).job.start >= Minimum)
Previous(job) == IF InFuture(job) THEN job.start - job.interval ELSE job.start

\* The first instance, and the read that chooses the time of the next one.
Schedule(t) ==
  LET s == EventOf(t).sub
      job == EventOf(t).job
  IN /\ task[t].pc = "schedule"
     /\ fired' = IF FiresFirst(t) THEN BagAdd(fired, InstanceOf(s, job, job.start)) ELSE fired
     /\ Goto(t, IF poisoned THEN At("panicked", None)
                ELSE NextTrigger(s, Previous(job), IsReplayed(t), "send"))
     /\ UNCHANGED <<now, chainVars, jobs, heap, messages, poisoned, manager>>

Push(t) ==
  /\ task[t].pc = "push"
  /\ heap' = BagAdd(heap, [sub |-> EventOf(t).sub, time |-> task[t].next])
  /\ Goto(t, At("send", None))
  /\ UNCHANGED <<now, chainVars, jobs, messages, poisoned, manager, fired>>

Remove(t) ==
  /\ task[t].pc = "remove" /\ ~poisoned
  /\ jobs' = WithoutJob(EventOf(t).sub)
  /\ Goto(t, At("send", None))
  /\ UNCHANGED <<now, chainVars, heap, messages, poisoned, manager, fired>>

ManagerGone == manager.pc \in {"returned", "panicked"}

Send(t) ==
  /\ task[t].pc = "send" /\ ~ManagerGone
  /\ messages' = messages + 1
  /\ Goto(t, At("done", None))
  /\ UNCHANGED <<now, chainVars, jobs, heap, poisoned, manager, fired>>

\* update_subscription_job_params, update_subscription_job_termination_params: the
\* job is looked for, and then, under another lock, taken to be there.
CheckUpdate(t) ==
  /\ MayBegin(t) /\ EventOf(t).kind # "started" /\ ~poisoned
  /\ Goto(t, At(IF EventOf(t).sub \in DOMAIN jobs THEN "apply" ELSE "done", None))
  /\ UNCHANGED <<now, chainVars, jobs, heap, messages, poisoned, manager, fired>>

Updated(s, term) == [jobs EXCEPT ![s].term = term]

ApplyUpdate(t) ==
  LET s == EventOf(t).sub IN
  /\ task[t].pc = "apply" /\ ~poisoned
  /\ \/ /\ s \in DOMAIN jobs
        /\ jobs' = IF EventOf(t).kind = "termination"
                   THEN Updated(s, EventOf(t).job.term) ELSE jobs
        /\ Goto(t, At("done", None))
        /\ UNCHANGED poisoned
     \/ /\ s \notin DOMAIN jobs
        /\ poisoned' = TRUE
        /\ Goto(t, At("panicked", None))
        /\ UNCHANGED jobs
  /\ UNCHANGED <<now, chainVars, heap, messages, manager, fired>>

MeetsPoison(t) ==
  /\ poisoned
  /\ \/ task[t].pc \in {"remove", "apply"}
     \/ MayBegin(t) /\ ~(EventOf(t).kind = "started" /\ IsOver(t))
  /\ Panic(t)

FindsNoManager(t) == task[t].pc = "send" /\ ManagerGone /\ Panic(t)

TaskStep(t) ==
  \/ Insert(t) \/ Schedule(t) \/ Push(t) \/ Remove(t) \/ Send(t)
  \/ CheckUpdate(t) \/ ApplyUpdate(t) \/ MeetsPoison(t) \/ FindsNoManager(t)
-----------------------------------------------------------------------------
(* job_subscription_manager.                                               *)


\* Slip: the order of the heap is not reversed.
Latest == {e \in DOMAIN heap : \A f \in DOMAIN heap : e.time >= f.time}

Earliest == {e \in DOMAIN heap : \A f \in DOMAIN heap : e.time <= f.time}
Wake == IF heap = EmptyBag THEN None ELSE (CHOOSE e \in Earliest : TRUE).time

ManagerGoto(at) == manager' = [manager EXCEPT !.pc = at.pc, !.next = at.next]

Peek ==
  /\ manager.pc = "peek"
  /\ manager' = [manager EXCEPT !.pc = "wait", !.wake = Wake]
  /\ UNCHANGED <<now, chainVars, jobs, heap, messages, poisoned, task, fired>>

Receive ==
  /\ manager.pc = "wait" /\ messages > 0
  /\ messages' = messages - 1
  /\ manager' = [manager EXCEPT !.pc = "peek", !.wake = None]
  /\ UNCHANGED <<now, chainVars, jobs, heap, poisoned, task, fired>>

\* Only the manager pops, so the entry it saw, or an earlier one, is still there.
Pop ==
  /\ manager.pc = "wait" /\ manager.wake # None /\ manager.wake <= now
  /\ \E e \in Earliest :
       /\ heap' = BagRemove(heap, e)
       /\ manager' = [ManagerAt("lookup") EXCEPT !.entry = e]
  /\ UNCHANGED <<now, chainVars, jobs, messages, poisoned, task, fired>>

\* An entry without a job ends the manager.
Trigger ==
  LET s == manager.entry.sub IN
  /\ manager.pc = "lookup" /\ ~poisoned
  /\ \/ /\ s \in DOMAIN jobs
        /\ fired' = BagAdd(fired, InstanceOf(s, jobs[s], manager.entry.time))
        /\ ManagerGoto(At("next", None))
     \/ /\ s \notin DOMAIN jobs
        /\ ManagerGoto(At("returned", None))
        /\ UNCHANGED fired
  /\ UNCHANGED <<now, chainVars, jobs, heap, messages, poisoned, task>>

Advance ==
  /\ manager.pc = "next" /\ ~poisoned
  /\ ManagerGoto(NextTrigger(manager.entry.sub, manager.entry.time, FALSE, "peek"))
  /\ UNCHANGED <<now, chainVars, jobs, heap, messages, poisoned, task, fired>>

PushNext ==
  /\ manager.pc = "push"
  /\ heap' = BagAdd(heap, [sub |-> manager.entry.sub, time |-> manager.next])
  /\ manager' = ManagerAt("peek")
  /\ UNCHANGED <<now, chainVars, jobs, messages, poisoned, task, fired>>

RemoveJob ==
  /\ manager.pc = "remove" /\ ~poisoned
  /\ jobs' = WithoutJob(manager.entry.sub)
  /\ manager' = ManagerAt("peek")
  /\ UNCHANGED <<now, chainVars, heap, messages, poisoned, task, fired>>

ManagerMeetsPoison ==
  /\ poisoned /\ manager.pc \in {"lookup", "next", "remove"}
  /\ manager' = ManagerAt("panicked")
  /\ UNCHANGED <<now, chainVars, jobs, heap, messages, poisoned, task, fired>>

ManagerStep ==
  \/ Peek \/ Receive \/ Pop \/ Trigger \/ Advance \/ PushNext \/ RemoveJob
  \/ ManagerMeetsPoison
-----------------------------------------------------------------------------
ChainStep ==
  \E s \in Subs : StartSubscription(s) \/ UpdateParams(s) \/ UpdateTermination(s)

Next == ChainStep \/ Tick \/ Begin \/ ManagerStep \/ \E t \in Tasks : TaskStep(t)

Spec == Init /\ [][Next]_vars

-----------------------------------------------------------------------------
(* Properties.                                                             *)

TypeOK ==
  /\ now \in 0..LastTime /\ log \in Seq(Event) /\ cut \in 0..MaxLog \union {None}
  /\ DOMAIN jobs \subseteq Subs /\ \A s \in DOMAIN jobs : jobs[s] \in Job
  /\ IsABag(heap) /\ DOMAIN heap \subseteq Entry
  /\ messages \in Nat /\ poisoned \in BOOLEAN
  /\ task \in [Tasks -> [pc : {"none", "schedule", "push", "remove", "send", "apply",
                               "done", "panicked"},
                         next : Nat \union {None}]]
  /\ manager \in [pc : {"off", "peek", "wait", "lookup", "next", "push", "remove",
                        "returned", "panicked"},
                  wake : Nat \union {None}, entry : Entry \union {NoEntry},
                  next : Nat \union {None}]
  /\ IsABag(fired) /\ DOMAIN fired \subseteq Instance

\* Who is about to push the next entry of s, or to remove its job.
TasksFor(s) ==
  {t \in Tasks : /\ task[t].pc \in {"schedule", "push", "remove"}
                 /\ EventOf(t).sub = s}
ManagerHolds(s) ==
  manager.pc \in {"lookup", "next", "push", "remove"} /\ manager.entry.sub = s
EntriesFor(s) == {e \in DOMAIN heap : e.sub = s}

\* A subscription is kept exactly as long as it has its next instance in the heap or
\* somebody is about to put it there, and only once: no job is kept for nothing, and
\* the manager never meets an entry without a job, which would end it for all.
ScheduledOnce(s) ==
  IF s \in DOMAIN jobs
  THEN \/ ManagerHolds(s) /\ TasksFor(s) = {} /\ EntriesFor(s) = {}
       \/ ~ManagerHolds(s) /\ Cardinality(TasksFor(s)) = 1 /\ EntriesFor(s) = {}
       \/ /\ ~ManagerHolds(s) /\ TasksFor(s) = {} /\ Cardinality(EntriesFor(s)) = 1
          /\ \A e \in EntriesFor(s) : heap[e] = 1
  ELSE ~ManagerHolds(s) /\ TasksFor(s) = {} /\ EntriesFor(s) = {}
KeptIffScheduled ==
  ~poisoned => manager.pc # "returned" /\ \A s \in Subs : ScheduledOnce(s)

\* An update of a job that is gone is reported, not fatal.
NobodyPanics == ~poisoned

NoInstanceTwice == \A i \in DOMAIN fired : fired[i] = 1

NeverEarly ==
  \A i \in DOMAIN fired : OnChain(i.sub).start + i.number * OnChain(i.sub).interval <= now

NoGaps ==
  \A i, j \in DOMAIN fired : i.sub = j.sub =>
    \A n \in i.number..j.number : [sub |-> i.sub, number |-> n] \in DOMAIN fired

\* The first instance is not compared with the termination time, and the next one of a
\* replayed subscription may be moved past it after the comparison (SkipOld).
WithinTermination ==
  \A i \in DOMAIN fired :
    \/ i.number = 0
    \/ \E e \in EventsOf(i.sub) : e <= cut
    \/ \E e \in EventsOf(i.sub) : log[e].job.start + i.number * log[e].job.interval
                                    <= log[e].job.term

\* The first trigger, the turns of the manager and the handlers of updates together
\* trigger the instances of a subscription one after the other: none twice, none before
\* its time, none left out in between, none later than every termination time that
\* the chain announced.
OnSchedule == NoInstanceTwice /\ NeverEarly /\ NoGaps /\ WithinTermination

\* When all events are handled, a subscription with an instance to come, by the chain,
\* is kept, if it was never extended: an extension can find the job removed because of
\* its old termination time, live or in a replay.
AllHandled == cut # None /\ \A i \in DOMAIN log : IsDone(i)
ToCome(s) ==
  \E n \in 1..(LastTime + 1) :
    LET time == OnChain(s).start + n * OnChain(s).interval
    IN now < time /\ time <= OnChain(s).term
Extended(s) == \E e, f \in EventsOf(s) : e < f /\ log[e].job.term < log[f].job.term
RunsUntilTermination ==
  AllHandled =>
    \A s \in Subs : EventsOf(s) # {} /\ ToCome(s) /\ ~Extended(s) => s \in DOMAIN jobs

\* The manager never sleeps past an entry: one earlier than its wake-up time has a
\* message on its way.
WaitsForTheEarliest ==
  manager.pc = "wait" =>
    \A e \in DOMAIN heap :
      \/ manager.wake # None /\ manager.wake <= e.time
      \/ messages > 0
      \/ \E t \in Tasks : task[t].pc = "send" /\ EventOf(t).sub = e.sub

\* When everybody waits, no instance of a live subscription is missing whose time has
\* come and is within every termination time that the chain announced: none is lost
\* at either end, and none is slept through.
Quiet ==
  /\ manager.pc = "wait" /\ messages = 0 /\ (manager.wake = None \/ manager.wake > now)
  /\ \A t \in Tasks : task[t].pc \in {"none", "done"}
Due(s, n) ==
  \E t \in Tasks :
    /\ task[t].pc = "done" /\ ~IsReplayed(t)
    /\ EventOf(t).kind = "started" /\ EventOf(t).sub = s
    /\ LET time == EventOf(t).job.start + n * EventOf(t).job.interval
       IN time <= now /\ \A e \in EventsOf(s) : time <= log[e].job.term
CaughtUp ==
  Quiet => \A s \in Subs, n \in 0..LastTime : Due(s, n) => [sub |-> s, number |-> n] \in DOMAIN fired

\* What is to come is scheduled, also after a restart, and what is due was triggered.
NothingMissed == RunsUntilTermination /\ CaughtUp
=============================================================================
