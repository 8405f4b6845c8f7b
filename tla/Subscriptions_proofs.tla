------------------------ MODULE Subscriptions_proofs ------------------------
(***************************************************************************)
(* Proofs about Subscriptions, for any number of subscriptions, events and *)
(* seconds.  However often a live event is delivered: its variables have   *)
(* their types, and the manager never sleeps past an entry.  If every      *)
(* event is delivered once: a subscription is kept exactly while its next  *)
(* instance is scheduled (KeepInv), its instances are triggered on         *)
(* schedule, and none that is due is missing (ScheduleInv).                *)
(***************************************************************************)
EXTENDS Subscriptions, TLAPS

-----------------------------------------------------------------------------
(* The inductive invariant.                                                 *)

\* Two jobs of one subscription differ in the termination time only.
SameCourse(a, b) == a.start = b.start /\ a.interval = b.interval

\* The events of one subscription agree on its course; positions have a last one.
LogInv ==
  /\ log \in Seq(Event) /\ Len(log) <= MaxLog
  /\ \A i, j \in DOMAIN log : log[i].sub = log[j].sub => SameCourse(log[i].job, log[j].job)
  /\ \A S \in SUBSET DOMAIN log : S # {} => \E m \in S : \A k \in S : k <= m

\* A time at which the subscription has begun, by the chain.
Begun(s, time) ==
  /\ s \in Subs /\ time \in Nat
  /\ \E i \in DOMAIN log : log[i].sub = s /\ log[i].job.start <= time

JobsInv ==
  /\ DOMAIN jobs \subseteq Subs
  /\ \A s \in DOMAIN jobs :
       /\ jobs[s] \in Job
       /\ \E i \in DOMAIN log : log[i].sub = s /\ SameCourse(jobs[s], log[i].job)

\* Entries are at times of their subscriptions; of several one is the earliest.
HeapInv ==
  /\ IsABag(heap)
  /\ \A e \in DOMAIN heap : e \in Entry /\ Begun(e.sub, e.time)
  /\ \A S \in SUBSET DOMAIN heap : S # {} => \E e \in S : \A f \in S : e.time <= f.time

TaskPcs == {"none", "schedule", "push", "remove", "send", "apply", "done", "panicked"}

TaskInv ==
  /\ task \in [Tasks -> [pc : TaskPcs, next : Nat \union {None}]]
  /\ \A t \in Tasks :
       /\ task[t].pc # "none" => t[1] \in DOMAIN log
       /\ task[t].pc = "push" => Begun(EventOf(t).sub, task[t].next)

ManagerPcs ==
  {"off", "peek", "wait", "lookup", "next", "push", "remove", "returned", "panicked"}

ManagerInv ==
  /\ manager \in [pc : ManagerPcs, wake : Nat \union {None},
                  entry : Entry \union {NoEntry}, next : Nat \union {None}]
  /\ manager.pc \in {"lookup", "next", "push", "remove"} =>
       manager.entry \in Entry /\ Begun(manager.entry.sub, manager.entry.time)
  /\ manager.pc = "push" => Begun(manager.entry.sub, manager.next)

RestInv ==
  /\ now \in 0..LastTime /\ cut \in 0..MaxLog \union {None}
  /\ messages \in Nat /\ poisoned \in BOOLEAN
  /\ IsABag(fired) /\ DOMAIN fired \subseteq Instance

StateInv == LogInv /\ JobsInv /\ HeapInv /\ TaskInv /\ ManagerInv /\ RestInv
-----------------------------------------------------------------------------
(* Bags, records and divisions.                                             *)

LEMMA BagAddIs ==
  ASSUME NEW B, IsABag(B), NEW x
  PROVE  IsABag(BagAdd(B, x)) /\ DOMAIN BagAdd(B, x) = DOMAIN B \union {x}
BY DEF IsABag, BagAdd

LEMMA BagRemoveIs ==
  ASSUME NEW B, IsABag(B), NEW x
  PROVE  IsABag(BagRemove(B, x)) /\ DOMAIN BagRemove(B, x) \subseteq DOMAIN B
BY DEF IsABag, BagRemove

LEMMA EmptyBagIs == IsABag(EmptyBag) /\ DOMAIN EmptyBag = {}
BY DEF IsABag, EmptyBag, SetToBag

LEMMA NonEmptyBag ==
  ASSUME NEW B, IsABag(B), B # EmptyBag PROVE DOMAIN B # {}
<1> SUFFICES ASSUME DOMAIN B = {} PROVE FALSE
  OBVIOUS
<1>1. B = [e \in {} |-> B[e]]
  BY DEF IsABag
<1> QED BY <1>1, Zenon DEF EmptyBag, SetToBag

\* How many intervals fit.
LEMMA Divide == \A a \in Nat, b \in Nat \ {0} : a \div b \in Nat
OBVIOUS

\* One interval more than fit is past the time.
LEMMA DivideUp ==
  \A a \in Int, b \in Nat \ {0} : a \div b \in Int /\ ((a \div b) + 1) * b > a
OBVIOUS

LEMMA ProductType == \A a, b \in Int : (a + 1) * b \in Int
OBVIOUS

LEMMA JobFields ==
  ASSUME NEW job \in Job
  PROVE  job.start \in Nat /\ job.interval \in Nat \ {0} /\ job.term \in Nat
<1>1. Times \subseteq Nat
  BY SubscriptionsAssumption DEF Times
<1>2. Intervals \subseteq Nat \ {0}
  BY SubscriptionsAssumption
<1>3. job.start \in Times /\ job.interval \in Intervals /\ job.term \in Times
  BY DEF Job
<1> QED BY <1>1, <1>2, <1>3

\* The number of an instance after the start is a natural number.
LEMMA InstanceType ==
  ASSUME NEW s \in Subs, NEW job \in Job, NEW time \in Nat, job.start <= time
  PROVE  InstanceOf(s, job, time) \in Instance
<1>1. time - job.start \in Nat /\ job.interval \in Nat \ {0}
  BY JobFields
<1>2. (time - job.start) \div job.interval \in Nat
  BY <1>1, Divide
<1> QED BY <1>2 DEF InstanceOf, Instance

\* Skipping never goes back.
LEMMA SkipOldIs ==
  ASSUME NEW job \in Job, NEW next \in Nat, NEW replayed, Minimum \in Int
  PROVE  SkipOld(job, next, replayed) \in Nat /\ SkipOld(job, next, replayed) >= next
<1> DEFINE gap == Minimum - job.start
<1>1. gap \in Int /\ job.start \in Nat /\ job.interval \in Nat \ {0}
  BY JobFields
<1> DEFINE jump == ((gap \div job.interval) + 1) * job.interval
<1>2. jump \in Int /\ jump > gap
  <2> HIDE DEF gap
  <2>1. gap \div job.interval \in Int /\ jump > gap
    BY <1>1, DivideUp
  <2>2. jump \in Int
    BY <1>1, <2>1, ProductType
  <2> QED BY <2>1, <2>2
<1>3. CASE replayed /\ next < Minimum
  <2>1. SkipOld(job, next, replayed) = job.start + jump
    BY <1>3 DEF SkipOld
  <2>2. job.start + jump > Minimum
    <3> HIDE DEF jump
    <3> QED BY <1>1, <1>2
  <2>3. next < Minimum
    BY <1>3, Zenon
  <2>4. job.start + jump \in Int
    <3> HIDE DEF jump
    <3> QED BY <1>1, <1>2
  <2>5. \A n \in Int : n > Minimum => n \in Nat /\ n >= next
    BY <2>3
  <2> HIDE DEF jump
  <2> QED BY <2>1, <2>2, <2>4, <2>5
<1>4. CASE ~(replayed /\ next < Minimum)
  BY <1>4 DEF SkipOld
<1> QED BY <1>3, <1>4
-----------------------------------------------------------------------------
(* What the steps are built from.                                           *)

\* The log only grows.
Grows == \A i \in DOMAIN log : i \in DOMAIN log' /\ log'[i] = log[i]

LEMMA BegunStays ==
  ASSUME Grows, NEW s, NEW time, Begun(s, time) PROVE Begun(s, time)'
BY DEF Grows, Begun

LEMMA EventTypes ==
  ASSUME LogInv, NEW i \in DOMAIN log
  PROVE  log[i].sub \in Subs /\ log[i].job \in Job /\ Begun(log[i].sub, log[i].job.start)
<1>1. log[i] \in Event
  BY DEF LogInv
<1>2. log[i].sub \in Subs /\ log[i].job \in Job
  BY <1>1 DEF Event
<1> QED BY <1>2, JobFields DEF Begun

LEMMA TaskEvent ==
  ASSUME LogInv, TaskInv, NEW t \in Tasks, MayBegin(t) \/ task[t].pc # "none"
  PROVE  t[1] \in DOMAIN log /\ EventOf(t).sub \in Subs /\ EventOf(t).job \in Job
<1>1. t[1] \in DOMAIN log
  <2>1. CASE MayBegin(t)
    <3>1. t[1] \in 1..MaxLog /\ t[1] <= Len(log)
      BY <2>1 DEF MayBegin, Tasks
    <3>2. DOMAIN log = 1..Len(log) /\ Len(log) \in Nat
      BY DEF LogInv
    <3> QED BY <3>1, <3>2, SubscriptionsAssumption
  <2>2. CASE task[t].pc # "none"
    BY <2>2 DEF TaskInv
  <2> QED BY <2>1, <2>2
<1> QED BY <1>1, EventTypes DEF EventOf

\* What the chain says of a kept job's course.
LEMMA JobOnChain ==
  ASSUME LogInv, JobsInv, NEW s \in DOMAIN jobs
  PROVE  /\ s \in Subs /\ jobs[s] \in Job
         /\ \A time \in Nat : Begun(s, time) <=> jobs[s].start <= time
         /\ \A i \in DOMAIN log : log[i].sub = s => SameCourse(jobs[s], log[i].job)
<1>1. PICK i \in DOMAIN log : log[i].sub = s /\ SameCourse(jobs[s], log[i].job)
  BY DEF JobsInv
<1>2. \A j \in DOMAIN log : log[j].sub = s => SameCourse(jobs[s], log[j].job)
  BY <1>1 DEF LogInv, SameCourse
<1>3. s \in Subs /\ jobs[s] \in Job
  BY DEF JobsInv
<1> QED BY <1>1, <1>2, <1>3 DEF Begun, SameCourse

LEMMA AtIs ==
  ASSUME NEW l, NEW next
  PROVE  At(l, next).pc = l /\ At(l, next).next = next
         /\ At(l, next) \in [pc : {l}, next : {next}]
BY DEF At

\* add_next_trigger_time_to_heap chooses a time that is not before the next one.
LEMMA NextTriggerIs ==
  ASSUME StateInv, NEW s \in Subs, NEW previous \in Int, NEW replayed, NEW neither,
         neither # "push", s \in DOMAIN jobs => previous + jobs[s].interval \in Nat,
         NEW at, at = NextTrigger(s, previous, replayed, neither)
  PROVE  /\ at \in [pc : {neither, "remove", "push"}, next : Nat \union {None}]
         /\ at.pc = "push" => /\ s \in DOMAIN jobs /\ at.next \in Nat
                              /\ at.next >= previous + jobs[s].interval
<1>1. CASE s \notin DOMAIN jobs
  BY <1>1 DEF NextTrigger, At
<1>2. CASE s \in DOMAIN jobs
  <2> DEFINE next == previous + jobs[s].interval
             skipped == SkipOld(jobs[s], next, replayed)
  <2>1. next \in Nat /\ Minimum \in Int /\ jobs[s] \in Job
    BY <1>2, SubscriptionsAssumption DEF StateInv, RestInv, JobsInv, Minimum
  <2>2. skipped \in Nat /\ skipped >= next
    <3> HIDE DEF next
    <3> QED BY <2>1, SkipOldIs
  <2>3. at = IF IsPastEnd(s, next) THEN At("remove", None) ELSE At("push", skipped)
    BY <1>2 DEF NextTrigger
  <2> HIDE DEF skipped
  <2> QED BY <1>2, <2>2, <2>3 DEF At
<1> QED BY <1>1, <1>2

\* A task goes to a new place.
LEMMA GotoKeeps ==
  ASSUME LogInv, TaskInv, UNCHANGED log, NEW t \in Tasks, t[1] \in DOMAIN log,
         NEW at \in [pc : TaskPcs, next : Nat \union {None}], Goto(t, at),
         at.pc = "push" => Begun(EventOf(t).sub, at.next)
  PROVE  TaskInv'
<1>1. task' = [task EXCEPT ![t] = at]
  BY DEF Goto
<1>2. \A u \in Tasks : task'[u] = IF u = t THEN at ELSE task[u]
  BY <1>1 DEF TaskInv
<1>3. task' \in [Tasks -> [pc : TaskPcs, next : Nat \union {None}]]
  BY <1>1 DEF TaskInv
<1>4. \A s, time : Begun(s, time) => Begun(s, time)'
  BY DEF Begun
<1>5. \A u \in Tasks : EventOf(u)' = EventOf(u)
  BY DEF EventOf
<1>6. ASSUME NEW u \in Tasks
      PROVE  /\ task'[u].pc # "none" => u[1] \in DOMAIN log'
             /\ task'[u].pc = "push" => Begun(EventOf(u).sub, task[u].next)'
  <2>1. CASE u = t
    BY <1>2, <1>4, <1>5, <2>1
  <2>2. CASE u # t
    BY <1>2, <1>4, <1>5, <2>2 DEF TaskInv
  <2> QED BY <2>1, <2>2
<1> QED BY <1>3, <1>6 DEF TaskInv

\* An entry is pushed.
LEMMA PushKeeps ==
  ASSUME HeapInv, UNCHANGED log, NEW s, NEW time, Begun(s, time),
         heap' = BagAdd(heap, [sub |-> s, time |-> time])
  PROVE  HeapInv'
<1> DEFINE e == [sub |-> s, time |-> time]
<1>1. IsABag(heap') /\ DOMAIN heap' = DOMAIN heap \union {e}
  BY BagAddIs DEF HeapInv
<1>2. e \in Entry /\ e.sub = s /\ e.time = time
  BY DEF Entry, Begun
<1>3. \A f \in DOMAIN heap' : f \in Entry /\ Begun(f.sub, f.time)
  BY <1>1, <1>2 DEF HeapInv
<1>4. \A f \in DOMAIN heap' : f \in Entry /\ Begun(f.sub, f.time)'
  BY <1>3 DEF Begun
<1>5. ASSUME NEW S \in SUBSET DOMAIN heap', S # {}
      PROVE  \E f \in S : \A g \in S : f.time <= g.time
  <2>1. \A f \in S : f.time \in Nat
    BY <1>4 DEF Entry
  <2>2. CASE S \ {e} = {}
    BY <2>1, <2>2, <1>5
  <2>3. CASE S \ {e} # {}
    <3>1. S \ {e} \in SUBSET DOMAIN heap
      BY <1>1
    <3>2. PICK f \in S \ {e} : \A g \in S \ {e} : f.time <= g.time
      BY <2>3, <3>1 DEF HeapInv
    <3>3. CASE e \in S /\ e.time < f.time
      BY <2>1, <3>2, <3>3
    <3>4. CASE ~(e \in S /\ e.time < f.time)
      BY <2>1, <3>2, <3>4
    <3> QED BY <3>3, <3>4
  <2> QED BY <2>2, <2>3
<1> QED BY <1>1, <1>4, <1>5 DEF HeapInv

\* An entry is popped.
LEMMA PopKeeps ==
  ASSUME HeapInv, UNCHANGED log, NEW e, heap' = BagRemove(heap, e)
  PROVE  HeapInv'
<1>1. IsABag(heap') /\ DOMAIN heap' \subseteq DOMAIN heap
  BY BagRemoveIs DEF HeapInv
<1>2. \A f \in DOMAIN heap' : f \in Entry /\ Begun(f.sub, f.time)'
  BY <1>1 DEF HeapInv, Begun
<1>3. \A S \in SUBSET DOMAIN heap' : S \in SUBSET DOMAIN heap
  BY <1>1
<1> QED BY <1>1, <1>2, <1>3 DEF HeapInv
-----------------------------------------------------------------------------
(* What a step leaves alone.                                                *)

LEMMA LogFrame == ASSUME LogInv, UNCHANGED log PROVE LogInv' /\ Grows
BY DEF LogInv, Grows, SameCourse

LEMMA JobsFrame == ASSUME JobsInv, Grows, UNCHANGED jobs PROVE JobsInv'
BY DEF JobsInv, Grows, SameCourse

LEMMA HeapFrame == ASSUME HeapInv, Grows, UNCHANGED heap PROVE HeapInv'
<1>1. \A e \in DOMAIN heap' : e \in Entry /\ Begun(e.sub, e.time)'
  BY BegunStays DEF HeapInv
<1> QED BY <1>1 DEF HeapInv

LEMMA TaskFrame == ASSUME TaskInv, Grows, UNCHANGED task PROVE TaskInv'
<1>1. ASSUME NEW t \in Tasks
      PROVE  /\ task[t].pc # "none" => t[1] \in DOMAIN log'
             /\ task[t].pc = "push" => Begun(EventOf(t).sub, task[t].next)'
  <2>1. task[t].pc # "none" => t[1] \in DOMAIN log /\ t[1] \in DOMAIN log' /\ log'[t[1]] = log[t[1]]
    BY DEF TaskInv, Grows
  <2>2. CASE task[t].pc = "push"
    <3>1. Begun(EventOf(t).sub, task[t].next)
      BY <2>2 DEF TaskInv
    <3>2. \A sub, time : Begun(sub, time) => Begun(sub, time)'
      BY BegunStays
    <3>3. EventOf(t)' = EventOf(t) /\ task' = task
      BY <2>1, <2>2 DEF EventOf
    <3> QED BY <2>1, <2>2, <3>1, <3>2, <3>3
  <2> QED BY <2>1, <2>2
<1> QED BY <1>1 DEF TaskInv

LEMMA ManagerFrame == ASSUME ManagerInv, Grows, UNCHANGED manager PROVE ManagerInv'
<1>1. \A s, time : Begun(s, time) => Begun(s, time)'
  BY BegunStays
<1> QED BY <1>1 DEF ManagerInv

LEMMA RestFrame ==
  ASSUME RestInv, UNCHANGED <<now, cut, messages, poisoned, fired>> PROVE RestInv'
BY DEF RestInv
-----------------------------------------------------------------------------
(* The chain, the clock and the beginning.                                  *)

LEMMA InitInv == Init => StateInv
<1> SUFFICES ASSUME Init PROVE StateInv
  OBVIOUS
<1> USE SubscriptionsAssumption DEF Init
<1>1. LogInv
  BY DEF LogInv
<1>2. JobsInv
  BY DEF JobsInv
<1>3. HeapInv
  BY EmptyBagIs DEF HeapInv
<1>4. TaskInv
  BY DEF TaskInv, TaskPcs, At
<1>5. ManagerInv
  BY DEF ManagerInv, ManagerPcs, ManagerAt
<1>6. RestInv
  <2>1. IsABag(fired) /\ DOMAIN fired \subseteq Instance
    BY EmptyBagIs
  <2>2. now \in 0..LastTime /\ messages \in Nat
    OBVIOUS
  <2>3. cut \in 0..MaxLog \union {None} /\ poisoned \in BOOLEAN
    BY Zenon
  <2> QED BY <2>1, <2>2, <2>3 DEF RestInv
<1> QED BY <1>1, <1>2, <1>3, <1>4, <1>5, <1>6 DEF StateInv

\* A new event agrees with the earlier ones of its subscription.
LEMMA EmitKeeps ==
  ASSUME StateInv, NEW kind, NEW s \in Subs, NEW job \in Job, Emit(kind, s, job),
         \A i \in DOMAIN log : log[i].sub = s => SameCourse(log[i].job, job)
  PROVE  StateInv'
<1> DEFINE event == [kind |-> kind, sub |-> s, job |-> job]
<1>1. /\ event \in Event /\ event.sub = s /\ event.job = job
      /\ log' = Append(log, event) /\ Len(log) < MaxLog
      /\ UNCHANGED <<now, cut, jobs, heap, messages, poisoned, task, manager, fired>>
  <2>1. Len(log) \in Nat /\ MaxLog \in Nat
    BY SubscriptionsAssumption DEF StateInv, LogInv
  <2>2. Len(log) < MaxLog
    BY <2>1 DEF Emit, Room
  <2> QED BY <2>2 DEF Emit, Event
<1> HIDE DEF event
<1>2. /\ log \in Seq(Event) /\ Len(log) \in Nat /\ DOMAIN log = 1..Len(log)
      /\ MaxLog \in Nat
  BY SubscriptionsAssumption DEF StateInv, LogInv
<1>3. /\ log' \in Seq(Event) /\ Len(log') = Len(log) + 1
      /\ DOMAIN log' = DOMAIN log \union {Len(log) + 1}
      /\ log'[Len(log) + 1] = event /\ \A i \in DOMAIN log : log'[i] = log[i]
  BY <1>1, <1>2
<1>4. Grows
  BY <1>3 DEF Grows
<1>5. LogInv'
  <2>1. log' \in Seq(Event) /\ Len(log') <= MaxLog
    BY <1>1, <1>2, <1>3
  <2>2. \A i, j \in DOMAIN log' :
          log'[i].sub = log'[j].sub => SameCourse(log'[i].job, log'[j].job)
    <3>1. \A i, j \in DOMAIN log : log[i].sub = log[j].sub => SameCourse(log[i].job, log[j].job)
      BY DEF StateInv, LogInv
    <3> QED BY <1>1, <1>3, <3>1 DEF SameCourse
  <2>3. ASSUME NEW S \in SUBSET DOMAIN log', S # {}
        PROVE  \E m \in S : \A k \in S : k <= m
    <3>1. CASE Len(log) + 1 \in S
      <4>1. \A k \in S : k <= Len(log) + 1
        BY <1>2, <1>3
      <4> QED BY <3>1, <4>1
    <3>2. CASE Len(log) + 1 \notin S
      <4>1. S \in SUBSET DOMAIN log
        BY <1>3, <3>2
      <4> QED BY <2>3, <4>1 DEF StateInv, LogInv
    <3> QED BY <3>1, <3>2
  <2> QED BY <2>1, <2>2, <2>3 DEF LogInv
<1>6. JobsInv' /\ HeapInv' /\ TaskInv' /\ ManagerInv' /\ RestInv'
  BY <1>1, <1>4, JobsFrame, HeapFrame, TaskFrame, ManagerFrame, RestFrame DEF StateInv
<1> QED BY <1>5, <1>6 DEF StateInv

\* The last event of a subscription says what its job is.
LEMMA OnChainIs ==
  ASSUME LogInv, NEW s \in Subs, EventsOf(s) # {}
  PROVE  /\ OnChain(s) \in Job
         /\ \A i \in DOMAIN log : log[i].sub = s => SameCourse(log[i].job, OnChain(s))
<1>1. EventsOf(s) \in SUBSET DOMAIN log
  BY DEF EventsOf
<1>2. \E i \in EventsOf(s) : \A j \in EventsOf(s) : j <= i
  BY <1>1 DEF LogInv
<1>3. PICK i \in EventsOf(s) : OnChain(s) = log[i].job
  BY <1>2 DEF OnChain
<1>4. i \in DOMAIN log /\ log[i].sub = s
  BY DEF EventsOf
<1> QED BY <1>3, <1>4, EventTypes DEF LogInv

LEMMA ChainStepKeeps == StateInv /\ ChainStep => StateInv'
<1> SUFFICES ASSUME StateInv, NEW s \in Subs,
                    StartSubscription(s) \/ UpdateParams(s) \/ UpdateTermination(s)
             PROVE  StateInv'
  BY DEF ChainStep
<1>0. LogInv /\ now \in 0..LastTime /\ LastTime \in Nat
  BY SubscriptionsAssumption DEF StateInv, RestInv
<1>1. CASE StartSubscription(s)
  <2>1. PICK start \in {now, now + 1}, interval \in Intervals :
          \E term \in (start + 1)..(LastTime + 1) :
            Emit("started", s, [start |-> start, interval |-> interval, term |-> term])
    BY <1>1 DEF StartSubscription
  <2>2. PICK term \in (start + 1)..(LastTime + 1) :
          Emit("started", s, [start |-> start, interval |-> interval, term |-> term])
    BY <2>1
  <2>3. start \in Times /\ term \in Times
    BY <1>0 DEF Times
  <2>4. [start |-> start, interval |-> interval, term |-> term] \in Job
    BY <2>3 DEF Job
  <2>5. \A i \in DOMAIN log : log[i].sub # s
    BY <1>1 DEF StartSubscription, EventsOf
  <2> QED BY <2>2, <2>4, <2>5, EmitKeeps
<1>2. CASE UpdateParams(s)
  <2>1. EventsOf(s) # {} /\ Emit("params", s, OnChain(s))
    BY <1>2 DEF UpdateParams
  <2> QED BY <1>0, <2>1, OnChainIs, EmitKeeps
<1>3. CASE UpdateTermination(s)
  <2>1. EventsOf(s) # {}
    BY <1>3 DEF UpdateTermination
  <2>2. PICK term \in now..(LastTime + 1) :
          Emit("termination", s, [OnChain(s) EXCEPT !.term = term])
    BY <1>3 DEF UpdateTermination
  <2> DEFINE job == [OnChain(s) EXCEPT !.term = term]
  <2>3. /\ OnChain(s) \in Job
        /\ \A i \in DOMAIN log : log[i].sub = s => SameCourse(log[i].job, OnChain(s))
    BY <1>0, <2>1, OnChainIs
  <2>4. term \in Times
    BY <1>0 DEF Times
  <2>5. job \in Job /\ SameCourse(job, OnChain(s))
    BY <2>3, <2>4 DEF Job, SameCourse
  <2>6. \A i \in DOMAIN log : log[i].sub = s => SameCourse(log[i].job, job)
    BY <2>3, <2>5 DEF SameCourse
  <2> HIDE DEF job
  <2>7. Emit("termination", s, job)
    BY <2>2 DEF job
  <2> QED BY <2>5, <2>6, <2>7, EmitKeeps
<1> QED BY <1>1, <1>2, <1>3

LEMMA TickKeeps == StateInv /\ Tick => StateInv'
<1> SUFFICES ASSUME StateInv, Tick PROVE StateInv'
  OBVIOUS
<1>1. RestInv'
  BY SubscriptionsAssumption DEF StateInv, RestInv, Tick, chainVars
<1>2. LogInv' /\ Grows
  BY LogFrame DEF StateInv, Tick, chainVars
<1> QED BY <1>1, <1>2, JobsFrame, HeapFrame, TaskFrame, ManagerFrame DEF StateInv, Tick

LEMMA BeginKeeps == StateInv /\ Begin => StateInv'
<1> SUFFICES ASSUME StateInv, Begin PROVE StateInv'
  OBVIOUS
<1>1. LogInv' /\ Grows
  BY LogFrame DEF StateInv, Begin
<1>2. ManagerInv'
  BY DEF StateInv, Begin, ManagerInv, ManagerPcs
<1>3. Len(log) \in 0..MaxLog
  BY SubscriptionsAssumption DEF StateInv, LogInv
<1>4. RestInv'
  BY <1>3 DEF StateInv, RestInv, Begin
<1> QED BY <1>1, <1>2, <1>4, JobsFrame, HeapFrame, TaskFrame DEF StateInv, Begin
-----------------------------------------------------------------------------
(* The handlers of events.                                                  *)

\* What a step of a task does besides is in order.
LEMMA TaskStepKeeps ==
  ASSUME StateInv, NEW t \in Tasks, MayBegin(t) \/ task[t].pc # "none",
         NEW at \in [pc : TaskPcs, next : Nat \union {None}], Goto(t, at),
         at.pc = "push" => Begun(EventOf(t).sub, at.next),
         UNCHANGED <<now, chainVars, manager>>,
         JobsInv', HeapInv', messages' \in Nat, poisoned' \in BOOLEAN,
         IsABag(fired') /\ DOMAIN fired' \subseteq Instance
  PROVE  StateInv'
<1>1. t[1] \in DOMAIN log
  BY TaskEvent DEF StateInv
<1>2. TaskInv'
  BY <1>1, GotoKeeps DEF StateInv, chainVars
<1>3. LogInv' /\ Grows
  BY LogFrame DEF StateInv, chainVars
<1>4. ManagerInv'
  BY <1>3, ManagerFrame DEF StateInv
<1>5. RestInv'
  BY DEF StateInv, RestInv, chainVars
<1> QED BY <1>2, <1>3, <1>4, <1>5 DEF StateInv

\* The places of a task that pushes nothing.
LEMMA PlainPlace ==
  ASSUME NEW l \in TaskPcs \ {"push"}
  PROVE  At(l, None) \in [pc : TaskPcs, next : Nat \union {None}] /\ At(l, None).pc # "push"
BY DEF At

LEMMA Grows0 == ASSUME UNCHANGED log PROVE Grows
BY DEF Grows

\* The jobs after a write.
LEMMA WithJobKeeps ==
  ASSUME LogInv, JobsInv, UNCHANGED log, NEW i \in DOMAIN log,
         jobs' = WithJob(log[i].sub, log[i].job)
  PROVE  JobsInv'
<1> DEFINE s == log[i].sub
<1>1. s \in Subs /\ log[i].job \in Job
  BY EventTypes
<1>2. DOMAIN jobs' = DOMAIN jobs \union {s}
  BY DEF WithJob
<1>3. \A r \in DOMAIN jobs' : jobs'[r] = IF r = s THEN log[i].job ELSE jobs[r]
  BY <1>2 DEF WithJob
<1>4. ASSUME NEW r \in DOMAIN jobs'
      PROVE  /\ jobs'[r] \in Job
             /\ \E j \in DOMAIN log : log[j].sub = r /\ SameCourse(jobs'[r], log[j].job)
  <2>1. CASE r = s
    BY <1>1, <1>3, <2>1 DEF SameCourse
  <2>2. CASE r # s
    <3>1. r \in DOMAIN jobs /\ jobs'[r] = jobs[r]
      BY <1>2, <1>3, <2>2
    <3> QED BY <3>1 DEF JobsInv
  <2> QED BY <2>1, <2>2
<1>5. DOMAIN jobs' \subseteq Subs
  BY <1>1, <1>2 DEF JobsInv
<1> QED BY <1>4, <1>5 DEF JobsInv

LEMMA WithoutJobKeeps ==
  ASSUME JobsInv, UNCHANGED log, NEW s, jobs' = WithoutJob(s) PROVE JobsInv'
<1>1. DOMAIN jobs' \subseteq DOMAIN jobs /\ \A r \in DOMAIN jobs' : jobs'[r] = jobs[r]
  BY DEF WithoutJob
<1> QED BY <1>1 DEF JobsInv

LEMMA UpdatedKeeps ==
  ASSUME JobsInv, UNCHANGED log, NEW s \in DOMAIN jobs, NEW term \in Times,
         jobs' = Updated(s, term)
  PROVE  JobsInv'
<1>1. DOMAIN jobs' = DOMAIN jobs
  BY DEF Updated
<1>2. \A r \in DOMAIN jobs : r # s => jobs'[r] = jobs[r]
  BY DEF Updated
<1>3. jobs'[s] = [jobs[s] EXCEPT !.term = term]
  BY DEF Updated
<1>4. jobs[s] \in Job
  BY DEF JobsInv
<1>5. jobs'[s] \in Job /\ SameCourse(jobs'[s], jobs[s])
  BY <1>3, <1>4 DEF Job, SameCourse
<1>6. \E i \in DOMAIN log : log[i].sub = s /\ SameCourse(jobs'[s], log[i].job)
  BY <1>5 DEF JobsInv, SameCourse
<1>7. ASSUME NEW r \in DOMAIN jobs, r # s
      PROVE  /\ jobs'[r] \in Job
             /\ \E i \in DOMAIN log : log[i].sub = r /\ SameCourse(jobs'[r], log[i].job)
  BY <1>2, <1>7 DEF JobsInv
<1> QED BY <1>1, <1>5, <1>6, <1>7 DEF JobsInv

\* An instance is triggered.
LEMMA FiredKeeps ==
  ASSUME RestInv, NEW s \in Subs, NEW job \in Job, NEW time \in Nat, job.start <= time
  PROVE  /\ IsABag(BagAdd(fired, InstanceOf(s, job, time)))
         /\ DOMAIN BagAdd(fired, InstanceOf(s, job, time)) \subseteq Instance
<1>1. InstanceOf(s, job, time) \in Instance
  BY InstanceType
<1>2. IsABag(fired) /\ DOMAIN fired \subseteq Instance
  BY DEF RestInv
<1> DEFINE x == InstanceOf(s, job, time)
<1> HIDE DEF x
<1>3. IsABag(BagAdd(fired, x)) /\ DOMAIN BagAdd(fired, x) = DOMAIN fired \union {x}
  BY <1>2, BagAddIs
<1>4. x \in Instance
  BY <1>1 DEF x
<1>5. IsABag(BagAdd(fired, x)) /\ DOMAIN BagAdd(fired, x) \subseteq Instance
  BY <1>2, <1>3, <1>4
<1> QED BY <1>5 DEF x

LEMMA InsertKeeps == ASSUME StateInv, NEW t \in Tasks, Insert(t) PROVE StateInv'
<1>1. t[1] \in DOMAIN log
  BY TaskEvent DEF StateInv, Insert
<1>2. HeapInv' /\ messages' \in Nat /\ poisoned' \in BOOLEAN
      /\ IsABag(fired') /\ DOMAIN fired' \subseteq Instance
  BY HeapFrame, Grows0 DEF StateInv, RestInv, Insert, chainVars
<1>3. CASE IsOver(t)
  <2>1. JobsInv' /\ Goto(t, At("done", None))
    BY <1>3, JobsFrame, Grows0 DEF StateInv, Insert, chainVars
  <2>2. "done" \in TaskPcs \ {"push"}
    BY DEF TaskPcs
  <2>3. MayBegin(t) /\ UNCHANGED <<now, chainVars, manager>>
    BY DEF Insert
  <2> QED BY <1>2, <2>1, <2>2, <2>3, PlainPlace, TaskStepKeeps
<1>4. CASE ~IsOver(t)
  <2>1. JobsInv' /\ Goto(t, At("schedule", None))
    BY <1>1, <1>4, WithJobKeeps DEF StateInv, Insert, chainVars, EventOf
  <2>2. "schedule" \in TaskPcs \ {"push"}
    BY DEF TaskPcs
  <2>3. MayBegin(t) /\ UNCHANGED <<now, chainVars, manager>>
    BY DEF Insert
  <2> QED BY <1>2, <2>1, <2>2, <2>3, PlainPlace, TaskStepKeeps
<1> QED BY <1>3, <1>4

LEMMA ScheduleKeeps == ASSUME StateInv, NEW t \in Tasks, Schedule(t) PROVE StateInv'
<1> DEFINE s == EventOf(t).sub
           job == EventOf(t).job
           chosen == NextTrigger(s, Previous(job), IsReplayed(t), "send")
           at == IF poisoned THEN At("panicked", None) ELSE chosen
<1>1. /\ task[t].pc # "none" /\ Goto(t, at)
      /\ fired' = IF FiresFirst(t) THEN BagAdd(fired, InstanceOf(s, job, job.start)) ELSE fired
      /\ UNCHANGED <<now, chainVars, jobs, heap, messages, poisoned, manager>>
  BY DEF Schedule
<1>2. t[1] \in DOMAIN log /\ s \in Subs /\ job \in Job
  BY <1>1, TaskEvent DEF StateInv
<1>3. job.start \in Nat /\ job.interval \in Nat \ {0}
  BY <1>2, JobFields
<1>4. Previous(job) \in Int /\ Previous(job) + job.interval \in Nat
      /\ Previous(job) + job.interval >= job.start
  <2>1. CASE InFuture(job)
    BY <1>3, <2>1 DEF Previous
  <2>2. CASE ~InFuture(job)
    BY <1>3, <2>2 DEF Previous
  <2> QED BY <2>1, <2>2
<1>5. s \in DOMAIN jobs => /\ jobs[s].interval = job.interval
                           /\ \A time \in Nat : Begun(s, time) <=> job.start <= time
  BY <1>2, JobOnChain DEF StateInv, EventOf, SameCourse
<1>6. chosen \in [pc : {"send", "remove", "push"}, next : Nat \union {None}]
      /\ (chosen.pc = "push" => Begun(s, chosen.next))
  <2>1. s \in DOMAIN jobs => Previous(job) + jobs[s].interval \in Nat
    BY <1>4, <1>5
  <2>2. /\ chosen \in [pc : {"send", "remove", "push"}, next : Nat \union {None}]
        /\ chosen.pc = "push" => /\ s \in DOMAIN jobs /\ chosen.next \in Nat
                                 /\ chosen.next >= Previous(job) + jobs[s].interval
    <3> HIDE DEF s, job
    <3> QED BY <1>2, <1>4, <2>1, NextTriggerIs
  <2> HIDE DEF chosen, s, job
  <2> QED BY <1>3, <1>4, <1>5, <2>2
<1>7. at \in [pc : TaskPcs, next : Nat \union {None}]
      /\ (at.pc = "push" => Begun(s, at.next))
  <2>1. CASE poisoned
    <3>1. at = At("panicked", None)
      BY <2>1
    <3> HIDE DEF at
    <3> QED BY <3>1, PlainPlace DEF TaskPcs
  <2>2. CASE ~poisoned
    <3>1. at = chosen
      BY <2>2
    <3> HIDE DEF at, chosen
    <3> QED BY <1>6, <3>1 DEF TaskPcs
  <2> QED BY <2>1, <2>2
<1>8. IsABag(fired') /\ DOMAIN fired' \subseteq Instance
  <2>1. IsABag(BagAdd(fired, InstanceOf(s, job, job.start)))
        /\ DOMAIN BagAdd(fired, InstanceOf(s, job, job.start)) \subseteq Instance
    <3> HIDE DEF s, job
    <3> QED BY <1>2, <1>3, FiredKeeps DEF StateInv
  <2> QED BY <1>1, <2>1 DEF StateInv, RestInv
<1>9. JobsInv' /\ HeapInv' /\ messages' \in Nat /\ poisoned' \in BOOLEAN
  BY <1>1, JobsFrame, HeapFrame, Grows0 DEF StateInv, RestInv, chainVars
<1> HIDE DEF at
<1> QED BY <1>1, <1>7, <1>8, <1>9, TaskStepKeeps

LEMMA PushKeepsState == ASSUME StateInv, NEW t \in Tasks, Push(t) PROVE StateInv'
<1>1. /\ task[t].pc = "push" /\ Goto(t, At("send", None))
      /\ heap' = BagAdd(heap, [sub |-> EventOf(t).sub, time |-> task[t].next])
      /\ UNCHANGED <<now, chainVars, jobs, messages, poisoned, manager, fired>>
  BY DEF Push
<1>2. Begun(EventOf(t).sub, task[t].next)
  BY <1>1 DEF StateInv, TaskInv
<1>3. HeapInv'
  BY <1>1, <1>2, PushKeeps DEF StateInv, chainVars
<1>4. JobsInv' /\ messages' \in Nat /\ poisoned' \in BOOLEAN
      /\ IsABag(fired') /\ DOMAIN fired' \subseteq Instance
  BY <1>1, JobsFrame, Grows0 DEF StateInv, RestInv, chainVars
<1>5. "send" \in TaskPcs \ {"push"}
  BY DEF TaskPcs
<1> QED BY <1>1, <1>3, <1>4, <1>5, PlainPlace, TaskStepKeeps

LEMMA RemoveKeeps == ASSUME StateInv, NEW t \in Tasks, Remove(t) PROVE StateInv'
<1>1. /\ task[t].pc = "remove" /\ Goto(t, At("send", None))
      /\ jobs' = WithoutJob(EventOf(t).sub)
      /\ UNCHANGED <<now, chainVars, heap, messages, poisoned, manager, fired>>
  BY DEF Remove
<1>2. JobsInv'
  BY <1>1, WithoutJobKeeps DEF StateInv, chainVars
<1>3. HeapInv' /\ messages' \in Nat /\ poisoned' \in BOOLEAN
      /\ IsABag(fired') /\ DOMAIN fired' \subseteq Instance
  BY <1>1, HeapFrame, Grows0 DEF StateInv, RestInv, chainVars
<1>4. "send" \in TaskPcs \ {"push"}
  BY DEF TaskPcs
<1> QED BY <1>1, <1>2, <1>3, <1>4, PlainPlace, TaskStepKeeps

LEMMA SendKeeps == ASSUME StateInv, NEW t \in Tasks, Send(t) PROVE StateInv'
<1>1. /\ task[t].pc = "send" /\ Goto(t, At("done", None)) /\ messages' = messages + 1
      /\ UNCHANGED <<now, chainVars, jobs, heap, poisoned, manager, fired>>
  BY DEF Send
<1>2. JobsInv' /\ HeapInv' /\ messages' \in Nat /\ poisoned' \in BOOLEAN
      /\ IsABag(fired') /\ DOMAIN fired' \subseteq Instance
  BY <1>1, JobsFrame, HeapFrame, Grows0 DEF StateInv, RestInv, chainVars
<1>3. "done" \in TaskPcs \ {"push"}
  BY DEF TaskPcs
<1> QED BY <1>1, <1>2, <1>3, PlainPlace, TaskStepKeeps

LEMMA CheckUpdateKeeps == ASSUME StateInv, NEW t \in Tasks, CheckUpdate(t) PROVE StateInv'
<1>1. PICK l \in {"apply", "done"} : Goto(t, At(l, None))
  BY DEF CheckUpdate
<1>2. MayBegin(t) /\ UNCHANGED <<now, chainVars, jobs, heap, messages, poisoned, manager, fired>>
  BY DEF CheckUpdate
<1>3. JobsInv' /\ HeapInv' /\ messages' \in Nat /\ poisoned' \in BOOLEAN
      /\ IsABag(fired') /\ DOMAIN fired' \subseteq Instance
  BY <1>2, JobsFrame, HeapFrame, Grows0 DEF StateInv, RestInv, chainVars
<1>4. l \in TaskPcs \ {"push"}
  BY DEF TaskPcs
<1> QED BY <1>1, <1>2, <1>3, <1>4, PlainPlace, TaskStepKeeps

LEMMA ApplyUpdateKeeps == ASSUME StateInv, NEW t \in Tasks, ApplyUpdate(t) PROVE StateInv'
<1> DEFINE s == EventOf(t).sub
<1>1. task[t].pc = "apply" /\ UNCHANGED <<now, chainVars, heap, messages, manager, fired>>
  BY DEF ApplyUpdate
<1>2. HeapInv' /\ messages' \in Nat /\ IsABag(fired') /\ DOMAIN fired' \subseteq Instance
  BY <1>1, HeapFrame, Grows0 DEF StateInv, RestInv, chainVars
<1>3. EventOf(t).job.term \in Times
  BY <1>1, TaskEvent DEF StateInv, Job
<1>4. CASE /\ s \in DOMAIN jobs
           /\ jobs' = IF EventOf(t).kind = "termination"
                      THEN Updated(s, EventOf(t).job.term) ELSE jobs
           /\ Goto(t, At("done", None)) /\ UNCHANGED poisoned
  <2>1. JobsInv'
    <3>1. CASE EventOf(t).kind = "termination"
      BY <1>1, <1>3, <1>4, <3>1, UpdatedKeeps DEF StateInv, chainVars
    <3>2. CASE EventOf(t).kind # "termination"
      BY <1>1, <1>4, <3>2, JobsFrame, Grows0 DEF StateInv, chainVars
    <3> QED BY <3>1, <3>2
  <2>2. poisoned' \in BOOLEAN
    BY <1>4 DEF StateInv, RestInv
  <2>3. "done" \in TaskPcs \ {"push"}
    BY DEF TaskPcs
  <2> QED BY <1>1, <1>2, <1>4, <2>1, <2>2, <2>3, PlainPlace, TaskStepKeeps
<1>5. CASE poisoned' = TRUE /\ Goto(t, At("panicked", None)) /\ UNCHANGED jobs
  <2>1. JobsInv' /\ poisoned' \in BOOLEAN
    BY <1>1, <1>5, JobsFrame, Grows0 DEF StateInv, chainVars
  <2>2. "panicked" \in TaskPcs \ {"push"}
    BY DEF TaskPcs
  <2> QED BY <1>1, <1>2, <1>5, <2>1, <2>2, PlainPlace, TaskStepKeeps
<1> QED BY <1>4, <1>5 DEF ApplyUpdate

LEMMA PanicKeeps ==
  ASSUME StateInv, NEW t \in Tasks, MeetsPoison(t) \/ FindsNoManager(t) PROVE StateInv'
<1>1. Panic(t) /\ (MayBegin(t) \/ task[t].pc # "none")
  BY DEF MeetsPoison, FindsNoManager
<1>2. /\ Goto(t, At("panicked", None))
      /\ UNCHANGED <<now, chainVars, jobs, heap, messages, poisoned, manager, fired>>
  BY <1>1 DEF Panic
<1>3. JobsInv' /\ HeapInv' /\ messages' \in Nat /\ poisoned' \in BOOLEAN
      /\ IsABag(fired') /\ DOMAIN fired' \subseteq Instance
  BY <1>2, JobsFrame, HeapFrame, Grows0 DEF StateInv, RestInv, chainVars
<1>4. "panicked" \in TaskPcs \ {"push"}
  BY DEF TaskPcs
<1> QED BY <1>1, <1>2, <1>3, <1>4, PlainPlace, TaskStepKeeps
-----------------------------------------------------------------------------
(* The manager.                                                             *)

ManagerRecords ==
  [pc : ManagerPcs, wake : Nat \union {None}, entry : Entry \union {NoEntry},
   next : Nat \union {None}]
Working == {"lookup", "next", "push", "remove"}

LEMMA ManagerStepKeeps ==
  ASSUME StateInv, UNCHANGED <<now, chainVars, poisoned, task>>,
         JobsInv', HeapInv', messages' \in Nat,
         IsABag(fired') /\ DOMAIN fired' \subseteq Instance,
         manager' \in ManagerRecords,
         manager'.pc \in Working =>
           manager'.entry \in Entry /\ Begun(manager'.entry.sub, manager'.entry.time),
         manager'.pc = "push" => Begun(manager'.entry.sub, manager'.next)
  PROVE  StateInv'
<1>1. LogInv' /\ Grows /\ TaskInv'
  BY LogFrame, TaskFrame DEF StateInv, chainVars
<1>2. RestInv'
  BY DEF StateInv, RestInv, chainVars
<1>3. \A s, time : Begun(s, time) => Begun(s, time)'
  BY <1>1, BegunStays
<1>4. ManagerInv'
  BY <1>3 DEF ManagerInv, ManagerRecords, Working
<1> QED BY <1>1, <1>2, <1>4 DEF StateInv

\* The manager holds nothing.
LEMMA ManagerAtIs ==
  ASSUME NEW l \in ManagerPcs
  PROVE  ManagerAt(l) \in ManagerRecords /\ ManagerAt(l).pc = l
BY DEF ManagerAt, ManagerRecords

LEMMA WakeIs ==
  ASSUME HeapInv
  PROVE  /\ Wake \in Nat \union {None}
         /\ \A e \in DOMAIN heap : Wake \in Nat /\ Wake <= e.time
<1>1. CASE heap = EmptyBag
  BY <1>1, EmptyBagIs DEF Wake
<1>2. CASE heap # EmptyBag
  <2>1. DOMAIN heap # {}
    BY <1>2, NonEmptyBag DEF HeapInv
  <2>2. \E e \in Earliest : TRUE
    BY <2>1 DEF HeapInv, Earliest
  <2>3. PICK e \in Earliest : Wake = e.time
    BY <1>2, <2>2 DEF Wake
  <2> QED BY <2>3 DEF HeapInv, Earliest, Entry
<1> QED BY <1>1, <1>2

LEMMA PeekKeeps == StateInv /\ Peek => StateInv'
<1> SUFFICES ASSUME StateInv, Peek PROVE StateInv'
  OBVIOUS
<1>1. /\ manager' = [manager EXCEPT !.pc = "wait", !.wake = Wake]
      /\ UNCHANGED <<now, chainVars, jobs, heap, messages, poisoned, task, fired>>
  BY DEF Peek
<1>2. manager \in ManagerRecords /\ Wake \in Nat \union {None}
  BY WakeIs DEF StateInv, ManagerInv, ManagerRecords
<1>3. manager' \in ManagerRecords /\ manager'.pc = "wait"
  BY <1>1, <1>2 DEF ManagerRecords, ManagerPcs
<1>4. JobsInv' /\ HeapInv' /\ messages' \in Nat
      /\ IsABag(fired') /\ DOMAIN fired' \subseteq Instance
  BY <1>1, JobsFrame, HeapFrame, Grows0 DEF StateInv, RestInv, chainVars
<1> QED BY <1>1, <1>3, <1>4, ManagerStepKeeps DEF Working

LEMMA ReceiveKeeps == StateInv /\ Receive => StateInv'
<1> SUFFICES ASSUME StateInv, Receive PROVE StateInv'
  OBVIOUS
<1>1. /\ messages > 0 /\ messages' = messages - 1
      /\ manager' = [manager EXCEPT !.pc = "peek", !.wake = None]
      /\ UNCHANGED <<now, chainVars, jobs, heap, poisoned, task, fired>>
  BY DEF Receive
<1>2. manager \in ManagerRecords
  BY DEF StateInv, ManagerInv, ManagerRecords
<1>3. manager' \in ManagerRecords /\ manager'.pc = "peek"
  BY <1>1, <1>2 DEF ManagerRecords, ManagerPcs
<1>4. JobsInv' /\ HeapInv' /\ messages' \in Nat
      /\ IsABag(fired') /\ DOMAIN fired' \subseteq Instance
  BY <1>1, JobsFrame, HeapFrame, Grows0 DEF StateInv, RestInv, chainVars
<1> QED BY <1>1, <1>3, <1>4, ManagerStepKeeps DEF Working

LEMMA PopKeepsState == StateInv /\ Pop => StateInv'
<1> SUFFICES ASSUME StateInv, Pop PROVE StateInv'
  OBVIOUS
<1>1. PICK e \in Earliest :
        /\ heap' = BagRemove(heap, e)
        /\ manager' = [ManagerAt("lookup") EXCEPT !.entry = e]
  BY DEF Pop
<1>2. UNCHANGED <<now, chainVars, jobs, messages, poisoned, task, fired>>
  BY DEF Pop
<1>3. e \in Entry /\ Begun(e.sub, e.time)
  BY DEF Earliest, StateInv, HeapInv
<1>4. "lookup" \in ManagerPcs
  BY DEF ManagerPcs
<1>5. ManagerAt("lookup") \in ManagerRecords /\ ManagerAt("lookup").pc = "lookup"
  BY <1>4, ManagerAtIs
<1>6. manager' \in ManagerRecords /\ manager'.pc = "lookup" /\ manager'.entry = e
  BY <1>1, <1>3, <1>5 DEF ManagerRecords
<1>7. HeapInv'
  BY <1>1, <1>2, PopKeeps DEF StateInv, chainVars
<1>8. JobsInv' /\ messages' \in Nat /\ IsABag(fired') /\ DOMAIN fired' \subseteq Instance
  BY <1>2, JobsFrame, Grows0 DEF StateInv, RestInv, chainVars
<1> QED BY <1>2, <1>3, <1>6, <1>7, <1>8, ManagerStepKeeps

\* The manager goes to a new place and keeps its entry.
LEMMA ManagerGotoIs ==
  ASSUME manager \in ManagerRecords, NEW at \in [pc : ManagerPcs, next : Nat \union {None}],
         ManagerGoto(at)
  PROVE  /\ manager' \in ManagerRecords /\ manager'.pc = at.pc /\ manager'.next = at.next
         /\ manager'.entry = manager.entry
BY DEF ManagerGoto, ManagerRecords

LEMMA TriggerKeeps == StateInv /\ Trigger => StateInv'
<1> SUFFICES ASSUME StateInv, Trigger PROVE StateInv'
  OBVIOUS
<1> DEFINE s == manager.entry.sub
<1>1. manager.pc = "lookup" /\ UNCHANGED <<now, chainVars, jobs, heap, messages, poisoned, task>>
  BY DEF Trigger
<1>2. /\ manager \in ManagerRecords /\ manager.entry \in Entry
      /\ Begun(s, manager.entry.time)
  BY <1>1 DEF StateInv, ManagerInv, ManagerRecords
<1>3. JobsInv' /\ HeapInv' /\ messages' \in Nat
  BY <1>1, JobsFrame, HeapFrame, Grows0 DEF StateInv, RestInv, chainVars
<1>4. CASE /\ s \in DOMAIN jobs
           /\ fired' = BagAdd(fired, InstanceOf(s, jobs[s], manager.entry.time))
           /\ ManagerGoto(At("next", None))
  <2>1. manager.entry.time \in Nat /\ s \in Subs /\ jobs[s] \in Job
        /\ jobs[s].start <= manager.entry.time
    BY <1>2, <1>4, JobOnChain DEF StateInv, Entry
  <2>2. IsABag(fired') /\ DOMAIN fired' \subseteq Instance
    <3> HIDE DEF s
    <3> QED BY <1>4, <2>1, FiredKeeps DEF StateInv
  <2>3. At("next", None) \in [pc : ManagerPcs, next : Nat \union {None}]
        /\ At("next", None).pc = "next"
    BY DEF At, ManagerPcs
  <2>4. /\ manager' \in ManagerRecords /\ manager'.pc = "next"
        /\ manager'.entry = manager.entry
    BY <1>2, <1>4, <2>3, ManagerGotoIs
  <2> QED BY <1>1, <1>2, <1>3, <2>2, <2>4, ManagerStepKeeps
<1>5. CASE ManagerGoto(At("returned", None)) /\ UNCHANGED fired
  <2>1. IsABag(fired') /\ DOMAIN fired' \subseteq Instance
    BY <1>5 DEF StateInv, RestInv
  <2>2. At("returned", None) \in [pc : ManagerPcs, next : Nat \union {None}]
        /\ At("returned", None).pc = "returned"
    BY DEF At, ManagerPcs
  <2>3. manager' \in ManagerRecords /\ manager'.pc = "returned"
    BY <1>2, <1>5, <2>2, ManagerGotoIs
  <2> QED BY <1>1, <1>3, <2>1, <2>3, ManagerStepKeeps DEF Working
<1> QED BY <1>4, <1>5 DEF Trigger

LEMMA AdvanceKeeps == StateInv /\ Advance => StateInv'
<1> SUFFICES ASSUME StateInv, Advance PROVE StateInv'
  OBVIOUS
<1> DEFINE s == manager.entry.sub
           time == manager.entry.time
           at == NextTrigger(s, time, FALSE, "peek")
<1>1. /\ manager.pc = "next" /\ ManagerGoto(at)
      /\ UNCHANGED <<now, chainVars, jobs, heap, messages, poisoned, task, fired>>
  BY DEF Advance
<1>2. manager \in ManagerRecords /\ manager.entry \in Entry /\ Begun(s, time)
  BY <1>1 DEF StateInv, ManagerInv, ManagerRecords
<1>3. s \in Subs /\ time \in Nat
  BY <1>2 DEF Entry
<1>4. ASSUME s \in DOMAIN jobs
      PROVE  /\ jobs[s].interval \in Nat /\ jobs[s].start <= time /\ jobs[s].start \in Nat
             /\ \A later \in Nat : Begun(s, later) <=> jobs[s].start <= later
  <2> HIDE DEF s, time
  <2> QED BY <1>2, <1>3, <1>4, JobOnChain, JobFields DEF StateInv
<1>5. /\ at \in [pc : {"peek", "remove", "push"}, next : Nat \union {None}]
      /\ at.pc = "push" => /\ s \in DOMAIN jobs /\ at.next \in Nat
                           /\ at.next >= time + jobs[s].interval
  <2>1. s \in DOMAIN jobs => time + jobs[s].interval \in Nat
    BY <1>3, <1>4
  <2>2. time \in Int /\ "peek" # "push"
    BY <1>3
  <2>3. at = NextTrigger(s, time, FALSE, "peek")
    OBVIOUS
  <2> HIDE DEF s, time, at
  <2> QED BY <1>3, <2>1, <2>2, <2>3, NextTriggerIs, Zenon
<1> HIDE DEF at
<1>6. at.pc = "push" => Begun(s, at.next)
  <2> HIDE DEF s, time
  <2> QED BY <1>3, <1>4, <1>5
<1>7. at \in [pc : ManagerPcs, next : Nat \union {None}]
  BY <1>5 DEF ManagerPcs
<1>8. /\ manager' \in ManagerRecords /\ manager'.pc = at.pc /\ manager'.next = at.next
      /\ manager'.entry = manager.entry
  BY <1>1, <1>2, <1>7, ManagerGotoIs
<1>9. JobsInv' /\ HeapInv' /\ messages' \in Nat
      /\ IsABag(fired') /\ DOMAIN fired' \subseteq Instance
  BY <1>1, JobsFrame, HeapFrame, Grows0 DEF StateInv, RestInv, chainVars
<1> QED BY <1>1, <1>2, <1>6, <1>8, <1>9, ManagerStepKeeps

LEMMA PushNextKeeps == StateInv /\ PushNext => StateInv'
<1> SUFFICES ASSUME StateInv, PushNext PROVE StateInv'
  OBVIOUS
<1>1. /\ manager.pc = "push" /\ manager' = ManagerAt("peek")
      /\ heap' = BagAdd(heap, [sub |-> manager.entry.sub, time |-> manager.next])
      /\ UNCHANGED <<now, chainVars, jobs, messages, poisoned, task, fired>>
  BY DEF PushNext
<1>2. Begun(manager.entry.sub, manager.next)
  BY <1>1 DEF StateInv, ManagerInv
<1>3. HeapInv'
  BY <1>1, <1>2, PushKeeps DEF StateInv, chainVars
<1>4. JobsInv' /\ messages' \in Nat /\ IsABag(fired') /\ DOMAIN fired' \subseteq Instance
  BY <1>1, JobsFrame, Grows0 DEF StateInv, RestInv, chainVars
<1>5. manager' \in ManagerRecords /\ manager'.pc = "peek"
  BY <1>1, ManagerAtIs DEF ManagerPcs
<1> QED BY <1>1, <1>3, <1>4, <1>5, ManagerStepKeeps DEF Working

LEMMA RemoveJobKeeps == StateInv /\ RemoveJob => StateInv'
<1> SUFFICES ASSUME StateInv, RemoveJob PROVE StateInv'
  OBVIOUS
<1>1. /\ manager' = ManagerAt("peek") /\ jobs' = WithoutJob(manager.entry.sub)
      /\ UNCHANGED <<now, chainVars, heap, messages, poisoned, task, fired>>
  BY DEF RemoveJob
<1>2. JobsInv'
  BY <1>1, WithoutJobKeeps DEF StateInv, chainVars
<1>3. HeapInv' /\ messages' \in Nat /\ IsABag(fired') /\ DOMAIN fired' \subseteq Instance
  BY <1>1, HeapFrame, Grows0 DEF StateInv, RestInv, chainVars
<1>4. manager' \in ManagerRecords /\ manager'.pc = "peek"
  BY <1>1, ManagerAtIs DEF ManagerPcs
<1> QED BY <1>1, <1>2, <1>3, <1>4, ManagerStepKeeps DEF Working

LEMMA ManagerMeetsPoisonKeeps == StateInv /\ ManagerMeetsPoison => StateInv'
<1> SUFFICES ASSUME StateInv, ManagerMeetsPoison PROVE StateInv'
  OBVIOUS
<1>1. /\ manager' = ManagerAt("panicked")
      /\ UNCHANGED <<now, chainVars, jobs, heap, messages, poisoned, task, fired>>
  BY DEF ManagerMeetsPoison
<1>2. JobsInv' /\ HeapInv' /\ messages' \in Nat
      /\ IsABag(fired') /\ DOMAIN fired' \subseteq Instance
  BY <1>1, JobsFrame, HeapFrame, Grows0 DEF StateInv, RestInv, chainVars
<1>3. manager' \in ManagerRecords /\ manager'.pc = "panicked"
  BY <1>1, ManagerAtIs DEF ManagerPcs
<1> QED BY <1>1, <1>2, <1>3, ManagerStepKeeps DEF Working
-----------------------------------------------------------------------------
(* Type correctness.                                                        *)

LEMMA StutterKeeps == StateInv /\ UNCHANGED vars => StateInv'
<1> SUFFICES ASSUME StateInv, UNCHANGED vars PROVE StateInv'
  OBVIOUS
<1>1. LogInv' /\ Grows
  BY LogFrame DEF StateInv, vars, chainVars
<1> QED
  BY <1>1, JobsFrame, HeapFrame, TaskFrame, ManagerFrame, RestFrame
  DEF StateInv, vars, chainVars

LEMMA StateStep == StateInv /\ [Next]_vars => StateInv'
<1> SUFFICES ASSUME StateInv, [Next]_vars PROVE StateInv'
  OBVIOUS
<1>1. CASE ChainStep
  BY <1>1, ChainStepKeeps
<1>2. CASE Tick
  BY <1>2, TickKeeps
<1>3. CASE Begin
  BY <1>3, BeginKeeps
<1>4. CASE ManagerStep
  BY <1>4, PeekKeeps, ReceiveKeeps, PopKeepsState, TriggerKeeps, AdvanceKeeps, PushNextKeeps,
     RemoveJobKeeps, ManagerMeetsPoisonKeeps DEF ManagerStep
<1>5. ASSUME NEW t \in Tasks, TaskStep(t) PROVE StateInv'
  BY <1>5, InsertKeeps, ScheduleKeeps, PushKeepsState, RemoveKeeps, SendKeeps,
     CheckUpdateKeeps, ApplyUpdateKeeps, PanicKeeps DEF TaskStep
<1>6. CASE UNCHANGED vars
  BY <1>6, StutterKeeps
<1> QED BY <1>1, <1>2, <1>3, <1>4, <1>5, <1>6 DEF Next

THEOREM StateInvariant == Spec => []StateInv
BY InitInv, StateStep, PTL DEF Spec

\* Every variable has its type: no time in the heap and no number of an instance is
\* negative, however often a subscription is announced.
THEOREM TypeCorrect == Spec => []TypeOK
<1>1. StateInv => TypeOK
  BY DEF StateInv, LogInv, JobsInv, HeapInv, TaskInv, TaskPcs, ManagerInv, ManagerPcs,
         RestInv, TypeOK
<1> QED BY <1>1, StateInvariant, PTL
-----------------------------------------------------------------------------
(* The manager never sleeps past an entry.                                  *)

LEMMA WaitsInit == Init => WaitsForTheEarliest
BY DEF Init, WaitsForTheEarliest, ManagerAt

\* A step in which the manager stays as it is, no entry is added, no message is taken
\* and no sender goes away.
LEMMA WaitsFrame ==
  ASSUME StateInv, WaitsForTheEarliest, Grows, UNCHANGED <<manager, heap, messages>>,
         \A t \in Tasks : task[t].pc = "send" => task'[t].pc = "send"
  PROVE  WaitsForTheEarliest'
<1>1. \A t \in Tasks : task[t].pc = "send" => EventOf(t)' = EventOf(t)
  BY DEF StateInv, TaskInv, Grows, EventOf
<1> QED BY <1>1 DEF WaitsForTheEarliest

\* Other tasks stay where they are.
LEMMA OthersStay ==
  ASSUME StateInv, NEW t \in Tasks, NEW at, Goto(t, at), task[t].pc # "send"
  PROVE  \A u \in Tasks : task[u].pc = "send" => task'[u].pc = "send"
BY DEF StateInv, TaskInv, Goto

LEMMA WaitsPush ==
  ASSUME StateInv, WaitsForTheEarliest, NEW t \in Tasks, Push(t) PROVE WaitsForTheEarliest'
<1> DEFINE e == [sub |-> EventOf(t).sub, time |-> task[t].next]
<1>1. /\ task[t].pc = "push" /\ Goto(t, At("send", None)) /\ heap' = BagAdd(heap, e)
      /\ UNCHANGED <<log, messages, manager>>
  BY DEF Push, chainVars
<1>2. DOMAIN heap' = DOMAIN heap \union {e}
  BY <1>1, BagAddIs DEF StateInv, HeapInv
<1>3. task'[t].pc = "send" /\ \A u \in Tasks : task[u].pc = "send" => task'[u].pc = "send"
  <2>1. task' = [task EXCEPT ![t] = At("send", None)]
    BY <1>1 DEF Goto
  <2> QED BY <2>1 DEF StateInv, TaskInv, At
<1>4. \A u \in Tasks : EventOf(u)' = EventOf(u)
  BY <1>1 DEF EventOf
<1>5. e.sub = EventOf(t).sub
  OBVIOUS
<1> HIDE DEF e
<1> QED BY <1>1, <1>2, <1>3, <1>4, <1>5 DEF WaitsForTheEarliest

LEMMA WaitsSend ==
  ASSUME StateInv, NEW t \in Tasks, Send(t) PROVE WaitsForTheEarliest'
<1>1. messages \in Nat /\ messages' = messages + 1
  BY DEF StateInv, RestInv, Send
<1>2. messages' > 0
  BY <1>1
<1> QED BY <1>2 DEF WaitsForTheEarliest

LEMMA WaitsPeek == ASSUME StateInv, Peek PROVE WaitsForTheEarliest'
<1>1. /\ manager' = [manager EXCEPT !.pc = "wait", !.wake = Wake] /\ heap' = heap
      /\ manager \in ManagerRecords
  BY DEF Peek, StateInv, ManagerInv, ManagerRecords
<1>2. manager'.wake = Wake
  BY <1>1 DEF ManagerRecords
<1>3. \A e \in DOMAIN heap : Wake \in Nat /\ Wake <= e.time
  BY WakeIs DEF StateInv
<1> QED BY <1>1, <1>2, <1>3 DEF WaitsForTheEarliest, None

\* The manager does not wait after its other steps.
LEMMA WaitsManager ==
  ASSUME StateInv,
         \/ Receive \/ Pop \/ Trigger \/ Advance \/ PushNext \/ RemoveJob
         \/ ManagerMeetsPoison
  PROVE  WaitsForTheEarliest'
<1>0. manager \in ManagerRecords
  BY DEF StateInv, ManagerInv, ManagerRecords
<1>1. CASE Receive \/ Pop
  BY <1>0, <1>1 DEF Receive, Pop, ManagerAt, ManagerRecords, WaitsForTheEarliest
<1>2. CASE Trigger
  BY <1>0, <1>2 DEF Trigger, ManagerGoto, At, ManagerRecords, WaitsForTheEarliest
<1>3. CASE Advance
  <2> DEFINE s == manager.entry.sub
  <2>1. PICK at : at = NextTrigger(s, manager.entry.time, FALSE, "peek")
    OBVIOUS
  <2>2. ManagerGoto(at)
    BY <1>3, <2>1 DEF Advance
  <2>3. at.pc # "wait"
    BY <2>1 DEF NextTrigger, At
  <2>4. manager'.pc = at.pc
    BY <1>0, <2>2 DEF ManagerGoto, ManagerRecords
  <2> QED BY <2>3, <2>4 DEF WaitsForTheEarliest
<1>4. CASE PushNext \/ RemoveJob \/ ManagerMeetsPoison
  BY <1>4 DEF PushNext, RemoveJob, ManagerMeetsPoison, ManagerAt, WaitsForTheEarliest
<1> QED BY <1>1, <1>2, <1>3, <1>4

\* Who finds no manager does not find it waiting.
LEMMA WaitsNoManager ==
  ASSUME NEW t \in Tasks, FindsNoManager(t) PROVE WaitsForTheEarliest'
BY DEF FindsNoManager, ManagerGone, Panic, WaitsForTheEarliest

LEMMA WaitsTask ==
  ASSUME StateInv, WaitsForTheEarliest, NEW t \in Tasks,
         \/ Insert(t) \/ Schedule(t) \/ Remove(t) \/ CheckUpdate(t) \/ ApplyUpdate(t)
         \/ MeetsPoison(t)
  PROVE  WaitsForTheEarliest'
<1>1. UNCHANGED <<log, manager, heap, messages>>
  BY DEF Insert, Schedule, Remove, CheckUpdate, ApplyUpdate, MeetsPoison, Panic, chainVars
<1>2. task[t].pc # "send"
  BY DEF Insert, Schedule, Remove, CheckUpdate, ApplyUpdate, MeetsPoison, MayBegin
<1>3. \E at : Goto(t, at)
  BY DEF Insert, Schedule, Remove, CheckUpdate, ApplyUpdate, MeetsPoison, Panic
<1>4. \A u \in Tasks : task[u].pc = "send" => task'[u].pc = "send"
  BY <1>2, <1>3, OthersStay
<1> QED BY <1>1, <1>4, Grows0, WaitsFrame

LEMMA WaitsChain ==
  ASSUME StateInv, WaitsForTheEarliest, ChainStep PROVE WaitsForTheEarliest'
<1>1. PICK kind, s, job : Emit(kind, s, job)
  BY DEF ChainStep, StartSubscription, UpdateParams, UpdateTermination
<1>2. log' = Append(log, [kind |-> kind, sub |-> s, job |-> job])
      /\ UNCHANGED <<heap, messages, task, manager>>
  BY <1>1 DEF Emit
<1>3. Grows
  BY <1>2 DEF StateInv, LogInv, Grows
<1> QED BY <1>2, <1>3, WaitsFrame

LEMMA WaitsStep == StateInv /\ WaitsForTheEarliest /\ [Next]_vars => WaitsForTheEarliest'
<1> SUFFICES ASSUME StateInv, WaitsForTheEarliest, [Next]_vars PROVE WaitsForTheEarliest'
  OBVIOUS
<1>1. CASE ChainStep
  BY <1>1, WaitsChain
<1>2. CASE Tick
  BY <1>2, Grows0, WaitsFrame DEF Tick, chainVars
<1>3. CASE Begin
  <2>1. manager' = [manager EXCEPT !.pc = "peek"] /\ manager \in ManagerRecords
    BY <1>3 DEF Begin, StateInv, ManagerInv, ManagerRecords
  <2> QED BY <2>1 DEF WaitsForTheEarliest, ManagerRecords
<1>4. CASE ManagerStep
  BY <1>4, WaitsPeek, WaitsManager DEF ManagerStep
<1>5. ASSUME NEW t \in Tasks, TaskStep(t) PROVE WaitsForTheEarliest'
  BY <1>5, WaitsTask, WaitsPush, WaitsSend, WaitsNoManager DEF TaskStep
<1>6. CASE UNCHANGED vars
  BY <1>6, Grows0, WaitsFrame DEF vars, chainVars
<1> QED BY <1>1, <1>2, <1>3, <1>4, <1>5, <1>6 DEF Next

\* While the manager sleeps, an entry earlier than its wake-up time has a message on its
\* way to it: between the push and the message the task that pushed is still to send.
THEOREM NeverOversleeps == Spec => []WaitsForTheEarliest
BY WaitsInit, WaitsStep, StateInvariant, PTL DEF Spec
-----------------------------------------------------------------------------
(* A subscription is kept exactly while its next instance is scheduled, if *)
(* every event is delivered once.                                           *)

Started(i) == log[i].kind = "started"

\* Task t handles the announcement of s.
Announces(t, s) == t[1] \in DOMAIN log /\ Started(t[1]) /\ EventOf(t).sub = s

Holding == {"schedule", "push", "remove"}

\* A subscription is announced once, before it is updated, and kept from the handling of
\* the announcement at the earliest; a task's place fits its event.
OnceInv ==
  /\ \A i, j \in DOMAIN log : log[i].sub = log[j].sub /\ Started(i) /\ Started(j) => i = j
  /\ \A i \in DOMAIN log : \E j \in DOMAIN log : Started(j) /\ log[j].sub = log[i].sub /\ j <= i
  /\ \A t \in Tasks : task[t].pc \in Holding => Started(t[1])
  /\ \A t \in Tasks : t[1] \in DOMAIN log /\ Started(t[1]) /\ task[t].pc = "none"
                        => EventOf(t).sub \notin DOMAIN jobs

\* The manager begins with the gateway; somebody panics exactly when the table is
\* poisoned.
CalmInv ==
  /\ cut = None => manager.pc = "off"
  /\ ~poisoned => /\ manager.pc \notin {"returned", "panicked"}
                  /\ \A t \in Tasks : task[t].pc # "panicked"
  /\ poisoned => \E t \in Tasks : task[t].pc = "panicked"

\* Who has the next instance of s: the manager, a task, the heap, or nobody.
InManager(s) == ManagerHolds(s) /\ TasksFor(s) = {} /\ EntriesFor(s) = {}
InTask(s) == ~ManagerHolds(s) /\ (\E t \in Tasks : TasksFor(s) = {t}) /\ EntriesFor(s) = {}
InHeap(s) ==
  /\ ~ManagerHolds(s) /\ TasksFor(s) = {}
  /\ \E e \in DOMAIN heap : EntriesFor(s) = {e} /\ heap[e] = 1
Nobody(s) == ~ManagerHolds(s) /\ TasksFor(s) = {} /\ EntriesFor(s) = {}

Token(s) == IF s \in DOMAIN jobs THEN InManager(s) \/ InTask(s) \/ InHeap(s) ELSE Nobody(s)
TokenInv == ~poisoned => \A s \in Subs : Token(s)

KeepInv == OnceInv /\ CalmInv /\ TokenInv

LEMMA OneCopy ==
  ASSUME Copies = 1, NEW t \in Tasks, NEW u \in Tasks, t[1] = u[1] PROVE t = u
BY DEF Tasks

\* Where the tasks are after a step of one of them.
LEMMA GotoIs ==
  ASSUME StateInv, NEW t \in Tasks, NEW at, Goto(t, at)
  PROVE  \A u \in Tasks : task'[u] = IF u = t THEN at ELSE task[u]
BY DEF StateInv, TaskInv, Goto

LEMMA TasksForIs ==
  ASSUME StateInv, UNCHANGED log, NEW t \in Tasks, NEW at, Goto(t, at), NEW s
  PROVE  /\ EventOf(t).sub # s => TasksFor(s)' = TasksFor(s)
         /\ EventOf(t).sub = s /\ at.pc \in Holding => TasksFor(s)' = TasksFor(s) \union {t}
         /\ EventOf(t).sub = s /\ at.pc \notin Holding => TasksFor(s)' = TasksFor(s) \ {t}
<1>1. \A u \in Tasks : task'[u] = IF u = t THEN at ELSE task[u]
  BY GotoIs
<1>2. \A u \in Tasks : EventOf(u)' = EventOf(u)
  BY DEF EventOf
<1>3. TasksFor(s)' = {u \in Tasks : /\ (IF u = t THEN at ELSE task[u]).pc \in Holding
                                    /\ EventOf(u).sub = s}
  BY <1>1, <1>2 DEF TasksFor, Holding
<1> QED BY <1>3 DEF TasksFor, Holding

LEMMA TokenStays ==
  ASSUME NEW s, Token(s), s \in DOMAIN jobs' <=> s \in DOMAIN jobs,
         TasksFor(s)' = TasksFor(s), EntriesFor(s)' = EntriesFor(s),
         \A e \in EntriesFor(s) : heap'[e] = heap[e], ManagerHolds(s)' <=> ManagerHolds(s)
  PROVE  Token(s)'
<1>1. InManager(s) => InManager(s)'
  BY DEF InManager
<1>2. InTask(s) => InTask(s)'
  BY DEF InTask
<1>3. InHeap(s) => InHeap(s)'
  BY DEF InHeap, EntriesFor
<1>4. Nobody(s) => Nobody(s)'
  BY DEF Nobody
<1> QED BY <1>1, <1>2, <1>3, <1>4 DEF Token

\* What the heap has for a subscription after a push and after a pop.
LEMMA EntriesPushed ==
  ASSUME IsABag(heap), NEW e, heap' = BagAdd(heap, e), NEW s
  PROVE  /\ e.sub # s => /\ EntriesFor(s)' = EntriesFor(s)
                         /\ \A f \in EntriesFor(s) : heap'[f] = heap[f]
         /\ e.sub = s /\ EntriesFor(s) = {} =>
              EntriesFor(s)' = {e} /\ e \in DOMAIN heap' /\ heap'[e] = 1
<1>1. DOMAIN heap' = DOMAIN heap \union {e}
  BY BagAddIs
<1>2. \A f \in DOMAIN heap : f # e => heap'[f] = heap[f]
  BY DEF BagAdd
<1>3. e \notin DOMAIN heap => heap'[e] = 1
  BY DEF BagAdd
<1> QED BY <1>1, <1>2, <1>3 DEF EntriesFor

LEMMA EntriesPopped ==
  ASSUME IsABag(heap), NEW e \in DOMAIN heap, heap' = BagRemove(heap, e), NEW s
  PROVE  /\ e.sub # s => /\ EntriesFor(s)' = EntriesFor(s)
                         /\ \A f \in EntriesFor(s) : heap'[f] = heap[f]
         /\ EntriesFor(s) = {e} /\ heap[e] = 1 => EntriesFor(s)' = {}
<1>1. \A f \in DOMAIN heap : f # e => f \in DOMAIN heap' /\ heap'[f] = heap[f]
  BY DEF BagRemove
<1>2. DOMAIN heap' \subseteq DOMAIN heap
  BY BagRemoveIs
<1>3. heap[e] = 1 => e \notin DOMAIN heap'
  BY DEF BagRemove
<1> QED BY <1>1, <1>2, <1>3 DEF EntriesFor
-----------------------------------------------------------------------------
(* The announcements.                                                       *)

\* What the chain emits: the announcement of a subscription comes first, and once.
LEMMA EmitIs ==
  ASSUME StateInv, ChainStep
  PROVE  \E kind \in Kinds, s \in Subs, job \in Job :
           /\ log' = Append(log, [kind |-> kind, sub |-> s, job |-> job])
           /\ kind = "started" <=> EventsOf(s) = {}
           /\ UNCHANGED <<now, cut, jobs, heap, messages, poisoned, task, manager, fired>>
<1>1. PICK s \in Subs : StartSubscription(s) \/ UpdateParams(s) \/ UpdateTermination(s)
  BY DEF ChainStep
<1>2. now \in 0..LastTime /\ LastTime \in Nat /\ LogInv
  BY SubscriptionsAssumption DEF StateInv, RestInv
<1>3. CASE StartSubscription(s)
  <2>1. PICK start \in {now, now + 1}, interval \in Intervals :
          \E term \in (start + 1)..(LastTime + 1) :
            Emit("started", s, [start |-> start, interval |-> interval, term |-> term])
    BY <1>3 DEF StartSubscription
  <2>2. PICK term \in (start + 1)..(LastTime + 1) :
          Emit("started", s, [start |-> start, interval |-> interval, term |-> term])
    BY <2>1
  <2>3. start \in Times /\ term \in Times
    BY <1>2 DEF Times
  <2>4. [start |-> start, interval |-> interval, term |-> term] \in Job
    BY <2>3 DEF Job
  <2>5. EventsOf(s) = {}
    BY <1>3 DEF StartSubscription
  <2> QED BY <2>2, <2>4, <2>5 DEF Emit
<1>4. CASE UpdateParams(s)
  BY <1>2, <1>4, OnChainIs DEF UpdateParams, Emit
<1>5. CASE UpdateTermination(s)
  <2>1. EventsOf(s) # {} /\ OnChain(s) \in Job
    BY <1>2, <1>5, OnChainIs DEF UpdateTermination
  <2>2. PICK term \in now..(LastTime + 1) :
          Emit("termination", s, [OnChain(s) EXCEPT !.term = term])
    BY <1>5 DEF UpdateTermination
  <2>3. term \in Times
    BY <1>2 DEF Times
  <2>4. [OnChain(s) EXCEPT !.term = term] \in Job
    BY <2>1, <2>3 DEF Job
  <2> QED BY <2>1, <2>2, <2>4 DEF Emit
<1> QED BY <1>1, <1>3, <1>4, <1>5

LEMMA AppendIs ==
  ASSUME LogInv, NEW x, log' = Append(log, x)
  PROVE  /\ DOMAIN log' = DOMAIN log \union {Len(log) + 1} /\ Grows
         /\ log'[Len(log) + 1] = x /\ Len(log) + 1 \notin DOMAIN log
         /\ \A i \in DOMAIN log : i \in Nat /\ i < Len(log) + 1
<1>1. Len(log) \in Nat /\ DOMAIN log = 1..Len(log)
  BY DEF LogInv
<1> QED BY <1>1 DEF LogInv, Grows

LEMMA OnceChain == ASSUME StateInv, OnceInv, ChainStep PROVE OnceInv'
<1>1. PICK kind \in Kinds, s \in Subs, job \in Job :
        /\ log' = Append(log, [kind |-> kind, sub |-> s, job |-> job])
        /\ kind = "started" <=> EventsOf(s) = {}
        /\ UNCHANGED <<now, cut, jobs, heap, messages, poisoned, task, manager, fired>>
  BY EmitIs
<1>0. PICK n \in Nat : n = Len(log) + 1
  BY DEF StateInv, LogInv
<1>2. /\ DOMAIN log' = DOMAIN log \union {n} /\ Grows /\ n \notin DOMAIN log
      /\ log'[n].kind = kind /\ log'[n].sub = s
      /\ \A i \in DOMAIN log : i \in Nat /\ i < n
  BY <1>0, <1>1, AppendIs DEF StateInv
<1>3. \A i \in DOMAIN log : log'[i] = log[i] /\ Started(i)' = Started(i)
  BY <1>2 DEF Grows, Started
<1>4. Started(n)' <=> EventsOf(s) = {}
  BY <1>1, <1>2 DEF Started
<1>5. \A i, j \in DOMAIN log' :
        log'[i].sub = log'[j].sub /\ Started(i)' /\ Started(j)' => i = j
  BY <1>2, <1>3, <1>4 DEF OnceInv, EventsOf
<1>6. ASSUME NEW i \in DOMAIN log'
      PROVE  \E j \in DOMAIN log' : Started(j)' /\ log'[j].sub = log'[i].sub /\ j <= i
  <2>1. CASE i \in DOMAIN log
    BY <1>2, <1>3, <2>1 DEF OnceInv
  <2>2. CASE i = n /\ EventsOf(s) = {}
    BY <1>2, <1>4, <2>2
  <2>3. CASE i = n /\ EventsOf(s) # {}
    <3>1. PICK k \in DOMAIN log : log[k].sub = s
      BY <2>3 DEF EventsOf
    <3>2. PICK j \in DOMAIN log : Started(j) /\ log[j].sub = s
      BY <3>1 DEF OnceInv
    <3> QED BY <1>2, <1>3, <2>3, <3>2
  <2> QED BY <1>2, <2>1, <2>2, <2>3
<1>7. ASSUME NEW t \in Tasks, task'[t].pc \in Holding PROVE Started(t[1])'
  <2>1. task[t].pc # "none" /\ task[t].pc \in Holding
    BY <1>1, <1>7 DEF Holding
  <2>2. t[1] \in DOMAIN log
    BY <2>1 DEF StateInv, TaskInv
  <2> QED BY <1>3, <2>1, <2>2 DEF OnceInv
<1>8. ASSUME NEW t \in Tasks, t[1] \in DOMAIN log', Started(t[1])', task'[t].pc = "none"
      PROVE  EventOf(t)'.sub \notin DOMAIN jobs'
  <2>1. EventOf(t)' = log'[t[1]] /\ EventOf(t) = log[t[1]]
    BY DEF EventOf
  <2>2. CASE t[1] \in DOMAIN log
    BY <1>1, <1>3, <1>8, <2>1, <2>2 DEF OnceInv
  <2>3. CASE t[1] = n
    <3>1. EventsOf(s) = {}
      BY <1>4, <1>8, <2>3
    <3>2. s \notin DOMAIN jobs
      BY <3>1 DEF StateInv, JobsInv, EventsOf
    <3> QED BY <1>1, <1>2, <2>1, <2>3, <3>2
  <2> QED BY <1>2, <1>8, <2>2, <2>3
<1> QED BY <1>5, <1>6, <1>7, <1>8 DEF OnceInv

LEMMA OnceTask ==
  ASSUME Copies = 1, StateInv, OnceInv, UNCHANGED log, NEW t \in Tasks, NEW at, Goto(t, at),
         at.pc # "none", at.pc \in Holding => Started(t[1]),
         \A s \in DOMAIN jobs' : s \in DOMAIN jobs \/ Announces(t, s)
  PROVE  OnceInv'
<1>1. \A u \in Tasks : task'[u] = IF u = t THEN at ELSE task[u]
  BY GotoIs
<1>2. \A u \in Tasks : EventOf(u)' = EventOf(u)
  BY DEF EventOf
<1>3. \A i : Started(i)' = Started(i)
  BY DEF Started
<1>4. ASSUME NEW u \in Tasks, u[1] \in DOMAIN log, Started(u[1]), task'[u].pc = "none"
      PROVE  EventOf(u).sub \notin DOMAIN jobs'
  <2>1. u # t /\ task[u].pc = "none"
    BY <1>1, <1>4
  <2>2. u[1] # t[1]
    BY <2>1, OneCopy
  <2>3. EventOf(u).sub \notin DOMAIN jobs
    BY <1>4, <2>1 DEF OnceInv
  <2>4. ~Announces(t, EventOf(u).sub)
    BY <1>4, <2>2 DEF OnceInv, Announces, EventOf
  <2> QED BY <2>3, <2>4
<1>5. ASSUME NEW u \in Tasks, task'[u].pc \in Holding PROVE Started(u[1])
  BY <1>1, <1>5 DEF OnceInv
<1> QED BY <1>2, <1>3, <1>4, <1>5 DEF OnceInv

LEMMA OnceFrame ==
  ASSUME OnceInv, UNCHANGED <<log, task>>, DOMAIN jobs' \subseteq DOMAIN jobs PROVE OnceInv'
BY DEF OnceInv, Started, EventOf
-----------------------------------------------------------------------------
(* Calm.                                                                    *)

\* The places that add_next_trigger_time_to_heap chooses from.
LEMMA NextTriggerPcs ==
  ASSUME NEW s, NEW previous, NEW replayed, NEW neither,
         NEW at, at = NextTrigger(s, previous, replayed, neither)
  PROVE  /\ at.pc \in {neither, "remove", "push"}
         /\ s \in DOMAIN jobs => at.pc \in {"remove", "push"}
         /\ s \notin DOMAIN jobs => at.pc = neither
BY DEF NextTrigger, At

LEMMA CalmManager == ASSUME StateInv, CalmInv, TokenInv, ManagerStep PROVE CalmInv'
<1>1. UNCHANGED <<cut, poisoned, task>> /\ manager \in ManagerRecords
  BY DEF ManagerStep, Peek, Receive, Pop, Trigger, Advance, PushNext, RemoveJob,
         ManagerMeetsPoison, chainVars, StateInv, ManagerInv, ManagerRecords
<1>2. cut # None
  <2>1. manager.pc # "off"
    BY DEF ManagerStep, Peek, Receive, Pop, Trigger, Advance, PushNext, RemoveJob,
           ManagerMeetsPoison
  <2> QED BY <2>1 DEF CalmInv
<1>3. ASSUME ~poisoned PROVE manager'.pc \notin {"returned", "panicked"}
  <2>1. CASE Peek \/ Receive \/ Pop
    BY <1>1, <2>1 DEF Peek, Receive, Pop, ManagerAt, ManagerRecords
  <2>2. CASE Trigger
    <3>1. manager.entry.sub \in Subs /\ ManagerHolds(manager.entry.sub)
      BY <2>2 DEF Trigger, StateInv, ManagerInv, Begun, ManagerHolds
    <3>2. manager.entry.sub \in DOMAIN jobs
      BY <1>3, <3>1 DEF TokenInv, Token, Nobody
    <3>3. ManagerGoto(At("next", None))
      BY <2>2, <3>2 DEF Trigger
    <3> QED BY <1>1, <3>3 DEF ManagerGoto, ManagerRecords, At
  <2>3. CASE Advance
    <3>1. PICK at : at = NextTrigger(manager.entry.sub, manager.entry.time, FALSE, "peek")
      OBVIOUS
    <3>2. ManagerGoto(at)
      BY <2>3, <3>1 DEF Advance
    <3>3. at.pc \in {"peek", "remove", "push"}
      BY <3>1, NextTriggerPcs
    <3>4. manager'.pc = at.pc
      BY <1>1, <3>2 DEF ManagerGoto, ManagerRecords
    <3> QED BY <3>3, <3>4
  <2>4. CASE PushNext \/ RemoveJob
    BY <2>4 DEF PushNext, RemoveJob, ManagerAt
  <2> QED BY <1>3, <2>1, <2>2, <2>3, <2>4 DEF ManagerStep, ManagerMeetsPoison
<1> QED BY <1>1, <1>2, <1>3 DEF CalmInv

\* A task that panics does so because the table is poisoned, or poisons it.
LEMMA CalmGoto ==
  ASSUME StateInv, CalmInv, UNCHANGED <<cut, manager>>, NEW t \in Tasks, NEW at, Goto(t, at),
         task[t].pc # "panicked", at.pc = "panicked" => poisoned',
         poisoned => poisoned', poisoned' => poisoned \/ at.pc = "panicked"
  PROVE  CalmInv'
<1>1. \A u \in Tasks : task'[u] = IF u = t THEN at ELSE task[u]
  BY GotoIs
<1>2. CASE ~poisoned'
  <2>1. ~poisoned /\ at.pc # "panicked"
    BY <1>2
  <2> QED BY <1>1, <1>2, <2>1 DEF CalmInv
<1>3. CASE poisoned'
  <2>1. CASE poisoned
    <3>1. PICK u \in Tasks : task[u].pc = "panicked"
      BY <2>1 DEF CalmInv
    <3>2. task'[u].pc = "panicked"
      BY <1>1, <3>1
    <3> QED BY <1>3, <3>2 DEF CalmInv
  <2>2. CASE at.pc = "panicked"
    BY <1>1, <1>3, <2>2 DEF CalmInv
  <2> QED BY <1>3, <2>1, <2>2
<1> QED BY <1>2, <1>3

LEMMA CalmTask ==
  ASSUME StateInv, CalmInv, NEW t \in Tasks, TaskStep(t) PROVE CalmInv'
<1>1. UNCHANGED <<cut, manager>> /\ task[t].pc # "panicked"
  BY DEF TaskStep, Insert, Schedule, Push, Remove, Send, CheckUpdate, ApplyUpdate,
         MeetsPoison, FindsNoManager, Panic, MayBegin, chainVars
<1>2. CASE Insert(t) \/ Push(t) \/ Remove(t) \/ Send(t) \/ CheckUpdate(t)
  <2>1. PICK pc : Goto(t, At(pc, None)) /\ pc # "panicked"
    BY <1>2 DEF Insert, Push, Remove, Send, CheckUpdate
  <2>2. UNCHANGED poisoned /\ At(pc, None).pc # "panicked"
    BY <1>2, <2>1 DEF Insert, Push, Remove, Send, CheckUpdate, At
  <2> QED BY <1>1, <2>1, <2>2, CalmGoto
<1>3. CASE Schedule(t)
  <2>1. PICK at : at = IF poisoned THEN At("panicked", None)
                       ELSE NextTrigger(EventOf(t).sub, Previous(EventOf(t).job),
                                        IsReplayed(t), "send")
    OBVIOUS
  <2>2. Goto(t, at) /\ UNCHANGED poisoned
    BY <1>3, <2>1 DEF Schedule
  <2>3. at.pc = "panicked" => poisoned
    <3> SUFFICES ASSUME ~poisoned PROVE at.pc # "panicked"
      OBVIOUS
    <3>1. at = NextTrigger(EventOf(t).sub, Previous(EventOf(t).job), IsReplayed(t), "send")
      BY <2>1
    <3>2. at.pc \in {"send", "remove", "push"}
      BY <3>1, NextTriggerPcs
    <3> QED BY <3>2
  <2> QED BY <1>1, <2>2, <2>3, CalmGoto
<1>4. CASE ApplyUpdate(t)
  <2>1. CASE Goto(t, At("done", None)) /\ UNCHANGED poisoned
    <3>1. At("done", None).pc # "panicked"
      BY DEF At
    <3> QED BY <1>1, <2>1, <3>1, CalmGoto
  <2>2. CASE Goto(t, At("panicked", None)) /\ poisoned' = TRUE
    <3>1. At("panicked", None).pc = "panicked"
      BY DEF At
    <3> QED BY <1>1, <2>2, <3>1, CalmGoto
  <2> QED BY <1>4, <2>1, <2>2 DEF ApplyUpdate
<1>5. CASE MeetsPoison(t) \/ FindsNoManager(t)
  <2>1. poisoned
    BY <1>5 DEF MeetsPoison, FindsNoManager, ManagerGone, CalmInv
  <2>2. Goto(t, At("panicked", None)) /\ UNCHANGED poisoned
    BY <1>5 DEF MeetsPoison, FindsNoManager, Panic
  <2> QED BY <1>1, <2>1, <2>2, CalmGoto
<1> QED BY <1>2, <1>3, <1>4, <1>5 DEF TaskStep

LEMMA CalmRest ==
  ASSUME StateInv, CalmInv, ChainStep \/ Tick \/ Begin \/ UNCHANGED vars PROVE CalmInv'
<1>1. CASE UNCHANGED <<cut, poisoned, manager, task>>
  BY <1>1 DEF CalmInv
<1>2. CASE Begin
  <2>1. cut' = Len(log) /\ Len(log) \in Nat /\ manager'.pc = "peek"
    BY <1>2 DEF Begin, StateInv, LogInv, ManagerInv
  <2>2. cut' # None
    BY <2>1 DEF None
  <2>3. UNCHANGED <<poisoned, task>>
    BY <1>2 DEF Begin
  <2> QED BY <2>1, <2>2, <2>3 DEF CalmInv
<1> QED
  BY <1>1, <1>2 DEF ChainStep, StartSubscription, UpdateParams, UpdateTermination, Emit,
     Tick, vars, chainVars
-----------------------------------------------------------------------------
(* Once.                                                                    *)

LEMMA OnceTaskStep ==
  ASSUME Copies = 1, StateInv, OnceInv, NEW t \in Tasks, TaskStep(t) PROVE OnceInv'
<1>1. UNCHANGED log
  BY DEF TaskStep, Insert, Schedule, Push, Remove, Send, CheckUpdate, ApplyUpdate,
         MeetsPoison, FindsNoManager, Panic, chainVars
<1>2. CASE Insert(t)
  <2>1. Started(t[1]) /\ t[1] \in DOMAIN log
    BY <1>2, TaskEvent DEF Insert, Started, EventOf, StateInv
  <2>2. \A s \in DOMAIN jobs' : s \in DOMAIN jobs \/ Announces(t, s)
    BY <1>2, <2>1 DEF Insert, WithJob, Announces
  <2>3. PICK pc \in {"done", "schedule"} : Goto(t, At(pc, None))
    BY <1>2 DEF Insert
  <2>4. At(pc, None).pc # "none"
    BY DEF At
  <2> QED BY <1>1, <2>1, <2>2, <2>3, <2>4, OnceTask
<1>3. CASE Schedule(t)
  <2>1. PICK at : at = IF poisoned THEN At("panicked", None)
                       ELSE NextTrigger(EventOf(t).sub, Previous(EventOf(t).job),
                                        IsReplayed(t), "send")
    OBVIOUS
  <2>2. Goto(t, at) /\ UNCHANGED jobs /\ task[t].pc \in Holding
    BY <1>3, <2>1 DEF Schedule, Holding
  <2>3. at.pc # "none"
    <3>1. CASE poisoned
      BY <2>1, <3>1 DEF At
    <3>2. CASE ~poisoned
      <4>1. at.pc \in {"send", "remove", "push"}
        BY <2>1, <3>2, NextTriggerPcs
      <4> QED BY <4>1
    <3> QED BY <3>1, <3>2
  <2>4. Started(t[1])
    BY <2>2 DEF OnceInv
  <2> QED BY <1>1, <2>2, <2>3, <2>4, OnceTask
<1>4. CASE \/ Push(t) \/ Remove(t) \/ Send(t) \/ CheckUpdate(t) \/ ApplyUpdate(t)
           \/ MeetsPoison(t) \/ FindsNoManager(t)
  <2>1. PICK pc \in {"send", "done", "apply", "panicked"} : Goto(t, At(pc, None))
    BY <1>4 DEF Push, Remove, Send, CheckUpdate, ApplyUpdate, MeetsPoison, FindsNoManager, Panic
  <2>2. At(pc, None).pc # "none" /\ At(pc, None).pc \notin Holding
    BY DEF At, Holding
  <2>3. DOMAIN jobs' \subseteq DOMAIN jobs
    BY <1>4 DEF Push, Remove, Send, CheckUpdate, ApplyUpdate, MeetsPoison, FindsNoManager,
       Panic, WithoutJob, Updated
  <2> QED BY <1>1, <2>1, <2>2, <2>3, OnceTask
<1> QED BY <1>2, <1>3, <1>4 DEF TaskStep

LEMMA OnceRest ==
  ASSUME StateInv, OnceInv, ManagerStep \/ Tick \/ Begin \/ UNCHANGED vars PROVE OnceInv'
<1>1. UNCHANGED <<log, task>> /\ DOMAIN jobs' \subseteq DOMAIN jobs
  BY DEF ManagerStep, Peek, Receive, Pop, Trigger, Advance, PushNext, RemoveJob,
         ManagerMeetsPoison, chainVars, Tick, Begin, vars, WithoutJob
<1> QED BY <1>1, OnceFrame
-----------------------------------------------------------------------------
(* Tokens.                                                                  *)

\* A step of the chain or the clock.
LEMMA TokenRest ==
  ASSUME StateInv, CalmInv, TokenInv, ChainStep \/ Tick \/ Begin \/ UNCHANGED vars
  PROVE  TokenInv'
<1>1. Grows /\ UNCHANGED <<jobs, heap, task, poisoned>>
  <2>1. CASE ChainStep
    <3>1. \E x : log' = Append(log, x)
      BY <2>1, EmitIs
    <3>2. Grows
      BY <3>1, AppendIs DEF StateInv
    <3> QED BY <2>1, <3>2, EmitIs
  <2>2. CASE Tick \/ Begin \/ UNCHANGED vars
    BY <2>2, Grows0 DEF Tick, Begin, vars, chainVars
  <2> QED BY <2>1, <2>2
<1>2. \A s : ManagerHolds(s)' <=> ManagerHolds(s)
  <2>1. CASE ChainStep \/ Tick \/ UNCHANGED vars
    <3>1. UNCHANGED manager
      BY <2>1, EmitIs DEF Tick, vars
    <3> QED BY <3>1 DEF ManagerHolds
  <2>2. CASE Begin
    <3>1. manager.pc = "off" /\ manager'.pc = "peek"
      BY <2>2 DEF Begin, CalmInv, StateInv, ManagerInv
    <3> QED BY <3>1 DEF ManagerHolds
  <2> QED BY <2>1, <2>2
<1>3. \A s : TasksFor(s)' = TasksFor(s)
  <2>1. \A t \in Tasks : task[t].pc \in Holding => EventOf(t)' = EventOf(t)
    BY <1>1 DEF StateInv, TaskInv, Grows, EventOf, Holding
  <2> QED BY <1>1, <2>1 DEF TasksFor, Holding
<1>4. \A s : EntriesFor(s)' = EntriesFor(s)
  BY <1>1 DEF EntriesFor
<1> QED BY <1>1, <1>2, <1>3, <1>4, TokenStays DEF TokenInv

\* A step of a task that leaves the tokens as they are.
LEMMA TokenIdle ==
  ASSUME StateInv, TokenInv, UNCHANGED <<log, heap, manager>>, DOMAIN jobs' = DOMAIN jobs,
         poisoned => poisoned', NEW t \in Tasks, NEW at, Goto(t, at),
         ~poisoned => (at.pc \in Holding <=> task[t].pc \in Holding)
  PROVE  TokenInv'
<1> SUFFICES ASSUME ~poisoned', NEW s \in Subs PROVE Token(s)'
  BY DEF TokenInv
<1>1. ~poisoned /\ Token(s)
  BY DEF TokenInv
<1>2. TasksFor(s)' = TasksFor(s)
  <2>1. EventOf(t).sub = s => (t \in TasksFor(s) <=> task[t].pc \in Holding)
    BY DEF TasksFor, Holding
  <2>2. at.pc \in Holding <=> task[t].pc \in Holding
    BY <1>1
  <2> QED BY <2>1, <2>2, TasksForIs
<1>3. EntriesFor(s)' = EntriesFor(s) /\ (ManagerHolds(s)' <=> ManagerHolds(s))
  BY DEF EntriesFor, ManagerHolds
<1> QED BY <1>1, <1>2, <1>3, TokenStays

LEMMA TokenInsert ==
  ASSUME Copies = 1, StateInv, OnceInv, TokenInv, NEW t \in Tasks, Insert(t) PROVE TokenInv'
<1>1. /\ MayBegin(t) /\ EventOf(t).kind = "started"
      /\ UNCHANGED <<log, heap, poisoned, manager>>
  BY DEF Insert, chainVars
<1>2. CASE IsOver(t)
  <2>1. Goto(t, At("done", None)) /\ UNCHANGED jobs
    BY <1>2 DEF Insert
  <2>2. At("done", None).pc \notin Holding /\ task[t].pc \notin Holding
    BY <1>1 DEF At, Holding, MayBegin
  <2> QED BY <1>1, <2>1, <2>2, TokenIdle
<1>3. CASE ~IsOver(t)
  <2>0. PICK r : r = EventOf(t).sub
    OBVIOUS
  <2>1. /\ Goto(t, At("schedule", None)) /\ jobs' = WithJob(r, EventOf(t).job) /\ ~poisoned
    BY <1>3, <2>0 DEF Insert
  <2>2. t[1] \in DOMAIN log /\ r \in Subs
    BY <1>1, <2>0, TaskEvent DEF StateInv
  <2>3. r \notin DOMAIN jobs
    BY <1>1, <2>0, <2>2 DEF OnceInv, Started, EventOf, MayBegin
  <2>4. DOMAIN jobs' = DOMAIN jobs \union {r}
    BY <2>1 DEF WithJob
  <2>5. At("schedule", None).pc \in Holding
    BY DEF At, Holding
  <2>6. Nobody(r)
    BY <2>1, <2>2, <2>3 DEF TokenInv, Token
  <2>7. TasksFor(r)' = {t}
    <3>1. TasksFor(r)' = TasksFor(r) \union {t}
      BY <1>1, <2>0, <2>1, <2>5, TasksForIs
    <3> QED BY <2>6, <3>1 DEF Nobody
  <2>8. ~ManagerHolds(r)' /\ EntriesFor(r)' = {}
    BY <1>1, <2>6 DEF Nobody, ManagerHolds, EntriesFor
  <2>9. ASSUME NEW s \in Subs PROVE Token(s)'
    <3>1. CASE s = r
      <4>1. r \in DOMAIN jobs'
        BY <2>4
      <4>2. s \in DOMAIN jobs'
        BY <3>1, <4>1
      <4>3. TasksFor(s)' = {t} /\ ~ManagerHolds(s)' /\ EntriesFor(s)' = {}
        BY <2>7, <2>8, <3>1
      <4>4. InTask(s)'
        BY <4>3 DEF InTask
      <4> QED BY <4>2, <4>4 DEF Token
    <3>2. CASE s # r
      <4>1. TasksFor(s)' = TasksFor(s)
        BY <1>1, <2>0, <2>1, <3>2, TasksForIs
      <4>2. EntriesFor(s)' = EntriesFor(s) /\ (ManagerHolds(s)' <=> ManagerHolds(s))
        BY <1>1 DEF EntriesFor, ManagerHolds
      <4> QED BY <1>1, <2>1, <2>4, <3>2, <4>1, <4>2, TokenStays DEF TokenInv
    <3> QED BY <3>1, <3>2
  <2> QED BY <2>9 DEF TokenInv
<1> QED BY <1>2, <1>3

\* The task that has the token of s.
LEMMA TokenHolder ==
  ASSUME NEW t \in Tasks, task[t].pc \in Holding, NEW s, s = EventOf(t).sub, Token(s)
  PROVE  /\ s \in DOMAIN jobs /\ InTask(s)
         /\ TasksFor(s) = {t} /\ EntriesFor(s) = {} /\ ~ManagerHolds(s)
<1>1. t \in TasksFor(s)
  BY DEF TasksFor, Holding
<1> QED BY <1>1 DEF Token, InManager, InTask, InHeap, Nobody

LEMMA TokenSchedule ==
  ASSUME StateInv, CalmInv, TokenInv, NEW t \in Tasks, Schedule(t) PROVE TokenInv'
<1>1. PICK s : s = EventOf(t).sub
  OBVIOUS
<1>2. PICK at : at = IF poisoned THEN At("panicked", None)
                     ELSE NextTrigger(s, Previous(EventOf(t).job), IsReplayed(t), "send")
  OBVIOUS
<1>3. Goto(t, at) /\ UNCHANGED <<log, heap, manager, jobs, poisoned>> /\ task[t].pc = "schedule"
  BY <1>1, <1>2 DEF Schedule, chainVars
<1>4. ASSUME ~poisoned PROVE at.pc \in Holding
  <2>1. s \in Subs
    BY <1>1, <1>3, TaskEvent DEF StateInv
  <2>2. s \in DOMAIN jobs
    BY <1>1, <1>3, <1>4, <2>1, TokenHolder DEF TokenInv, Holding
  <2>3. at = NextTrigger(s, Previous(EventOf(t).job), IsReplayed(t), "send")
    BY <1>2, <1>4
  <2>4. at.pc \in {"remove", "push"}
    BY <2>2, <2>3, NextTriggerPcs
  <2> QED BY <2>4 DEF Holding
<1>5. task[t].pc \in Holding
  BY <1>3 DEF Holding
<1> QED BY <1>3, <1>4, <1>5, TokenIdle

LEMMA TokenPush ==
  ASSUME StateInv, TokenInv, NEW t \in Tasks, Push(t) PROVE TokenInv'
<1>1. PICK r : r = EventOf(t).sub
  OBVIOUS
<1>2. PICK e : e = [sub |-> r, time |-> task[t].next]
  OBVIOUS
<1>3. /\ task[t].pc = "push" /\ heap' = BagAdd(heap, e) /\ Goto(t, At("send", None))
      /\ UNCHANGED <<log, jobs, poisoned, manager>>
  BY <1>1, <1>2 DEF Push, chainVars
<1>4. r \in Subs /\ task[t].pc \in Holding /\ IsABag(heap) /\ e.sub = r
  BY <1>1, <1>2, <1>3, TaskEvent DEF StateInv, HeapInv, Holding
<1>5. At("send", None).pc \notin Holding
  BY DEF At, Holding
<1> SUFFICES ASSUME ~poisoned', NEW s \in Subs PROVE Token(s)'
  BY DEF TokenInv
<1>6. Token(s) /\ Token(r)
  BY <1>3, <1>4 DEF TokenInv
<1>7. ManagerHolds(s)' <=> ManagerHolds(s)
  BY <1>3 DEF ManagerHolds
<1>8. CASE s = r
  <2>1. s \in DOMAIN jobs /\ TasksFor(s) = {t} /\ EntriesFor(s) = {} /\ ~ManagerHolds(s)
    BY <1>1, <1>4, <1>6, <1>8, TokenHolder
  <2>2. TasksFor(s)' = TasksFor(s) \ {t}
    BY <1>1, <1>3, <1>5, <1>8, TasksForIs
  <2>3. EntriesFor(s)' = {e} /\ e \in DOMAIN heap' /\ heap'[e] = 1
    BY <1>3, <1>4, <1>8, <2>1, EntriesPushed
  <2>4. InHeap(s)'
    BY <1>7, <2>1, <2>2, <2>3 DEF InHeap
  <2> QED BY <1>3, <2>1, <2>4 DEF Token
<1>9. CASE s # r
  <2>1. TasksFor(s)' = TasksFor(s)
    BY <1>1, <1>3, <1>9, TasksForIs
  <2>2. EntriesFor(s)' = EntriesFor(s) /\ \A f \in EntriesFor(s) : heap'[f] = heap[f]
    BY <1>3, <1>4, <1>9, EntriesPushed
  <2> QED BY <1>3, <1>6, <1>7, <2>1, <2>2, TokenStays
<1> QED BY <1>8, <1>9

LEMMA TokenRemove ==
  ASSUME StateInv, TokenInv, NEW t \in Tasks, Remove(t) PROVE TokenInv'
<1>1. PICK r : r = EventOf(t).sub
  OBVIOUS
<1>2. /\ task[t].pc = "remove" /\ jobs' = WithoutJob(r) /\ Goto(t, At("send", None))
      /\ UNCHANGED <<log, heap, poisoned, manager>>
  BY <1>1 DEF Remove, chainVars
<1>3. r \in Subs /\ task[t].pc \in Holding /\ DOMAIN jobs' = DOMAIN jobs \ {r}
  BY <1>1, <1>2, TaskEvent DEF StateInv, Holding, WithoutJob
<1>4. At("send", None).pc \notin Holding
  BY DEF At, Holding
<1> SUFFICES ASSUME ~poisoned', NEW s \in Subs PROVE Token(s)'
  BY DEF TokenInv
<1>5. Token(s) /\ Token(r)
  BY <1>2, <1>3 DEF TokenInv
<1>6. EntriesFor(s)' = EntriesFor(s) /\ (ManagerHolds(s)' <=> ManagerHolds(s))
  BY <1>2 DEF ManagerHolds, EntriesFor
<1>7. CASE s = r
  <2>1. TasksFor(s) = {t} /\ EntriesFor(s) = {} /\ ~ManagerHolds(s)
    BY <1>1, <1>3, <1>5, <1>7, TokenHolder
  <2>2. TasksFor(s)' = TasksFor(s) \ {t}
    BY <1>1, <1>2, <1>4, <1>7, TasksForIs
  <2>3. Nobody(s)'
    BY <1>6, <2>1, <2>2 DEF Nobody
  <2> QED BY <1>3, <1>7, <2>3 DEF Token
<1>8. CASE s # r
  <2>1. TasksFor(s)' = TasksFor(s)
    BY <1>1, <1>2, <1>8, TasksForIs
  <2> QED BY <1>2, <1>3, <1>5, <1>6, <1>8, <2>1, TokenStays
<1> QED BY <1>7, <1>8

LEMMA TokenTask ==
  ASSUME Copies = 1, StateInv, OnceInv, CalmInv, TokenInv, NEW t \in Tasks, TaskStep(t)
  PROVE  TokenInv'
<1>1. CASE Send(t) \/ CheckUpdate(t) \/ ApplyUpdate(t)
  <2>1. PICK pc \in {"done", "apply", "panicked"} : Goto(t, At(pc, None))
    BY <1>1 DEF Send, CheckUpdate, ApplyUpdate
  <2>2. At(pc, None).pc \notin Holding /\ task[t].pc \notin Holding
    BY <1>1 DEF At, Holding, Send, CheckUpdate, ApplyUpdate, MayBegin
  <2>3. /\ DOMAIN jobs' = DOMAIN jobs /\ UNCHANGED <<log, heap, manager>>
        /\ poisoned => poisoned'
    BY <1>1 DEF Send, CheckUpdate, ApplyUpdate, Updated, chainVars
  <2> QED BY <2>1, <2>2, <2>3, TokenIdle
<1>2. CASE MeetsPoison(t) \/ FindsNoManager(t)
  <2>1. poisoned
    BY <1>2 DEF MeetsPoison, FindsNoManager, ManagerGone, CalmInv
  <2>2. poisoned'
    BY <1>2, <2>1 DEF MeetsPoison, FindsNoManager, Panic
  <2> QED BY <2>2 DEF TokenInv
<1> QED BY <1>1, <1>2, TokenInsert, TokenSchedule, TokenPush, TokenRemove DEF TaskStep
-----------------------------------------------------------------------------
(* Tokens and the manager.                                                  *)

\* A step of the manager that takes no entry, pushes none and removes no job.
LEMMA TokenManagerIdle ==
  ASSUME StateInv, TokenInv, UNCHANGED <<log, heap, jobs, task, poisoned>>,
         ~poisoned => \A s \in Subs : ManagerHolds(s)' <=> ManagerHolds(s)
  PROVE  TokenInv'
<1> SUFFICES ASSUME ~poisoned', NEW s \in Subs PROVE Token(s)'
  BY DEF TokenInv
<1>1. Token(s) /\ (ManagerHolds(s)' <=> ManagerHolds(s))
  BY DEF TokenInv
<1>2. TasksFor(s)' = TasksFor(s) /\ EntriesFor(s)' = EntriesFor(s)
  BY DEF TasksFor, EventOf, EntriesFor
<1> QED BY <1>1, <1>2, TokenStays

\* What the manager holds, it holds alone.
LEMMA ManagerAlone ==
  ASSUME NEW s, Token(s), ManagerHolds(s)
  PROVE  s \in DOMAIN jobs /\ TasksFor(s) = {} /\ EntriesFor(s) = {}
BY DEF Token, InManager, InTask, InHeap, Nobody

LEMMA TokenPop == ASSUME StateInv, TokenInv, Pop PROVE TokenInv'
<1>1. PICK e \in Earliest :
        /\ heap' = BagRemove(heap, e)
        /\ manager' = [ManagerAt("lookup") EXCEPT !.entry = e]
  BY DEF Pop
<1>2. UNCHANGED <<log, jobs, task, poisoned>> /\ manager.pc = "wait"
  BY DEF Pop, chainVars
<1>3. manager'.pc = "lookup" /\ manager'.entry = e
  BY <1>1 DEF ManagerAt
<1>4. e \in DOMAIN heap /\ e.sub \in Subs /\ IsABag(heap)
  BY DEF Earliest, StateInv, HeapInv, Entry
<1> SUFFICES ASSUME ~poisoned', NEW s \in Subs PROVE Token(s)'
  BY DEF TokenInv
<1>5. Token(s) /\ Token(e.sub) /\ ~ManagerHolds(s)
  BY <1>2, <1>4 DEF TokenInv, ManagerHolds
<1>6. TasksFor(s)' = TasksFor(s)
  BY <1>2 DEF TasksFor, EventOf
<1>7. ManagerHolds(s)' <=> s = e.sub
  BY <1>3 DEF ManagerHolds
<1>8. CASE s = e.sub
  <2>1. e \in EntriesFor(s)
    BY <1>4, <1>8 DEF EntriesFor
  <2>2. s \in DOMAIN jobs /\ InHeap(s)
    BY <1>5, <2>1 DEF Token, InManager, InTask, Nobody
  <2>3. TasksFor(s) = {} /\ EntriesFor(s) = {e} /\ heap[e] = 1
    BY <2>1, <2>2 DEF InHeap
  <2>4. EntriesFor(s)' = {}
    BY <1>1, <1>4, <2>3, EntriesPopped
  <2>5. InManager(s)'
    BY <1>6, <1>7, <1>8, <2>3, <2>4 DEF InManager
  <2> QED BY <1>2, <2>2, <2>5 DEF Token
<1>9. CASE s # e.sub
  <2>1. EntriesFor(s)' = EntriesFor(s) /\ \A f \in EntriesFor(s) : heap'[f] = heap[f]
    BY <1>1, <1>4, <1>9, EntriesPopped
  <2>2. ManagerHolds(s)' <=> ManagerHolds(s)
    BY <1>5, <1>7, <1>9
  <2> QED BY <1>2, <1>5, <1>6, <2>1, <2>2, TokenStays
<1> QED BY <1>8, <1>9

LEMMA TokenPushNext == ASSUME StateInv, TokenInv, PushNext PROVE TokenInv'
<1>1. PICK r : r = manager.entry.sub
  OBVIOUS
<1>2. PICK e : e = [sub |-> r, time |-> manager.next]
  OBVIOUS
<1>3. /\ manager.pc = "push" /\ heap' = BagAdd(heap, e) /\ manager'.pc = "peek"
      /\ UNCHANGED <<log, jobs, task, poisoned>>
  BY <1>1, <1>2 DEF PushNext, chainVars, ManagerAt
<1>4. IsABag(heap) /\ e.sub = r
  BY <1>2 DEF StateInv, HeapInv
<1> SUFFICES ASSUME ~poisoned', NEW s \in Subs PROVE Token(s)'
  BY DEF TokenInv
<1>5. Token(s) /\ ~ManagerHolds(s)' /\ (ManagerHolds(s) <=> s = r)
  BY <1>1, <1>3 DEF TokenInv, ManagerHolds
<1>6. TasksFor(s)' = TasksFor(s)
  BY <1>3 DEF TasksFor, EventOf
<1>7. CASE s = r
  <2>1. s \in DOMAIN jobs /\ TasksFor(s) = {} /\ EntriesFor(s) = {}
    BY <1>5, <1>7, ManagerAlone
  <2>2. EntriesFor(s)' = {e} /\ e \in DOMAIN heap' /\ heap'[e] = 1
    BY <1>3, <1>4, <1>7, <2>1, EntriesPushed
  <2>3. InHeap(s)'
    BY <1>5, <1>6, <2>1, <2>2 DEF InHeap
  <2> QED BY <1>3, <2>1, <2>3 DEF Token
<1>8. CASE s # r
  <2>1. EntriesFor(s)' = EntriesFor(s) /\ \A f \in EntriesFor(s) : heap'[f] = heap[f]
    BY <1>3, <1>4, <1>8, EntriesPushed
  <2> QED BY <1>3, <1>5, <1>6, <1>8, <2>1, TokenStays
<1> QED BY <1>7, <1>8

LEMMA TokenRemoveJob == ASSUME StateInv, TokenInv, RemoveJob PROVE TokenInv'
<1>1. PICK r : r = manager.entry.sub
  OBVIOUS
<1>2. /\ manager.pc = "remove" /\ jobs' = WithoutJob(r) /\ manager'.pc = "peek"
      /\ UNCHANGED <<log, heap, task, poisoned>>
  BY <1>1 DEF RemoveJob, chainVars, ManagerAt
<1>3. DOMAIN jobs' = DOMAIN jobs \ {r}
  BY <1>2 DEF WithoutJob
<1> SUFFICES ASSUME ~poisoned', NEW s \in Subs PROVE Token(s)'
  BY DEF TokenInv
<1>4. Token(s) /\ ~ManagerHolds(s)' /\ (ManagerHolds(s) <=> s = r)
  BY <1>1, <1>2 DEF TokenInv, ManagerHolds
<1>5. TasksFor(s)' = TasksFor(s) /\ EntriesFor(s)' = EntriesFor(s)
  BY <1>2 DEF TasksFor, EventOf, EntriesFor
<1>6. CASE s = r
  <2>1. Nobody(s)'
    BY <1>4, <1>5, <1>6, ManagerAlone DEF Nobody
  <2> QED BY <1>3, <1>6, <2>1 DEF Token
<1>7. CASE s # r
  BY <1>2, <1>3, <1>4, <1>5, <1>7, TokenStays
<1> QED BY <1>6, <1>7

LEMMA TokenManager ==
  ASSUME StateInv, CalmInv, TokenInv, ManagerStep PROVE TokenInv'
<1>0. manager \in ManagerRecords
  BY DEF StateInv, ManagerInv, ManagerRecords
<1>1. CASE Peek \/ Receive
  <2>1. UNCHANGED <<log, heap, jobs, task, poisoned>>
    BY <1>1 DEF Peek, Receive, chainVars
  <2>2. \A s \in Subs : ManagerHolds(s)' <=> ManagerHolds(s)
    BY <1>0, <1>1 DEF Peek, Receive, ManagerHolds, ManagerRecords
  <2> QED BY <2>1, <2>2, TokenManagerIdle
<1>2. CASE Trigger \/ Advance
  <2>1. UNCHANGED <<log, heap, jobs, task, poisoned>> /\ manager.pc \in {"lookup", "next"}
    BY <1>2 DEF Trigger, Advance, chainVars
  <2>2. PICK at : ManagerGoto(at)
    BY <1>2 DEF Trigger, Advance
  <2>3. manager'.entry = manager.entry
    BY <1>0, <2>2 DEF ManagerGoto, ManagerRecords
  <2>4. ASSUME ~poisoned PROVE manager'.pc \in {"next", "push", "remove"}
    <3>1. PICK s : s = manager.entry.sub
      OBVIOUS
    <3>2. s \in Subs /\ ManagerHolds(s)
      BY <2>1, <3>1 DEF StateInv, ManagerInv, Begun, ManagerHolds
    <3>3. s \in DOMAIN jobs
      BY <2>4, <3>2, ManagerAlone DEF TokenInv
    <3>4. CASE Trigger
      <4>1. ManagerGoto(At("next", None))
        BY <3>1, <3>3, <3>4 DEF Trigger
      <4> QED BY <1>0, <4>1 DEF ManagerGoto, ManagerRecords, At
    <3>5. CASE Advance
      <4>1. PICK to : to = NextTrigger(s, manager.entry.time, FALSE, "peek")
        OBVIOUS
      <4>2. ManagerGoto(to)
        BY <3>1, <3>5, <4>1 DEF Advance
      <4>3. to.pc \in {"remove", "push"}
        BY <3>3, <4>1, NextTriggerPcs
      <4>4. manager'.pc = to.pc
        BY <1>0, <4>2 DEF ManagerGoto, ManagerRecords
      <4> QED BY <4>3, <4>4
    <3> QED BY <1>2, <3>4, <3>5
  <2>5. ~poisoned => \A s \in Subs : ManagerHolds(s)' <=> ManagerHolds(s)
    BY <2>1, <2>3, <2>4 DEF ManagerHolds
  <2> QED BY <2>1, <2>5, TokenManagerIdle
<1>3. CASE ManagerMeetsPoison
  BY <1>3 DEF ManagerMeetsPoison, TokenInv
<1> QED BY <1>1, <1>2, <1>3, TokenPop, TokenPushNext, TokenRemoveJob DEF ManagerStep
-----------------------------------------------------------------------------
(* Kept exactly while scheduled.                                            *)

\* A set of one element has cardinality 1: the recursive function that counts exists.
LEMMA SizeOfSingleton == \A x : Cardinality({x}) = 1
<1> SUFFICES ASSUME NEW x PROVE Cardinality({x}) = 1
  OBVIOUS
<1> DEFINE Count(g) ==
             [T \in SUBSET {x} |-> IF T = {} THEN 0 ELSE 1 + g[T \ {CHOOSE y : y \in T}]]
           counted == [T \in SUBSET {x} |-> IF T = {} THEN 0 ELSE 1]
           size == CHOOSE g : g = Count(g)
<1>1. \A T \in SUBSET {x} : T # {} => T = {x} /\ T \ {CHOOSE y : y \in T} = {}
  OBVIOUS
<1>2. counted = Count(counted)
  <2>1. \A T \in SUBSET {x} : counted[T] = Count(counted)[T]
    BY <1>1
  <2> QED BY <2>1
<1>3. size = Count(size)
  BY <1>2, Zenon
<1>4. {} \in SUBSET {x} /\ {x} \in SUBSET {x} /\ {x} \ {CHOOSE y : y \in {x}} = {}
  OBVIOUS
<1>5. size[{}] = 0 /\ size[{x}] = 1 + size[{}]
  <2> HIDE DEF size
  <2>1. \A T \in SUBSET {x} :
          size[T] = IF T = {} THEN 0 ELSE 1 + size[T \ {CHOOSE y : y \in T}]
    BY <1>3
  <2> QED BY <1>4, <2>1
<1>6. Cardinality({x}) = size[{x}]
  BY Zenon DEF Cardinality
<1> HIDE DEF size
<1> QED BY <1>5, <1>6

LEMMA KeepInit == Init => KeepInv
<1> SUFFICES ASSUME Init PROVE KeepInv
  OBVIOUS
<1>1. OnceInv
  BY DEF Init, OnceInv, At, Holding
<1>2. CalmInv
  BY DEF Init, CalmInv, At, ManagerAt
<1>3. \A s : Nobody(s)
  BY EmptyBagIs DEF Init, Nobody, ManagerHolds, ManagerAt, TasksFor, EntriesFor, At
<1>4. TokenInv
  BY <1>3 DEF Init, TokenInv, Token
<1> QED BY <1>1, <1>2, <1>4 DEF KeepInv

LEMMA KeepStep == ASSUME Copies = 1 PROVE StateInv /\ KeepInv /\ [Next]_vars => KeepInv'
<1> SUFFICES ASSUME StateInv, KeepInv, [Next]_vars PROVE KeepInv'
  OBVIOUS
<1>1. OnceInv /\ CalmInv /\ TokenInv
  BY DEF KeepInv
<1>2. CASE ChainStep
  BY <1>1, <1>2, OnceChain, CalmRest, TokenRest DEF KeepInv
<1>3. CASE Tick \/ Begin \/ UNCHANGED vars
  BY <1>1, <1>3, OnceRest, CalmRest, TokenRest DEF KeepInv
<1>4. CASE ManagerStep
  BY <1>1, <1>4, OnceRest, CalmManager, TokenManager DEF KeepInv
<1>5. ASSUME NEW t \in Tasks, TaskStep(t) PROVE KeepInv'
  BY <1>1, <1>5, OnceTaskStep, CalmTask, TokenTask DEF KeepInv
<1> QED BY <1>2, <1>3, <1>4, <1>5 DEF Next

LEMMA KeepInvariant == ASSUME Copies = 1 PROVE Spec => []KeepInv
<1>1. StateInv /\ KeepInv /\ [Next]_vars => KeepInv'
  BY KeepStep
<1> QED BY <1>1, KeepInit, StateInvariant, PTL DEF Spec

\* KeptIffScheduled: while no task has panicked, a subscription is in the table exactly as
\* long as its next instance is in the heap, once, or with the manager or one task that is
\* about to put it there; so the manager never meets an entry without a job, which would
\* end it (job_subscription_manager, add_next_trigger_time_to_heap).
THEOREM KeptWhileScheduled ==
  ASSUME Copies = 1
  PROVE  Spec => []KeptIffScheduled
<1>1. ASSUME NEW s, Token(s) PROVE ScheduledOnce(s)
  <2>1. \A x : Cardinality({x}) = 1
    BY SizeOfSingleton
  <2>2. InTask(s) => ~ManagerHolds(s) /\ Cardinality(TasksFor(s)) = 1 /\ EntriesFor(s) = {}
    BY <2>1 DEF InTask
  <2>3. InHeap(s) => /\ ~ManagerHolds(s) /\ TasksFor(s) = {} /\ Cardinality(EntriesFor(s)) = 1
                     /\ \A e \in EntriesFor(s) : heap[e] = 1
    BY <2>1 DEF InHeap
  <2> QED BY <1>1, <2>2, <2>3 DEF Token, InManager, Nobody, ScheduledOnce
<1>2. KeepInv => KeptIffScheduled
  BY <1>1 DEF KeepInv, CalmInv, TokenInv, KeptIffScheduled
<1> QED BY <1>2, KeepInvariant, PTL
-----------------------------------------------------------------------------
(* On schedule.                                                             *)

LEMMA MultipleIs == \A n \in Nat, b \in Nat \ {0} : (n * b) \div b = n
OBVIOUS

LEMMA MultipleStep == \A n \in Int, b \in Int : (n + 1) * b = n * b + b
OBVIOUS

LEMMA MultipleType == \A n \in Nat, b \in Nat : n * b \in Nat
OBVIOUS

LEMMA MultipleGrows == \A m, n \in Nat, b \in Nat \ {0} : m < n => m * b < n * b
OBVIOUS

\* The course of s, by any of its events, and the time of its instance n.
CourseOf(s) == log[CHOOSE i \in DOMAIN log : log[i].sub = s].job
TimeOf(s, n) == CourseOf(s).start + n * CourseOf(s).interval

Fired(s, n) == [sub |-> s, number |-> n] \in DOMAIN fired

\* The announcement of s is not replayed.
Live(s) == \A e \in EventsOf(s) : Started(e) => ~(e <= cut)

\* A time within a termination time that the chain announced; nothing is said of a
\* subscription that is replayed, in part or as a whole.
Within(s, time) == \E e \in EventsOf(s) : e <= cut \/ time <= log[e].job.term

\* Instance n of s is the next one.
Pending(s, n) ==
  /\ \A m \in Nat : Fired(s, m) => m < n
  /\ (\E m \in Nat : Fired(s, m)) => n - 1 \in Nat /\ Fired(s, n - 1)
  /\ Live(s) => \A m \in Nat : m < n => Fired(s, m)
  /\ Within(s, TimeOf(s, n))
PendingAt(s, time) == EventsOf(s) # {} /\ \E n \in Nat : time = TimeOf(s, n) /\ Pending(s, n)

\* Instance n of s is the last one that was triggered.
Triggered(s, n) ==
  /\ Fired(s, n) /\ \A m \in Nat : Fired(s, m) => m <= n
  /\ Live(s) => \A m \in Nat : m <= n => Fired(s, m)
TriggeredAt(s, time) ==
  EventsOf(s) # {} /\ time <= now /\ \E n \in Nat : time = TimeOf(s, n) /\ Triggered(s, n)

\* s is to end: its next instance m, the first one or one whose predecessor's time has
\* come, is past a termination time that the chain announced.
Ends(s, e, m) ==
  /\ TimeOf(s, m) > log[e].job.term
  /\ m = 0 \/ (m - 1 \in Nat /\ TimeOf(s, m - 1) <= now)
  /\ Live(s) => \A k \in Nat : k < m => Fired(s, k)
Gone(s) == \E e \in EventsOf(s), m \in Nat : Ends(s, e, m)

\* What the steps do to all that: the log grows, the clock goes on, the gateway begins once.
Onward == Grows /\ (cut = None \/ cut' = cut) /\ now <= now'

LEMMA CourseIs ==
  ASSUME LogInv, NEW s, EventsOf(s) # {}
  PROVE  /\ CourseOf(s) \in Job
         /\ CourseOf(s).start \in Nat /\ CourseOf(s).interval \in Nat \ {0}
         /\ \A i \in EventsOf(s) : SameCourse(CourseOf(s), log[i].job)
<1>1. \E i \in DOMAIN log : log[i].sub = s
  BY DEF EventsOf
<1>2. PICK i \in DOMAIN log : log[i].sub = s /\ CourseOf(s) = log[i].job
  BY <1>1 DEF CourseOf
<1>3. CourseOf(s) \in Job
  BY <1>2, EventTypes
<1>4. \A j \in EventsOf(s) : SameCourse(CourseOf(s), log[j].job)
  BY <1>2 DEF LogInv, EventsOf
<1> QED BY <1>3, <1>4, JobFields

LEMMA TimeOfIs ==
  ASSUME LogInv, NEW s, EventsOf(s) # {}
  PROVE  /\ TimeOf(s, 0) = CourseOf(s).start
         /\ \A n \in Nat : /\ TimeOf(s, n) \in Nat /\ TimeOf(s, n) >= CourseOf(s).start
                           /\ TimeOf(s, n + 1) = TimeOf(s, n) + CourseOf(s).interval
                           /\ (TimeOf(s, n) - CourseOf(s).start) \div CourseOf(s).interval = n
         /\ \A m, n \in Nat : TimeOf(s, m) < TimeOf(s, n) => m < n
         /\ \A m, n \in Nat : m < n => TimeOf(s, m) < TimeOf(s, n)
<1> DEFINE a == CourseOf(s).start
           b == CourseOf(s).interval
<1>1. a \in Nat /\ b \in Nat \ {0}
  BY CourseIs
<1>2. \A n : TimeOf(s, n) = a + n * b
  BY DEF TimeOf
<1> HIDE DEF a, b
<1>3. TimeOf(s, 0) = a
  BY <1>1, <1>2
<1>4. ASSUME NEW n \in Nat
      PROVE  /\ TimeOf(s, n) \in Nat /\ TimeOf(s, n) >= a
             /\ TimeOf(s, n + 1) = TimeOf(s, n) + b
             /\ (TimeOf(s, n) - a) \div b = n
  <2>1. n * b \in Nat
    BY <1>1, MultipleType
  <2>2. TimeOf(s, n) = a + n * b /\ TimeOf(s, n + 1) = a + (n + 1) * b
    BY <1>2
  <2>3. (n + 1) * b = n * b + b
    BY <1>1, MultipleStep
  <2>4. (n * b) \div b = n
    BY <1>1, MultipleIs
  <2>5. PICK p \in Nat : p = n * b
    BY <2>1
  <2>6. TimeOf(s, n) - a = p
    BY <1>1, <2>2, <2>5
  <2>7. TimeOf(s, n) \in Nat /\ TimeOf(s, n) >= a /\ TimeOf(s, n + 1) = TimeOf(s, n) + b
    BY <1>1, <2>2, <2>3, <2>5
  <2> QED BY <2>4, <2>5, <2>6, <2>7
<1>5. ASSUME NEW m \in Nat, NEW n \in Nat, m < n PROVE TimeOf(s, m) < TimeOf(s, n)
  <2>1. m * b < n * b /\ m * b \in Nat /\ n * b \in Nat
    BY <1>1, <1>5, MultipleType, MultipleGrows
  <2>2. TimeOf(s, m) = a + m * b /\ TimeOf(s, n) = a + n * b
    BY <1>2
  <2>3. PICK p \in Nat, q \in Nat : p = m * b /\ q = n * b
    BY <2>1
  <2> QED BY <1>1, <2>1, <2>2, <2>3
<1>6. ASSUME NEW m \in Nat, NEW n \in Nat, TimeOf(s, m) < TimeOf(s, n) PROVE m < n
  <2>1. n < m => TimeOf(s, n) < TimeOf(s, m)
    BY <1>5
  <2>2. TimeOf(s, m) \in Nat /\ TimeOf(s, n) \in Nat
    BY <1>4
  <2> QED BY <1>6, <2>1, <2>2
<1> QED BY <1>3, <1>4, <1>5, <1>6 DEF a, b

\* The number of an instance is found again from its time.
LEMMA InstanceIs ==
  ASSUME LogInv, NEW s, EventsOf(s) # {}, NEW job, SameCourse(job, CourseOf(s)), NEW n \in Nat
  PROVE  InstanceOf(s, job, TimeOf(s, n)) = [sub |-> s, number |-> n]
BY TimeOfIs DEF InstanceOf, SameCourse

\* What the later steps keep.
LEMMA EventsStay ==
  ASSUME LogInv, Grows, NEW s
  PROVE  /\ EventsOf(s) \subseteq EventsOf(s)'
         /\ \A e \in EventsOf(s) : log'[e] = log[e] /\ (Started(e)' <=> Started(e)) /\ e \in Nat \ {0}
<1>1. EventsOf(s) \subseteq EventsOf(s)'
  BY DEF EventsOf, Grows
<1>2. \A e \in EventsOf(s) : log'[e] = log[e] /\ e \in Nat \ {0}
  BY DEF EventsOf, Grows, LogInv
<1> QED BY <1>1, <1>2 DEF Started

LEMMA TimeStays ==
  ASSUME LogInv, LogInv', Grows, NEW s, EventsOf(s) # {}
  PROVE  \A n : TimeOf(s, n)' = TimeOf(s, n)
<1>1. PICK i \in EventsOf(s) : TRUE
  OBVIOUS
<1>2. i \in EventsOf(s)' /\ log'[i] = log[i] /\ EventsOf(s)' # {}
  BY EventsStay
<1>3. SameCourse(CourseOf(s), log[i].job)
  BY CourseIs
<1>4. \E j \in DOMAIN log' : log'[j].sub = s
  BY <1>2 DEF EventsOf
<1>5. PICK j \in DOMAIN log' : log'[j].sub = s /\ CourseOf(s)' = log'[j].job
  BY <1>4 DEF CourseOf
<1>6. i \in DOMAIN log' /\ log'[i].sub = s
  BY <1>2 DEF EventsOf
<1>7. SameCourse(log'[j].job, log'[i].job)
  BY <1>5, <1>6 DEF LogInv, SameCourse
<1> QED BY <1>2, <1>3, <1>5, <1>7 DEF SameCourse, TimeOf

LEMMA ScopeStays ==
  ASSUME LogInv, LogInv', RestInv, Onward, NEW s, EventsOf(s) # {}
  PROVE  /\ EventsOf(s)' # {} /\ \A n : TimeOf(s, n)' = TimeOf(s, n)
         /\ Live(s)' => Live(s)
         /\ \A time : Within(s, time) => Within(s, time)'
         /\ \A e \in EventsOf(s) : e \in EventsOf(s)' /\ log'[e] = log[e]
<1>1. /\ EventsOf(s) \subseteq EventsOf(s)'
      /\ \A e \in EventsOf(s) : /\ log'[e] = log[e] /\ (Started(e)' <=> Started(e))
                                /\ e \in Nat \ {0}
  BY EventsStay DEF Onward
<1>2. \A n : TimeOf(s, n)' = TimeOf(s, n)
  BY TimeStays DEF Onward
<1>3. \A e \in EventsOf(s) : e <= cut => e <= cut'
  BY <1>1 DEF Onward, RestInv, None
<1>4. Live(s)' => Live(s)
  BY <1>1, <1>3 DEF Live
<1>5. \A time : Within(s, time) => Within(s, time)'
  BY <1>1, <1>3 DEF Within
<1> QED BY <1>1, <1>2, <1>4, <1>5

\* As long as no instance of s is triggered.
LEMMA PlansStay ==
  ASSUME LogInv, LogInv', RestInv, RestInv', Onward, NEW s,
         \A n \in Nat : Fired(s, n)' <=> Fired(s, n)
  PROVE  /\ \A time : PendingAt(s, time) => PendingAt(s, time)'
         /\ \A time \in Nat : TriggeredAt(s, time) => TriggeredAt(s, time)'
         /\ Gone(s) => Gone(s)'
<1> SUFFICES ASSUME EventsOf(s) # {}
             PROVE  /\ \A time : PendingAt(s, time) => PendingAt(s, time)'
                    /\ \A time \in Nat : TriggeredAt(s, time) => TriggeredAt(s, time)'
                    /\ Gone(s) => Gone(s)'
  BY DEF PendingAt, TriggeredAt, Gone
<1>1. /\ EventsOf(s)' # {} /\ \A n : TimeOf(s, n)' = TimeOf(s, n)
      /\ Live(s)' => Live(s)
      /\ \A time : Within(s, time) => Within(s, time)'
      /\ \A e \in EventsOf(s) : e \in EventsOf(s)' /\ log'[e] = log[e]
  BY ScopeStays
<1>2. now \in Nat /\ now' \in Nat /\ now <= now'
  BY SubscriptionsAssumption DEF RestInv, Onward
<1>3. ASSUME NEW n \in Nat, Pending(s, n) PROVE Pending(s, n)'
  BY <1>1, <1>3 DEF Pending
<1>4. ASSUME NEW n \in Nat, Triggered(s, n) PROVE Triggered(s, n)'
  BY <1>1, <1>4 DEF Triggered
<1>5. ASSUME NEW e \in EventsOf(s), NEW m \in Nat, Ends(s, e, m) PROVE Ends(s, e, m)'
  <2>1. m - 1 \in Nat /\ TimeOf(s, m - 1) <= now => TimeOf(s, m - 1) <= now'
    <3>1. m - 1 \in Nat => TimeOf(s, m - 1) \in Nat
      BY TimeOfIs
    <3> QED BY <1>2, <3>1
  <2> QED BY <1>1, <1>5, <2>1 DEF Ends
<1>6. \A time : PendingAt(s, time) => PendingAt(s, time)'
  BY <1>1, <1>3 DEF PendingAt
<1>7. \A time \in Nat : TriggeredAt(s, time) => TriggeredAt(s, time)'
  <2>1. \A time \in Nat : time <= now => time <= now'
    BY <1>2
  <2> QED BY <1>1, <1>4, <2>1 DEF TriggeredAt
<1>8. Gone(s) => Gone(s)'
  BY <1>1, <1>5 DEF Gone
<1> QED BY <1>6, <1>7, <1>8
-----------------------------------------------------------------------------
(* The invariant.                                                           *)

\* What was triggered: once, in time, within a termination time, without a gap, and not
\* before the announcement was handled.
FiredInv ==
  /\ \A i \in DOMAIN fired :
       /\ fired[i] = 1 /\ EventsOf(i.sub) # {} /\ TimeOf(i.sub, i.number) <= now
       /\ i.number = 0 \/ Within(i.sub, TimeOf(i.sub, i.number))
       /\ \A t \in Tasks : Announces(t, i.sub) => task[t].pc \notin {"none", "schedule"}
  /\ \A s \in Subs, a, b \in Nat :
       Fired(s, a) /\ Fired(s, b) => \A n \in Nat : a <= n /\ n <= b => Fired(s, n)

\* A kept job ends when one of its events says.
TermInv == \A s \in DOMAIN jobs : \E e \in EventsOf(s) : jobs[s].term = log[e].job.term

\* Only the manager pops, so the entry for which it set its alarm is still there.
WakeInv ==
  manager.pc = "wait" /\ manager.wake # None => \E e \in DOMAIN heap : e.time <= manager.wake

\* What is in the heap or on its way there is the next instance of its subscription; what is
\* about to be removed is to end.
TaskPlan(t) ==
  /\ task[t].pc = "push" => PendingAt(EventOf(t).sub, task[t].next)
  /\ task[t].pc = "remove" => Gone(EventOf(t).sub)
ManagerPlan ==
  LET s == manager.entry.sub
      time == manager.entry.time
  IN /\ manager.pc = "lookup" => PendingAt(s, time) /\ time <= now
     /\ manager.pc = "next" => TriggeredAt(s, time)
     /\ manager.pc = "push" => PendingAt(s, manager.next)
     /\ manager.pc = "remove" => Gone(s)
Planned(s) ==
  /\ \A t \in TasksFor(s) : TaskPlan(t)
  /\ \A e \in EntriesFor(s) : PendingAt(s, e.time)
  /\ ManagerHolds(s) => ManagerPlan
PlanInv == ~poisoned => \A s \in Subs : Planned(s)

\* A subscription whose announcement is handled and that is not kept was over when it was
\* replayed, or has come to its end.
EndInv ==
  ~poisoned =>
    \A t \in Tasks : t[1] \in DOMAIN log /\ Started(t[1]) /\ task[t].pc # "none" =>
      EventOf(t).sub \in DOMAIN jobs \/ IsOver(t) \/ Gone(EventOf(t).sub)

ScheduleInv == FiredInv /\ TermInv /\ WakeInv /\ PlanInv /\ EndInv

\* What every step does.
LEMMA GoesOn == ASSUME StateInv, [Next]_vars PROVE Onward /\ (poisoned => poisoned')
<1>1. CASE ChainStep
  <2>1. \E x : log' = Append(log, x)
    BY <1>1, EmitIs
  <2>2. Grows
    BY <2>1, AppendIs DEF StateInv
  <2>3. cut' = cut /\ now' = now /\ poisoned' = poisoned
    BY <1>1, EmitIs
  <2>4. now \in Nat
    BY DEF StateInv, RestInv
  <2> QED BY <2>2, <2>3, <2>4 DEF Onward
<1>2. CASE Tick \/ Begin \/ ManagerStep \/ UNCHANGED vars
  <2>1. UNCHANGED log /\ (cut' = cut \/ cut = None) /\ poisoned' = poisoned
    BY <1>2 DEF Tick, Begin, ManagerStep, Peek, Receive, Pop, Trigger, Advance, PushNext,
                RemoveJob, ManagerMeetsPoison, vars, chainVars
  <2>2. now' = now \/ now' = now + 1
    BY <1>2 DEF Tick, Begin, ManagerStep, Peek, Receive, Pop, Trigger, Advance, PushNext,
                RemoveJob, ManagerMeetsPoison, vars
  <2>3. now <= now'
    BY <2>2 DEF StateInv, RestInv
  <2> QED BY <2>1, <2>3, Grows0 DEF Onward
<1>3. ASSUME NEW t \in Tasks, TaskStep(t) PROVE Onward /\ (poisoned => poisoned')
  <2>1. UNCHANGED <<now, log, cut>> /\ (poisoned => poisoned')
    BY <1>3 DEF TaskStep, Insert, Schedule, Push, Remove, Send, CheckUpdate, ApplyUpdate,
                MeetsPoison, FindsNoManager, Panic, chainVars
  <2>2. now <= now'
    BY <2>1 DEF StateInv, RestInv
  <2> QED BY <2>1, <2>2, Grows0 DEF Onward
<1> QED BY <1>1, <1>2, <1>3 DEF Next
-----------------------------------------------------------------------------
(* What was triggered.                                                      *)

\* No task is sent back to the announcement.
NoRestart ==
  \A t \in Tasks, s \in Subs :
    Announces(t, s)' /\ EventsOf(s) # {} /\ task'[t].pc \in {"none", "schedule"} =>
      Announces(t, s) /\ task[t].pc \in {"none", "schedule"}

LEMMA FiredStays ==
  ASSUME StateInv, StateInv', Onward, FiredInv, UNCHANGED fired, NoRestart
  PROVE  FiredInv'
<1>1. \A s, n : Fired(s, n)' <=> Fired(s, n)
  BY DEF Fired
<1>2. ASSUME NEW i \in DOMAIN fired
      PROVE  /\ EventsOf(i.sub)' # {} /\ TimeOf(i.sub, i.number)' <= now'
             /\ i.number = 0 \/ Within(i.sub, TimeOf(i.sub, i.number))'
             /\ \A t \in Tasks : Announces(t, i.sub)' => task'[t].pc \notin {"none", "schedule"}
  <2>1. i.sub \in Subs /\ i.number \in Nat
    BY DEF StateInv, RestInv, Instance
  <2>2. PICK s \in Subs, n \in Nat : s = i.sub /\ n = i.number
    BY <2>1
  <2>3. /\ EventsOf(s) # {} /\ TimeOf(s, n) <= now /\ (n = 0 \/ Within(s, TimeOf(s, n)))
        /\ \A t \in Tasks : Announces(t, s) => task[t].pc \notin {"none", "schedule"}
    BY <2>2 DEF FiredInv
  <2>4. /\ EventsOf(s)' # {} /\ TimeOf(s, n)' = TimeOf(s, n)
        /\ \A time : Within(s, time) => Within(s, time)'
    BY <2>3, ScopeStays DEF StateInv
  <2>5. TimeOf(s, n) \in Nat /\ now \in Nat /\ now' \in Nat
    BY <2>3, TimeOfIs DEF StateInv, RestInv
  <2>6. TimeOf(s, n)' <= now'
    BY <2>3, <2>4, <2>5 DEF Onward
  <2> QED BY <2>2, <2>3, <2>4, <2>6 DEF NoRestart
<1>3. ASSUME NEW s \in Subs, NEW a \in Nat, NEW b \in Nat, Fired(s, a)', Fired(s, b)',
             NEW n \in Nat, a <= n, n <= b
      PROVE  Fired(s, n)'
  BY <1>1, <1>3 DEF FiredInv
<1> QED BY <1>2, <1>3 DEF FiredInv

LEMMA FiredIs ==
  ASSUME IsABag(fired), NEW s, NEW n, fired' = BagAdd(fired, [sub |-> s, number |-> n])
  PROVE  /\ \A r, m : Fired(r, m)' <=> Fired(r, m) \/ (r = s /\ m = n)
         /\ ~Fired(s, n) => fired'[[sub |-> s, number |-> n]] = 1
         /\ \A i \in DOMAIN fired : i # [sub |-> s, number |-> n] => fired'[i] = fired[i]
         /\ DOMAIN fired' = DOMAIN fired \union {[sub |-> s, number |-> n]}
<1>1. PICK x : x = [sub |-> s, number |-> n]
  OBVIOUS
<1>2. DOMAIN fired' = DOMAIN fired \union {x}
  BY <1>1, BagAddIs
<1>3. x \notin DOMAIN fired => fired'[x] = 1
  BY <1>1 DEF BagAdd
<1>4. \A i \in DOMAIN fired : i # x => fired'[i] = fired[i]
  BY <1>1 DEF BagAdd
<1>5. \A r, m : [sub |-> r, number |-> m] = x <=> r = s /\ m = n
  BY <1>1
<1> QED BY <1>1, <1>2, <1>3, <1>4, <1>5 DEF Fired

\* The next instance of s is triggered.
LEMMA FiredAdds ==
  ASSUME StateInv, StateInv', UNCHANGED <<now, log, cut>>, FiredInv, NEW s \in Subs, NEW n \in Nat,
         fired' = BagAdd(fired, [sub |-> s, number |-> n]), EventsOf(s) # {},
         \A m \in Nat : Fired(s, m) => m < n,
         (\E m \in Nat : Fired(s, m)) => n - 1 \in Nat /\ Fired(s, n - 1),
         TimeOf(s, n) <= now, n = 0 \/ Within(s, TimeOf(s, n)),
         NoRestart, \A t \in Tasks : Announces(t, s) => task'[t].pc \notin {"none", "schedule"}
  PROVE  FiredInv'
<1> DEFINE x == [sub |-> s, number |-> n]
<1>1. /\ \A r, m : Fired(r, m)' <=> Fired(r, m) \/ (r = s /\ m = n)
      /\ ~Fired(s, n) => fired'[x] = 1
      /\ \A i \in DOMAIN fired : i # x => fired'[i] = fired[i]
      /\ DOMAIN fired' = DOMAIN fired \union {x}
  BY FiredIs DEF StateInv, RestInv
<1>2. ~Fired(s, n)
  OBVIOUS
<1>3. \A r : /\ EventsOf(r)' = EventsOf(r)
             /\ \A m : TimeOf(r, m)' = TimeOf(r, m)
             /\ \A time : Within(r, time)' <=> Within(r, time)
             /\ \A t \in Tasks : Announces(t, r)' <=> Announces(t, r)
  BY DEF EventsOf, TimeOf, CourseOf, Within, Announces, EventOf, Started
<1>4. ASSUME NEW i \in DOMAIN fired'
      PROVE  /\ fired'[i] = 1
             /\ EventsOf(i.sub)' # {} /\ TimeOf(i.sub, i.number)' <= now'
             /\ i.number = 0 \/ Within(i.sub, TimeOf(i.sub, i.number))'
             /\ \A t \in Tasks : Announces(t, i.sub)' => task'[t].pc \notin {"none", "schedule"}
  <2>1. CASE i = x
    <3>1. i.sub = s /\ i.number = n /\ fired'[i] = 1
      BY <1>1, <1>2, <2>1
    <3> QED BY <1>3, <3>1
  <2>2. CASE i # x
    <3>1. i \in DOMAIN fired /\ fired'[i] = 1 /\ i.sub \in Subs
      BY <1>1, <2>2 DEF FiredInv, StateInv, RestInv, Instance
    <3> QED BY <1>3, <3>1 DEF FiredInv, NoRestart
  <2> QED BY <2>1, <2>2
<1>5. ASSUME NEW r \in Subs, NEW a \in Nat, NEW b \in Nat, Fired(r, a)', Fired(r, b)',
             NEW m \in Nat, a <= m, m <= b
      PROVE  Fired(r, m)'
  <2>1. CASE r # s
    BY <1>1, <1>5, <2>1 DEF FiredInv
  <2>2. CASE r = s
    <3>1. CASE m = n
      BY <1>1, <2>2, <3>1
    <3>2. CASE m # n
      <4>1. Fired(s, a) /\ a < n
        BY <1>1, <1>5, <2>2, <3>2
      <4>2. n - 1 \in Nat /\ Fired(s, n - 1) /\ a <= m /\ m <= n - 1
        BY <1>1, <1>5, <2>2, <3>2, <4>1
      <4>3. Fired(s, m)
        BY <4>1, <4>2 DEF FiredInv
      <4> QED BY <1>1, <2>2, <4>3
    <3> QED BY <3>1, <3>2
  <2> QED BY <2>1, <2>2
<1> QED BY <1>4, <1>5 DEF FiredInv
-----------------------------------------------------------------------------
(* What is kept and planned.                                                *)

LEMMA TermStays ==
  ASSUME LogInv, Grows, TermInv,
         \A s \in DOMAIN jobs' :
           \/ s \in DOMAIN jobs /\ jobs'[s].term = jobs[s].term
           \/ \E e \in EventsOf(s)' : jobs'[s].term = log'[e].job.term
  PROVE  TermInv'
<1> SUFFICES ASSUME NEW s \in DOMAIN jobs', s \in DOMAIN jobs, jobs'[s].term = jobs[s].term
             PROVE  \E e \in EventsOf(s)' : jobs'[s].term = log'[e].job.term
  BY DEF TermInv
<1>1. PICK e \in EventsOf(s) : jobs[s].term = log[e].job.term
  BY DEF TermInv
<1>2. e \in EventsOf(s)' /\ log'[e] = log[e]
  BY EventsStay
<1> QED BY <1>1, <1>2

\* Nothing new is planned for s.
LEMMA PlannedStays ==
  ASSUME StateInv, StateInv', Onward, NEW s \in Subs, Planned(s),
         \A n \in Nat : Fired(s, n)' <=> Fired(s, n),
         \A t \in TasksFor(s)' : t \in TasksFor(s) /\ task'[t] = task[t],
         EntriesFor(s)' \subseteq EntriesFor(s),
         ManagerHolds(s)' => ManagerHolds(s) /\ UNCHANGED manager
  PROVE  Planned(s)'
<1>1. /\ \A time : PendingAt(s, time) => PendingAt(s, time)'
      /\ \A time \in Nat : TriggeredAt(s, time) => TriggeredAt(s, time)'
      /\ Gone(s) => Gone(s)'
  BY PlansStay DEF StateInv
<1>2. ASSUME NEW t \in TasksFor(s)' PROVE TaskPlan(t)'
  <2>1. t \in Tasks /\ EventOf(t).sub = s /\ EventOf(t)'.sub = s /\ TaskPlan(t) /\ task'[t] = task[t]
    BY DEF TasksFor, Planned
  <2> QED BY <1>1, <2>1 DEF TaskPlan
<1>3. \A e \in EntriesFor(s)' : PendingAt(s, e.time)'
  BY <1>1 DEF Planned
<1>4. ASSUME ManagerHolds(s)' PROVE ManagerPlan'
  <2>1. ManagerHolds(s) /\ ManagerPlan /\ manager' = manager /\ manager.entry.sub = s
    BY <1>4 DEF Planned, ManagerHolds
  <2>2. manager.entry.time \in Nat
    BY <2>1 DEF ManagerHolds, StateInv, ManagerInv, Begun
  <2>3. manager.entry.time <= now => manager.entry.time <= now'
    BY <2>2 DEF Onward, StateInv, RestInv
  <2> QED BY <1>1, <2>1, <2>2, <2>3 DEF ManagerPlan
<1> QED BY <1>2, <1>3, <1>4 DEF Planned

LEMMA EndStays ==
  ASSUME StateInv, StateInv', Onward, poisoned => poisoned', EndInv,
         ~poisoned' => \A s \in Subs \ DOMAIN jobs, n \in Nat : Fired(s, n)' <=> Fired(s, n),
         ~poisoned' => \A t \in Tasks :
           t[1] \in DOMAIN log' /\ Started(t[1])' /\ task'[t].pc # "none" =>
             \/ EventOf(t)'.sub \in DOMAIN jobs' \/ IsOver(t)' \/ Gone(EventOf(t).sub)'
             \/ /\ t[1] \in DOMAIN log /\ task[t].pc # "none"
                /\ EventOf(t).sub \notin DOMAIN jobs
  PROVE  EndInv'
<1> SUFFICES ASSUME ~poisoned', NEW t \in Tasks,
                    t[1] \in DOMAIN log', Started(t[1])', task'[t].pc # "none",
                    t[1] \in DOMAIN log, task[t].pc # "none", EventOf(t).sub \notin DOMAIN jobs
             PROVE  IsOver(t)' \/ Gone(EventOf(t).sub)'
  BY DEF EndInv
<1>1. log'[t[1]] = log[t[1]] /\ EventOf(t)' = EventOf(t) /\ Started(t[1])
  BY DEF Onward, Grows, EventOf, Started
<1>2. PICK s : s = EventOf(t).sub
  OBVIOUS
<1>3. s \in Subs \ DOMAIN jobs
  BY <1>2, EventTypes DEF StateInv, EventOf
<1>4. IsOver(t) \/ Gone(s)
  BY <1>1, <1>2 DEF EndInv
<1>5. Gone(s) => Gone(s)'
  BY <1>3, PlansStay DEF StateInv
<1>6. IsOver(t) => IsOver(t)'
  <2>1. EventOf(t).job.term \in Nat /\ now \in Nat /\ now' \in Nat /\ t[1] \in Nat \ {0}
    <3>1. EventOf(t).job \in Job
      BY EventTypes DEF StateInv, EventOf
    <3>2. t[1] \in Nat \ {0}
      BY DEF Tasks
    <3> QED BY <3>1, <3>2, JobFields DEF StateInv, RestInv
  <2>2. t[1] <= cut => t[1] <= cut'
    BY <2>1 DEF Onward, None
  <2> QED BY <1>1, <2>1, <2>2 DEF IsOver, IsReplayed, Onward
<1>7. Gone(EventOf(t).sub)' <=> Gone(s)'
  BY <1>1, <1>2
<1> QED BY <1>4, <1>5, <1>6, <1>7
-----------------------------------------------------------------------------
(* Steps that plan nothing.                                                 *)

LEMMA IdleKeeps ==
  ASSUME StateInv, StateInv', ScheduleInv, Onward, poisoned => poisoned',
         UNCHANGED <<heap, fired>>, DOMAIN jobs \subseteq DOMAIN jobs', TermInv', WakeInv',
         \A i \in DOMAIN log' :
           Started(i)' /\ EventsOf(log'[i].sub) # {} => i \in DOMAIN log,
         \A t \in Tasks : /\ task'[t].pc \in Holding => task'[t] = task[t]
                          /\ task'[t].pc = "none" => task[t].pc = "none",
         \A t \in Tasks : t[1] \in DOMAIN log' /\ Started(t[1])' /\ task'[t].pc # "none" =>
                            task[t].pc # "none" \/ IsOver(t)' \/ poisoned',
         \A s : ManagerHolds(s)' => ManagerHolds(s) /\ UNCHANGED manager
  PROVE  ScheduleInv'
<1>1. FiredInv /\ PlanInv /\ EndInv
  BY DEF ScheduleInv
<1>2. NoRestart
  <2> SUFFICES ASSUME NEW t \in Tasks, NEW s \in Subs, Announces(t, s)', EventsOf(s) # {},
                      task'[t].pc \in {"none", "schedule"}
               PROVE  Announces(t, s) /\ task[t].pc \in {"none", "schedule"}
    BY DEF NoRestart
  <2>1. t[1] \in DOMAIN log' /\ Started(t[1])' /\ log'[t[1]].sub = s
    BY DEF Announces, EventOf
  <2>2. t[1] \in DOMAIN log /\ log'[t[1]] = log[t[1]]
    BY <2>1 DEF Onward, Grows
  <2>3. task[t].pc \in {"none", "schedule"}
    BY DEF Holding
  <2> QED BY <2>1, <2>2, <2>3 DEF Announces, EventOf, Started
<1>3. FiredInv'
  BY <1>1, <1>2, FiredStays
<1>4. \A s, n : Fired(s, n)' <=> Fired(s, n)
  BY DEF Fired
<1>5. ASSUME ~poisoned', NEW s \in Subs PROVE Planned(s)'
  <2>1. Planned(s)
    BY <1>1, <1>5 DEF PlanInv
  <2>2. ASSUME NEW t \in TasksFor(s)' PROVE t \in TasksFor(s) /\ task'[t] = task[t]
    <3>1. t \in Tasks /\ task'[t].pc \in Holding /\ log'[t[1]].sub = s
      BY DEF TasksFor, Holding, EventOf
    <3>2. task'[t] = task[t] /\ task[t].pc \in Holding
      BY <3>1
    <3>3. t[1] \in DOMAIN log /\ log'[t[1]] = log[t[1]]
      BY <3>1, <3>2 DEF StateInv, TaskInv, Holding, Onward, Grows
    <3> QED BY <3>1, <3>2, <3>3 DEF TasksFor, EventOf, Holding
  <2>3. EntriesFor(s)' = EntriesFor(s)
    BY DEF EntriesFor
  <2> QED BY <1>4, <2>1, <2>2, <2>3, PlannedStays
<1>6. PlanInv'
  BY <1>5 DEF PlanInv
<1>7. EndInv'
  <2>1. ASSUME NEW t \in Tasks, t[1] \in DOMAIN log', Started(t[1])', task'[t].pc # "none",
               ~poisoned'
        PROVE  \/ EventOf(t)'.sub \in DOMAIN jobs' \/ IsOver(t)'
               \/ /\ t[1] \in DOMAIN log /\ task[t].pc # "none"
                  /\ EventOf(t).sub \notin DOMAIN jobs
    <3> SUFFICES ASSUME task[t].pc # "none", EventOf(t)'.sub \notin DOMAIN jobs'
                 PROVE  t[1] \in DOMAIN log /\ EventOf(t).sub \notin DOMAIN jobs
      BY <2>1
    <3>1. t[1] \in DOMAIN log /\ log'[t[1]] = log[t[1]]
      BY DEF StateInv, TaskInv, Onward, Grows
    <3> QED BY <3>1 DEF EventOf
  <2> QED BY <1>1, <1>4, <2>1, EndStays
<1> QED BY <1>3, <1>6, <1>7 DEF ScheduleInv

LEMMA ChainPlans ==
  ASSUME StateInv, StateInv', ScheduleInv, Onward, ChainStep PROVE ScheduleInv'
<1>1. PICK kind \in Kinds, s \in Subs, job \in Job :
        /\ log' = Append(log, [kind |-> kind, sub |-> s, job |-> job])
        /\ kind = "started" <=> EventsOf(s) = {}
        /\ UNCHANGED <<now, cut, jobs, heap, messages, poisoned, task, manager, fired>>
  BY EmitIs
<1>2. /\ DOMAIN log' = DOMAIN log \union {Len(log) + 1}
      /\ log'[Len(log) + 1] = [kind |-> kind, sub |-> s, job |-> job]
  BY <1>1, AppendIs DEF StateInv
<1>3. ASSUME NEW i \in DOMAIN log', Started(i)', EventsOf(log'[i].sub) # {}
      PROVE  i \in DOMAIN log
  <2>1. Started(i)' <=> log'[i].kind = "started"
    BY DEF Started
  <2> QED BY <1>1, <1>2, <1>3, <2>1
<1>4. TermInv'
  BY <1>1, TermStays DEF StateInv, ScheduleInv, Onward
<1>5. WakeInv'
  BY <1>1 DEF ScheduleInv, WakeInv
<1>6. \A r : ManagerHolds(r)' => ManagerHolds(r) /\ UNCHANGED manager
  BY <1>1 DEF ManagerHolds
<1> QED BY <1>1, <1>3, <1>4, <1>5, <1>6, IdleKeeps

LEMMA ClockPlans ==
  ASSUME StateInv, StateInv', CalmInv, ScheduleInv, Onward, Tick \/ Begin \/ UNCHANGED vars
  PROVE  ScheduleInv'
<1>1. UNCHANGED <<log, jobs, heap, poisoned, task, fired>>
  BY DEF Tick, Begin, vars, chainVars
<1>2. TermInv'
  BY <1>1, TermStays DEF StateInv, ScheduleInv, Onward
<1>3. manager' = manager \/ (manager.pc = "off" /\ manager'.pc = "peek")
  <2>1. CASE Begin
    BY <2>1 DEF Begin, CalmInv, StateInv, ManagerInv
  <2> QED BY <2>1 DEF Tick, vars
<1>4. WakeInv'
  BY <1>1, <1>3 DEF ScheduleInv, WakeInv
<1>5. \A s : ManagerHolds(s)' => ManagerHolds(s) /\ UNCHANGED manager
  BY <1>3 DEF ManagerHolds
<1>6. \A i : Started(i)' <=> Started(i)
  BY <1>1 DEF Started
<1> QED BY <1>1, <1>2, <1>4, <1>5, <1>6, IdleKeeps

\* A step of the manager between its turns.
LEMMA ManagerIdlePlans ==
  ASSUME StateInv, StateInv', ScheduleInv, Onward, Peek \/ Receive \/ ManagerMeetsPoison
  PROVE  ScheduleInv'
<1>0. manager \in ManagerRecords
  BY DEF StateInv, ManagerInv, ManagerRecords
<1>1. UNCHANGED <<log, jobs, heap, poisoned, task, fired>>
  BY DEF Peek, Receive, ManagerMeetsPoison, chainVars
<1>2. TermInv'
  BY <1>1, TermStays DEF StateInv, ScheduleInv, Onward
<1>3. CASE Peek
  <2>1. manager'.pc = "wait" /\ manager'.wake = Wake
    BY <1>0, <1>3 DEF Peek, ManagerRecords
  <2>2. Wake # None => \E e \in DOMAIN heap : e.time <= Wake
    <3> SUFFICES ASSUME Wake # None PROVE \E e \in DOMAIN heap : e.time <= Wake
      OBVIOUS
    <3>1. heap # EmptyBag
      BY DEF Wake
    <3>2. DOMAIN heap # {}
      BY <3>1, NonEmptyBag DEF StateInv, HeapInv
    <3>3. \E e \in Earliest : TRUE
      BY <3>2 DEF StateInv, HeapInv, Earliest
    <3>4. PICK e \in Earliest : Wake = e.time
      BY <3>1, <3>3 DEF Wake
    <3> QED BY <3>4 DEF Earliest
  <2>3. WakeInv'
    BY <1>1, <2>1, <2>2 DEF WakeInv
  <2>4. \A s : ~ManagerHolds(s)'
    BY <2>1 DEF ManagerHolds
  <2>5. \A i : Started(i)' <=> Started(i)
    BY <1>1 DEF Started
  <2> QED BY <1>1, <1>2, <2>3, <2>4, <2>5, IdleKeeps
<1>4. CASE Receive \/ ManagerMeetsPoison
  <2>1. manager'.pc \in {"peek", "panicked"}
    <3>1. Receive => manager'.pc = "peek"
      BY <1>0 DEF Receive, ManagerRecords
    <3>2. ManagerMeetsPoison => manager'.pc = "panicked"
      BY DEF ManagerMeetsPoison, ManagerAt
    <3> QED BY <1>4, <3>1, <3>2
  <2>2. WakeInv'
    BY <2>1 DEF WakeInv
  <2>3. \A s : ~ManagerHolds(s)'
    BY <2>1 DEF ManagerHolds
  <2>4. \A i : Started(i)' <=> Started(i)
    BY <1>1 DEF Started
  <2> QED BY <1>1, <1>2, <2>2, <2>3, <2>4, IdleKeeps
<1> QED BY <1>3, <1>4

\* A step of a task that schedules nothing.
LEMMA TaskIdlePlans ==
  ASSUME StateInv, StateInv', CalmInv, ScheduleInv, Onward, poisoned => poisoned',
         NEW t \in Tasks,
         \/ (Insert(t) /\ IsOver(t)) \/ Send(t) \/ CheckUpdate(t) \/ ApplyUpdate(t)
         \/ MeetsPoison(t) \/ FindsNoManager(t)
  PROVE  ScheduleInv'
<1>1. UNCHANGED <<now, log, cut, heap, fired, manager>>
  BY DEF Insert, Send, CheckUpdate, ApplyUpdate, MeetsPoison, FindsNoManager, Panic, chainVars
<1>2. PICK pc \in {"done", "apply", "panicked"} : Goto(t, At(pc, None))
  BY DEF Insert, Send, CheckUpdate, ApplyUpdate, MeetsPoison, FindsNoManager, Panic
<1>3. \A u \in Tasks : task'[u] = IF u = t THEN At(pc, None) ELSE task[u]
  BY <1>2, GotoIs
<1>4. At(pc, None).pc \notin Holding /\ At(pc, None).pc # "none"
  BY DEF At, Holding
<1>5. DOMAIN jobs' = DOMAIN jobs
  BY DEF Insert, Send, CheckUpdate, ApplyUpdate, MeetsPoison, FindsNoManager, Panic, Updated
<1>6. \A i : Started(i)' <=> Started(i)
  BY <1>1 DEF Started
<1>7. WakeInv' /\ \A s : ManagerHolds(s)' => ManagerHolds(s) /\ UNCHANGED manager
  BY <1>1 DEF ScheduleInv, WakeInv, ManagerHolds
<1>8. TermInv'
  <2>1. CASE UNCHANGED jobs
    BY <2>1, TermStays DEF StateInv, ScheduleInv, Onward
  <2>2. CASE /\ ApplyUpdate(t) /\ EventOf(t).sub \in DOMAIN jobs
             /\ jobs' = Updated(EventOf(t).sub, EventOf(t).job.term)
    <3>1. PICK s : s = EventOf(t).sub
      OBVIOUS
    <3>2. t[1] \in EventsOf(s)'
      BY <1>1, <2>2, <3>1, TaskEvent DEF ApplyUpdate, StateInv, EventsOf, EventOf
    <3>3. jobs[s] \in Job
      BY <2>2, <3>1 DEF StateInv, JobsInv
    <3>4. jobs'[s].term = log'[t[1]].job.term
      BY <1>1, <2>2, <3>1, <3>3 DEF Updated, EventOf, Job
    <3>5. \A r \in DOMAIN jobs : r # s => jobs'[r] = jobs[r]
      BY <2>2, <3>1 DEF Updated
    <3>6. \A r \in DOMAIN jobs' :
            \/ r \in DOMAIN jobs /\ jobs'[r].term = jobs[r].term
            \/ \E e \in EventsOf(r)' : jobs'[r].term = log'[e].job.term
      BY <1>5, <3>2, <3>4, <3>5
    <3> QED BY <3>6, TermStays DEF StateInv, ScheduleInv, Onward
  <2> QED
    BY <2>1, <2>2 DEF Insert, Send, CheckUpdate, ApplyUpdate, MeetsPoison, FindsNoManager, Panic
<1>9. Started(t[1]) => task[t].pc # "none" \/ IsOver(t)' \/ poisoned'
  <2>1. CASE Insert(t) /\ IsOver(t)
    BY <1>1, <2>1 DEF IsOver, IsReplayed, EventOf
  <2>2. CASE CheckUpdate(t)
    BY <2>2 DEF CheckUpdate, Started, EventOf
  <2>3. CASE Send(t) \/ ApplyUpdate(t)
    BY <2>3 DEF Send, ApplyUpdate
  <2>4. CASE MeetsPoison(t) \/ FindsNoManager(t)
    BY <2>4 DEF MeetsPoison, FindsNoManager, Panic
  <2> QED BY <2>1, <2>2, <2>3, <2>4
<1>10. \A u \in Tasks : u[1] \in DOMAIN log' /\ Started(u[1])' /\ task'[u].pc # "none" =>
                          task[u].pc # "none" \/ IsOver(u)' \/ poisoned'
  BY <1>3, <1>6, <1>9
<1> QED BY <1>1, <1>3, <1>4, <1>5, <1>6, <1>7, <1>8, <1>10, IdleKeeps
-----------------------------------------------------------------------------
(* The choice of the next instance.                                         *)

\* While log and cut stay.
LEMMA ScopeSame ==
  ASSUME UNCHANGED <<log, cut>>
  PROVE  \A s : /\ EventsOf(s)' = EventsOf(s) /\ (Live(s)' <=> Live(s))
                /\ \A n : TimeOf(s, n)' = TimeOf(s, n)
                /\ \A time : Within(s, time)' <=> Within(s, time)
                /\ \A t : (Announces(t, s)' <=> Announces(t, s)) /\ EventOf(t)' = EventOf(t)
BY DEF EventsOf, Live, TimeOf, CourseOf, Within, Announces, EventOf, Started

\* A kept job and its course.
LEMMA KeptCourse ==
  ASSUME LogInv, JobsInv, NEW s \in DOMAIN jobs
  PROVE  /\ s \in Subs /\ EventsOf(s) # {} /\ jobs[s] \in Job
         /\ SameCourse(jobs[s], CourseOf(s))
<1>1. PICK i \in EventsOf(s) : SameCourse(jobs[s], log[i].job)
  BY DEF JobsInv, EventsOf
<1>2. SameCourse(CourseOf(s), log[i].job)
  BY <1>1, CourseIs
<1> QED BY <1>1, <1>2 DEF JobsInv, SameCourse

LEMMA ChoiceIs ==
  ASSUME NEW s \in DOMAIN jobs, NEW previous, NEW replayed, NEW neither,
         NEW next, next = previous + jobs[s].interval,
         NEW at, at = NextTrigger(s, previous, replayed, neither), neither \notin {"push", "remove"}
  PROVE  /\ at.pc = "remove" => next > jobs[s].term
         /\ at.pc = "push" => ~(next > jobs[s].term) /\ at.next = SkipOld(jobs[s], next, replayed)
BY DEF NextTrigger, IsPastEnd, At

\* SkipOld goes to an instance, too.
LEMMA SkipsToInstance ==
  ASSUME LogInv, NEW s, EventsOf(s) # {}, NEW job, SameCourse(job, CourseOf(s)),
         NEW n \in Nat, Minimum \in Int, TimeOf(s, n) < Minimum
  PROVE  \E k \in Nat : SkipOld(job, TimeOf(s, n), TRUE) = TimeOf(s, k)
<1> DEFINE a == CourseOf(s).start
           b == CourseOf(s).interval
           fit == (Minimum - a) \div b
<1>1. a \in Nat /\ b \in Nat \ {0} /\ TimeOf(s, n) \in Nat /\ TimeOf(s, n) >= a
  BY CourseIs, TimeOfIs
<1>2. SkipOld(job, TimeOf(s, n), TRUE) = a + (fit + 1) * b
  BY Zenon DEF SkipOld, SameCourse
<1>3. TimeOf(s, fit + 1) = a + (fit + 1) * b
  BY DEF TimeOf
<1>4. Minimum - a \in Nat
  <2> HIDE DEF a, b, fit
  <2> QED BY <1>1
<1>5. fit \in Nat
  <2> HIDE DEF a, b
  <2> QED BY <1>1, <1>4, Divide
<1> HIDE DEF fit
<1>6. fit + 1 \in Nat
  BY <1>5
<1> QED BY <1>2, <1>3, <1>6, Zenon

\* Instance n of s is considered; the instances before it have been seen to.
LEMMA PlanIs ==
  ASSUME StateInv, TermInv, UNCHANGED <<now, log, cut>>, NEW s \in DOMAIN jobs, NEW n \in Nat,
         n = 0 \/ (n - 1 \in Nat /\ TimeOf(s, n - 1) <= now),
         \A m \in Nat : Fired(s, m)' => m < n,
         (\E m \in Nat : Fired(s, m)') => n - 1 \in Nat /\ Fired(s, n - 1)',
         Live(s) => \A m \in Nat : m < n => Fired(s, m)',
         NEW replayed, replayed => ~Live(s),
         replayed /\ TimeOf(s, n) < Minimum => \A m \in Nat : ~Fired(s, m)',
         NEW previous, TimeOf(s, n) = previous + jobs[s].interval,
         NEW neither, neither \notin {"push", "remove"},
         NEW at, at = NextTrigger(s, previous, replayed, neither)
  PROVE  /\ at.pc = "push" => PendingAt(s, at.next)'
         /\ at.pc = "remove" => Gone(s)'
<1>1. /\ s \in Subs /\ EventsOf(s) # {} /\ jobs[s] \in Job
      /\ SameCourse(jobs[s], CourseOf(s)) /\ Minimum \in Int
  BY KeptCourse, SubscriptionsAssumption DEF StateInv, Minimum, RestInv
<1>2. PICK e \in EventsOf(s) : jobs[s].term = log[e].job.term
  BY DEF TermInv
<1>3. /\ EventsOf(s)' = EventsOf(s) /\ (Live(s)' <=> Live(s))
      /\ \A m : TimeOf(s, m)' = TimeOf(s, m)
      /\ \A time : Within(s, time)' <=> Within(s, time)
  BY ScopeSame
<1>4. /\ at.pc = "remove" => TimeOf(s, n) > jobs[s].term
      /\ at.pc = "push" => /\ ~(TimeOf(s, n) > jobs[s].term)
                           /\ at.next = SkipOld(jobs[s], TimeOf(s, n), replayed)
  BY ChoiceIs
<1>5. ASSUME at.pc = "remove" PROVE Gone(s)'
  <2>1. e \in EventsOf(s)' /\ TimeOf(s, n)' > log'[e].job.term
    BY <1>2, <1>3, <1>4, <1>5
  <2>2. n = 0 \/ (n - 1 \in Nat /\ TimeOf(s, n - 1)' <= now')
    BY <1>3
  <2>3. Ends(s, e, n)'
    BY <1>3, <2>1, <2>2 DEF Ends
  <2> QED BY <2>1, <2>3 DEF Gone
<1>6. ASSUME at.pc = "push", ~(replayed /\ TimeOf(s, n) < Minimum) PROVE PendingAt(s, at.next)'
  <2>1. at.next = TimeOf(s, n)
    BY <1>4, <1>6, Zenon DEF SkipOld
  <2>2. TimeOf(s, n) \in Nat /\ jobs[s].term \in Nat
    BY <1>1, TimeOfIs, JobFields DEF StateInv
  <2>3. Within(s, TimeOf(s, n))
    BY <1>2, <1>4, <1>6, <2>2 DEF Within
  <2>4. Pending(s, n)'
    BY <1>3, <2>3 DEF Pending
  <2> QED BY <1>1, <1>3, <2>1, <2>4 DEF PendingAt
<1>7. ASSUME at.pc = "push", replayed, TimeOf(s, n) < Minimum PROVE PendingAt(s, at.next)'
  <2>0. \E k \in Nat : SkipOld(jobs[s], TimeOf(s, n), replayed) = TimeOf(s, k)
    <3>1. LogInv /\ EventsOf(s) # {} /\ SameCourse(jobs[s], CourseOf(s)) /\ Minimum \in Int
      BY <1>1 DEF StateInv
    <3>2. \E k \in Nat : SkipOld(jobs[s], TimeOf(s, n), TRUE) = TimeOf(s, k)
      BY <1>7, <3>1, SkipsToInstance
    <3>3. SkipOld(jobs[s], TimeOf(s, n), replayed) = SkipOld(jobs[s], TimeOf(s, n), TRUE)
      BY <1>7, Zenon DEF SkipOld
    <3> QED BY <3>2, <3>3
  <2>1. PICK k \in Nat : at.next = TimeOf(s, k)
    BY <1>4, <1>7, <2>0
  <2>2. Within(s, TimeOf(s, k)) /\ ~Live(s)
    BY <1>7 DEF Live, Within
  <2>3. Pending(s, k)'
    BY <1>3, <1>7, <2>2 DEF Pending
  <2> QED BY <1>1, <1>3, <2>1, <2>3 DEF PendingAt
<1> QED BY <1>5, <1>6, <1>7
-----------------------------------------------------------------------------
(* Steps that schedule.                                                     *)

\* A task works for its own subscription.
LEMMA TaskOthers ==
  ASSUME StateInv, StateInv', Onward, UNCHANGED <<log, manager>>,
         NEW t \in Tasks, NEW at, Goto(t, at), NEW r \in Subs, EventOf(t).sub # r, Planned(r),
         \A n \in Nat : Fired(r, n)' <=> Fired(r, n), EntriesFor(r)' \subseteq EntriesFor(r)
  PROVE  Planned(r)'
<1>1. TasksFor(r)' = TasksFor(r)
  BY TasksForIs
<1>2. \A u \in TasksFor(r) : task'[u] = task[u]
  BY GotoIs DEF TasksFor
<1>3. ManagerHolds(r)' => ManagerHolds(r) /\ UNCHANGED manager
  BY DEF ManagerHolds
<1> QED BY <1>1, <1>2, <1>3, PlannedStays

LEMMA EndKept ==
  ASSUME StateInv, StateInv', Onward, UNCHANGED <<log, poisoned>>, EndInv,
         ~poisoned => \A s \in Subs \ DOMAIN jobs, n \in Nat : Fired(s, n)' <=> Fired(s, n),
         ~poisoned => \A s \in DOMAIN jobs : s \in DOMAIN jobs' \/ Gone(s)',
         ~poisoned => \A u \in Tasks : u[1] \in DOMAIN log /\ task'[u].pc # "none" =>
                        task[u].pc # "none" \/ EventOf(u).sub \in DOMAIN jobs'
  PROVE  EndInv'
<1>1. \A u : EventOf(u)' = EventOf(u)
  BY DEF EventOf
<1>2. \A u : Gone(EventOf(u).sub)' <=> \E s : s = EventOf(u).sub /\ Gone(s)'
  BY <1>1
<1>3. ASSUME ~poisoned', NEW t \in Tasks, t[1] \in DOMAIN log', task'[t].pc # "none"
      PROVE  \/ EventOf(t)'.sub \in DOMAIN jobs' \/ Gone(EventOf(t).sub)'
             \/ /\ t[1] \in DOMAIN log /\ task[t].pc # "none"
                /\ EventOf(t).sub \notin DOMAIN jobs
  BY <1>1, <1>2, <1>3
<1> QED BY <1>3, EndStays

LEMMA InsertPlans ==
  ASSUME StateInv, StateInv', TokenInv', ScheduleInv, Onward, NEW t \in Tasks, Insert(t), ~IsOver(t)
  PROVE  ScheduleInv'
<1>1. PICK s : s = EventOf(t).sub
  OBVIOUS
<1>2. /\ MayBegin(t) /\ EventOf(t).kind = "started" /\ ~poisoned
      /\ jobs' = WithJob(s, EventOf(t).job) /\ Goto(t, At("schedule", None))
      /\ UNCHANGED <<now, log, cut, heap, messages, poisoned, manager, fired>>
  BY <1>1 DEF Insert, chainVars
<1>3. /\ t[1] \in DOMAIN log /\ s \in Subs /\ DOMAIN jobs' = DOMAIN jobs \union {s}
      /\ task[t].pc = "none" /\ task'[t].pc = "schedule"
      /\ \A u \in Tasks : u # t => task'[u] = task[u]
  BY <1>1, <1>2, TaskEvent, GotoIs DEF StateInv, WithJob, MayBegin, At
<1>4. \A i : Started(i)' <=> Started(i)
  BY <1>2 DEF Started
<1>5. \A u : EventOf(u)' = EventOf(u)
  BY <1>2 DEF EventOf
<1>6. \A r, n : Fired(r, n)' <=> Fired(r, n)
  BY <1>2 DEF Fired
<1>7. FiredInv'
  <2>1. \A u, r : Announces(u, r)' <=> Announces(u, r)
    BY <1>2, <1>4, <1>5 DEF Announces
  <2>2. NoRestart
    BY <1>3, <2>1 DEF NoRestart
  <2> QED BY <1>2, <2>2, FiredStays DEF ScheduleInv
<1>8. TermInv'
  <2>1. t[1] \in EventsOf(s)' /\ log'[t[1]] = EventOf(t)
    BY <1>1, <1>2, <1>3 DEF EventsOf, EventOf
  <2>2. jobs'[s] = EventOf(t).job /\ \A r \in DOMAIN jobs : r # s => jobs'[r] = jobs[r]
    BY <1>2 DEF WithJob
  <2>3. \A r \in DOMAIN jobs' :
          \/ r \in DOMAIN jobs /\ jobs'[r].term = jobs[r].term
          \/ \E e \in EventsOf(r)' : jobs'[r].term = log'[e].job.term
    BY <1>3, <2>1, <2>2
  <2> QED BY <2>3, TermStays DEF StateInv, ScheduleInv, Onward
<1>9. WakeInv'
  BY <1>2 DEF ScheduleInv, WakeInv
<1>10. Planned(s)'
  <2>1. t \in TasksFor(s)' /\ Token(s)'
    BY <1>1, <1>2, <1>3, <1>5 DEF TasksFor, TokenInv
  <2>2. TasksFor(s)' = {t} /\ EntriesFor(s)' = {} /\ ~ManagerHolds(s)'
    BY <2>1 DEF Token, InManager, InTask, InHeap, Nobody
  <2>3. TaskPlan(t)'
    BY <1>3 DEF TaskPlan
  <2> QED BY <2>2, <2>3 DEF Planned
<1>11. PlanInv'
  <2>1. ASSUME NEW r \in Subs, r # s PROVE Planned(r)'
    <3>1. Planned(r) /\ EntriesFor(r)' \subseteq EntriesFor(r)
      BY <1>2 DEF ScheduleInv, PlanInv, EntriesFor
    <3> QED BY <1>1, <1>2, <1>6, <2>1, <3>1, TaskOthers
  <2> QED BY <1>10, <2>1 DEF PlanInv
<1>12. EndInv'
  BY <1>1, <1>2, <1>3, <1>6, EndKept DEF ScheduleInv
<1> QED BY <1>7, <1>8, <1>9, <1>11, <1>12 DEF ScheduleInv

LEMMA PushPlans ==
  ASSUME StateInv, StateInv', TokenInv, ScheduleInv, Onward, NEW t \in Tasks, Push(t)
  PROVE  ScheduleInv'
<1>1. PICK s : s = EventOf(t).sub
  OBVIOUS
<1>2. PICK e : e = [sub |-> s, time |-> task[t].next]
  OBVIOUS
<1>3. /\ task[t].pc = "push" /\ Goto(t, At("send", None)) /\ heap' = BagAdd(heap, e)
      /\ UNCHANGED <<now, log, cut, jobs, poisoned, manager, fired>>
  BY <1>1, <1>2 DEF Push, chainVars
<1>4. /\ s \in Subs /\ IsABag(heap) /\ e.sub = s /\ e.time = task[t].next
      /\ task[t].pc \in Holding /\ task'[t].pc = "send"
      /\ \A u \in Tasks : u # t => task'[u] = task[u]
  BY <1>1, <1>2, <1>3, TaskEvent, GotoIs DEF StateInv, HeapInv, Holding, At
<1>5. \A r, n : Fired(r, n)' <=> Fired(r, n)
  BY <1>3 DEF Fired
<1>6. FiredInv'
  <2>1. \A u, r : Announces(u, r)' <=> Announces(u, r)
    BY <1>3, ScopeSame
  <2>2. NoRestart
    BY <1>4, <2>1 DEF NoRestart
  <2> QED BY <1>3, <2>2, FiredStays DEF ScheduleInv
<1>7. TermInv'
  BY <1>3, TermStays DEF StateInv, ScheduleInv, Onward
<1>8. WakeInv'
  <2>1. DOMAIN BagAdd(heap, e) = DOMAIN heap \union {e}
    <3>1. IsABag(heap)
      BY <1>4
    <3> QED BY <3>1, BagAddIs
  <2>2. DOMAIN heap' = DOMAIN heap \union {e}
    <3>1. heap' = BagAdd(heap, e)
      BY <1>3
    <3> QED BY <2>1, <3>1
  <2>3. DOMAIN heap \subseteq DOMAIN heap'
    BY <2>2
  <2>4. UNCHANGED manager
    BY <1>3
  <2> QED BY <2>3, <2>4 DEF ScheduleInv, WakeInv
<1>9. ASSUME ~poisoned PROVE Planned(s)'
  <2>1. TasksFor(s) = {t} /\ EntriesFor(s) = {} /\ ~ManagerHolds(s)
    BY <1>1, <1>4, <1>9, TokenHolder DEF TokenInv
  <2>2. TasksFor(s)' = TasksFor(s) \ {t}
    <3>1. At("send", None).pc \notin Holding
      BY DEF At, Holding
    <3> QED BY <1>1, <1>3, <3>1, TasksForIs
  <2>3. EntriesFor(s)' = {e} /\ ~ManagerHolds(s)'
    BY <1>3, <1>4, <2>1, EntriesPushed DEF ManagerHolds
  <2>4. PendingAt(s, e.time)
    BY <1>1, <1>3, <1>4, <1>9, <2>1 DEF ScheduleInv, PlanInv, Planned, TaskPlan
  <2>5. PendingAt(s, e.time)'
    BY <1>5, <2>4, PlansStay DEF StateInv
  <2> QED BY <2>1, <2>2, <2>3, <2>5 DEF Planned
<1>10. PlanInv'
  <2>1. ASSUME ~poisoned, NEW r \in Subs, r # s PROVE Planned(r)'
    <3>1. Planned(r)
      BY <2>1 DEF ScheduleInv, PlanInv
    <3>2. EntriesFor(r)' \subseteq EntriesFor(r)
      BY <1>3, <1>4, <2>1, EntriesPushed
    <3> QED BY <1>1, <1>3, <1>5, <2>1, <3>1, <3>2, TaskOthers
  <2> QED BY <1>3, <1>9, <2>1 DEF PlanInv
<1>11. EndInv'
  BY <1>3, <1>4, <1>5, EndKept DEF ScheduleInv
<1> QED BY <1>6, <1>7, <1>8, <1>10, <1>11 DEF ScheduleInv

LEMMA RemovePlans ==
  ASSUME StateInv, StateInv', TokenInv, ScheduleInv, Onward, NEW t \in Tasks, Remove(t)
  PROVE  ScheduleInv'
<1>1. PICK s : s = EventOf(t).sub
  OBVIOUS
<1>2. /\ task[t].pc = "remove" /\ Goto(t, At("send", None)) /\ jobs' = WithoutJob(s)
      /\ UNCHANGED <<now, log, cut, heap, poisoned, manager, fired>> /\ ~poisoned
  BY <1>1 DEF Remove, chainVars
<1>3. /\ s \in Subs /\ task[t].pc \in Holding /\ task'[t].pc = "send"
      /\ \A u \in Tasks : u # t => task'[u] = task[u]
      /\ DOMAIN jobs' = DOMAIN jobs \ {s} /\ \A r \in DOMAIN jobs' : jobs'[r] = jobs[r]
  BY <1>1, <1>2, TaskEvent, GotoIs DEF StateInv, Holding, At, WithoutJob
<1>4. \A r, n : Fired(r, n)' <=> Fired(r, n)
  BY <1>2 DEF Fired
<1>5. FiredInv'
  <2>1. \A u, r : Announces(u, r)' <=> Announces(u, r)
    BY <1>2, ScopeSame
  <2>2. NoRestart
    BY <1>3, <2>1 DEF NoRestart
  <2> QED BY <1>2, <2>2, FiredStays DEF ScheduleInv
<1>6. TermInv'
  BY <1>3, TermStays DEF StateInv, ScheduleInv, Onward
<1>7. WakeInv'
  BY <1>2 DEF ScheduleInv, WakeInv
<1>8. TasksFor(s) = {t} /\ EntriesFor(s) = {} /\ ~ManagerHolds(s)
  BY <1>1, <1>2, <1>3, TokenHolder DEF TokenInv
<1>9. Gone(s)'
  <2>1. Gone(s)
    BY <1>1, <1>2, <1>3, <1>8 DEF ScheduleInv, PlanInv, Planned, TaskPlan
  <2> QED BY <1>4, <2>1, PlansStay DEF StateInv
<1>10. Planned(s)'
  <2>1. TasksFor(s)' = TasksFor(s) \ {t}
    <3>1. At("send", None).pc \notin Holding
      BY DEF At, Holding
    <3> QED BY <1>1, <1>2, <3>1, TasksForIs
  <2>2. EntriesFor(s)' = {} /\ ~ManagerHolds(s)'
    BY <1>2, <1>8 DEF EntriesFor, ManagerHolds
  <2> QED BY <1>8, <2>1, <2>2 DEF Planned
<1>11. PlanInv'
  <2>1. ASSUME NEW r \in Subs, r # s PROVE Planned(r)'
    <3>1. Planned(r) /\ EntriesFor(r)' \subseteq EntriesFor(r)
      BY <1>2 DEF ScheduleInv, PlanInv, EntriesFor
    <3> QED BY <1>1, <1>2, <1>4, <2>1, <3>1, TaskOthers
  <2> QED BY <1>10, <2>1 DEF PlanInv
<1>12. EndInv'
  BY <1>2, <1>3, <1>4, <1>9, EndKept DEF ScheduleInv
<1> QED BY <1>5, <1>6, <1>7, <1>11, <1>12 DEF ScheduleInv
-----------------------------------------------------------------------------

\* The task at the announcement of s: it is the only one, and nothing was triggered.
LEMMA AtAnnouncement ==
  ASSUME Copies = 1, StateInv, OnceInv, FiredInv, NEW t \in Tasks, task[t].pc = "schedule",
         NEW s, s = EventOf(t).sub, NEW job, job = EventOf(t).job
  PROVE  /\ s \in Subs /\ job \in Job /\ t[1] \in EventsOf(s) /\ Announces(t, s)
         /\ SameCourse(job, CourseOf(s)) /\ job.start = TimeOf(s, 0)
         /\ \A u \in Tasks : Announces(u, s) => u = t
         /\ \A m \in Nat : ~Fired(s, m)
         /\ IsReplayed(t) => ~Live(s)
<1>1. t[1] \in DOMAIN log /\ s \in Subs /\ job \in Job /\ Started(t[1])
  BY TaskEvent DEF StateInv, OnceInv, Holding
<1>2. t[1] \in EventsOf(s) /\ Announces(t, s) /\ log[t[1]].job = job
  BY <1>1 DEF EventsOf, Announces, EventOf
<1>3. SameCourse(job, CourseOf(s)) /\ job.start = TimeOf(s, 0)
  <2>1. SameCourse(CourseOf(s), job)
    BY <1>2, CourseIs DEF StateInv
  <2>2. TimeOf(s, 0) = CourseOf(s).start
    BY <1>2, TimeOfIs DEF StateInv
  <2> QED BY <2>1, <2>2 DEF SameCourse
<1>4. ASSUME NEW u \in Tasks, Announces(u, s) PROVE u = t
  <2>1. u[1] = t[1]
    BY <1>2, <1>4 DEF Announces, EventOf, OnceInv
  <2> QED BY <2>1, OneCopy
<1>5. ASSUME NEW m \in Nat, Fired(s, m) PROVE FALSE
  <2>1. PICK i \in DOMAIN fired : i.sub = s
    BY <1>5 DEF Fired
  <2> QED BY <1>2, <2>1 DEF FiredInv
<1>6. IsReplayed(t) => ~Live(s)
  BY <1>1, <1>2 DEF IsReplayed, Live
<1> QED BY <1>1, <1>2, <1>3, <1>4, <1>5, <1>6

\* What the task at the announcement chooses.
LEMMA FirstPlan ==
  ASSUME Copies = 1, StateInv, OnceInv, ScheduleInv, UNCHANGED <<now, log, cut>>,
         NEW t \in Tasks, task[t].pc = "schedule",
         NEW s \in DOMAIN jobs, s = EventOf(t).sub, NEW job, job = EventOf(t).job,
         \A m \in Nat : Fired(s, m)' <=> FiresFirst(t) /\ m = 0,
         NEW at, at = NextTrigger(s, Previous(job), IsReplayed(t), "send")
  PROVE  /\ at.pc = "push" => PendingAt(s, at.next)'
         /\ at.pc = "remove" => Gone(s)'
<1> DEFINE replayed == IsReplayed(t)
<1>1. /\ s \in Subs /\ job \in Job /\ EventsOf(s) # {} /\ SameCourse(job, CourseOf(s))
      /\ job.start = TimeOf(s, 0) /\ \A m \in Nat : ~Fired(s, m)
  BY AtAnnouncement DEF ScheduleInv
<1>2. replayed => ~Live(s)
  BY AtAnnouncement DEF ScheduleInv
<1>3. /\ job.start \in Nat /\ job.interval \in Nat \ {0} /\ jobs[s].interval = job.interval
      /\ TimeOf(s, 1) = job.start + job.interval /\ now \in Nat /\ Minimum \in Int
  <2>1. SameCourse(jobs[s], CourseOf(s))
    BY KeptCourse DEF StateInv
  <2>2. TimeOf(s, 0 + 1) = TimeOf(s, 0) + CourseOf(s).interval
    BY <1>1, TimeOfIs DEF StateInv
  <2>3. now \in Nat /\ Minimum \in Int
    BY SubscriptionsAssumption DEF StateInv, RestInv, Minimum
  <2> QED BY <1>1, <2>1, <2>2, <2>3, JobFields DEF SameCourse
<1>4. FiresFirst(t) <=> ~InFuture(job) /\ (replayed => job.start >= Minimum)
  BY Zenon DEF FiresFirst
<1>5. StateInv /\ TermInv
  BY DEF ScheduleInv
<1>6. at = NextTrigger(s, Previous(job), replayed, "send")
  BY Zenon
<1> HIDE DEF replayed
<1>7. CASE InFuture(job)
  <2>1. TimeOf(s, 0) = Previous(job) + jobs[s].interval
    BY <1>1, <1>3, <1>7 DEF Previous
  <2>2. \A m \in Nat : ~Fired(s, m)'
    BY <1>4, <1>7
  <2>3. Live(s) => \A m \in Nat : m < 0 => Fired(s, m)'
    OBVIOUS
  <2> QED BY <1>2, <1>5, <1>6, <2>1, <2>2, <2>3, PlanIs
<1>8. CASE ~InFuture(job)
  <2>1. Previous(job) = job.start /\ job.start <= now
    BY <1>3, <1>8 DEF Previous, InFuture
  <2>2. TimeOf(s, 1) = Previous(job) + jobs[s].interval /\ TimeOf(s, 0) <= now
    BY <1>1, <1>3, <2>1
  <2>3. \A m \in Nat : Fired(s, m)' => m < 1
    OBVIOUS
  <2>4. (\E m \in Nat : Fired(s, m)') => Fired(s, 0)'
    OBVIOUS
  <2>5. Live(s) => \A m \in Nat : m < 1 => Fired(s, m)'
    <3>1. Live(s) => FiresFirst(t)
      BY <1>2, <1>4, <1>8, Zenon
    <3> QED BY <3>1
  <2>6. replayed /\ TimeOf(s, 1) < Minimum => \A m \in Nat : ~Fired(s, m)'
    <3>1. TimeOf(s, 1) < Minimum => ~(job.start >= Minimum)
      BY <1>3
    <3>2. replayed /\ TimeOf(s, 1) < Minimum => ~FiresFirst(t)
      BY <1>4, <3>1, Zenon
    <3> QED BY <3>2
  <2>7. 1 - 1 \in Nat /\ 1 - 1 = 0 /\ 1 \in Nat
    OBVIOUS
  <2> QED BY <1>2, <1>5, <1>6, <2>2, <2>3, <2>4, <2>5, <2>6, <2>7, PlanIs
<1> QED BY <1>7, <1>8

LEMMA SchedulePlans ==
  ASSUME Copies = 1, StateInv, StateInv', OnceInv, TokenInv, ScheduleInv, Onward,
         NEW t \in Tasks, Schedule(t)
  PROVE  ScheduleInv'
<1>1. PICK s, job : s = EventOf(t).sub /\ job = EventOf(t).job
  OBVIOUS
<1>2. PICK at : at = IF poisoned THEN At("panicked", None)
                     ELSE NextTrigger(s, Previous(job), IsReplayed(t), "send")
  OBVIOUS
<1>3. /\ task[t].pc = "schedule" /\ Goto(t, at)
      /\ fired' = IF FiresFirst(t) THEN BagAdd(fired, InstanceOf(s, job, job.start)) ELSE fired
      /\ UNCHANGED <<now, log, cut, jobs, heap, poisoned, manager>>
  BY <1>1, <1>2 DEF Schedule, chainVars
<1>4. /\ s \in Subs /\ job \in Job /\ EventsOf(s) # {}
      /\ SameCourse(job, CourseOf(s)) /\ job.start = TimeOf(s, 0)
      /\ \A u \in Tasks : Announces(u, s) => u = t
      /\ \A m \in Nat : ~Fired(s, m)
  BY <1>1, <1>3, AtAnnouncement DEF ScheduleInv
<1>5. at.pc \in {"panicked", "send", "remove", "push"}
  <2>1. CASE poisoned
    BY <1>2, <2>1 DEF At
  <2>2. CASE ~poisoned
    <3>1. at = NextTrigger(s, Previous(job), IsReplayed(t), "send")
      BY <1>2, <2>2, Zenon
    <3> QED BY <3>1, NextTriggerPcs
  <2> QED BY <2>1, <2>2
<1>6. task'[t] = at /\ \A u \in Tasks : u # t => task'[u] = task[u]
  BY <1>3, GotoIs
<1>7. \A u, r : Announces(u, r)' <=> Announces(u, r)
  BY <1>3, ScopeSame
<1>8. NoRestart
  BY <1>5, <1>6, <1>7 DEF NoRestart
<1>9. FiresFirst(t) => fired' = BagAdd(fired, [sub |-> s, number |-> 0])
  <2>1. InstanceOf(s, job, TimeOf(s, 0)) = [sub |-> s, number |-> 0]
    BY <1>4, InstanceIs DEF StateInv
  <2> QED BY <1>3, <1>4, <2>1
<1>10. FiredInv'
  <2>1. CASE FiresFirst(t)
    <3>1. TimeOf(s, 0) <= now
      <4>1. ~(job.start > now)
        BY <1>1, <2>1 DEF FiresFirst, InFuture
      <4> QED BY <1>4, <4>1, JobFields DEF StateInv, RestInv
    <3>2. \A u \in Tasks : Announces(u, s) => task'[u].pc \notin {"none", "schedule"}
      BY <1>4, <1>5, <1>6
    <3> QED BY <1>3, <1>4, <1>8, <1>9, <2>1, <3>1, <3>2, FiredAdds DEF ScheduleInv
  <2>2. CASE ~FiresFirst(t)
    BY <1>3, <1>8, <2>2, FiredStays DEF ScheduleInv
  <2> QED BY <2>1, <2>2
<1>11. \A r, m : Fired(r, m)' <=> Fired(r, m) \/ (FiresFirst(t) /\ r = s /\ m = 0)
  <2>1. CASE FiresFirst(t)
    BY <1>9, <2>1, FiredIs DEF StateInv, RestInv
  <2>2. CASE ~FiresFirst(t)
    BY <1>3, <2>2 DEF Fired
  <2> QED BY <2>1, <2>2
<1>12. TermInv'
  BY <1>3, TermStays DEF StateInv, ScheduleInv, Onward
<1>13. WakeInv'
  BY <1>3 DEF ScheduleInv, WakeInv
<1>14. ~poisoned => s \in DOMAIN jobs /\ TasksFor(s) = {t} /\ EntriesFor(s) = {} /\ ~ManagerHolds(s)
  <2>1. task[t].pc \in Holding
    BY <1>3 DEF Holding
  <2> QED BY <1>1, <1>4, <2>1, TokenHolder DEF TokenInv
<1>15. ASSUME ~poisoned PROVE Planned(s)'
  <2>1. TasksFor(s)' \subseteq {t} /\ EntriesFor(s)' = {} /\ ~ManagerHolds(s)'
    <3>1. TasksFor(s)' \subseteq {t}
      BY <1>1, <1>3, <1>14, <1>15, TasksForIs
    <3> QED BY <1>3, <1>14, <1>15, <3>1 DEF EntriesFor, ManagerHolds
  <2>2. at = NextTrigger(s, Previous(job), IsReplayed(t), "send")
    BY <1>2, <1>15, Zenon
  <2>3. \A m \in Nat : Fired(s, m)' <=> FiresFirst(t) /\ m = 0
    BY <1>4, <1>11
  <2>4. /\ at.pc = "push" => PendingAt(s, at.next)'
        /\ at.pc = "remove" => Gone(s)'
    BY <1>1, <1>3, <1>14, <1>15, <2>2, <2>3, FirstPlan
  <2>5. EventOf(t)' = EventOf(t)
    BY <1>3 DEF EventOf
  <2>6. TaskPlan(t)'
    BY <1>1, <1>6, <2>4, <2>5 DEF TaskPlan
  <2> QED BY <2>1, <2>6 DEF Planned
<1>16. PlanInv'
  <2>1. ASSUME ~poisoned, NEW r \in Subs, r # s PROVE Planned(r)'
    <3>1. Planned(r) /\ EntriesFor(r)' \subseteq EntriesFor(r)
      BY <1>3, <2>1 DEF ScheduleInv, PlanInv, EntriesFor
    <3>2. \A m \in Nat : Fired(r, m)' <=> Fired(r, m)
      BY <1>11, <2>1
    <3> QED BY <1>1, <1>3, <2>1, <3>1, <3>2, TaskOthers
  <2> QED BY <1>3, <1>15, <2>1 DEF PlanInv
<1>17. EndInv'
  <2>1. ~poisoned => \A r \in Subs \ DOMAIN jobs, m \in Nat : Fired(r, m)' <=> Fired(r, m)
    BY <1>11, <1>14
  <2>2. \A u \in Tasks : task'[u].pc # "none" => task[u].pc # "none"
    BY <1>3, <1>6
  <2> QED BY <1>3, <2>1, <2>2, EndKept DEF ScheduleInv
<1> QED BY <1>10, <1>12, <1>13, <1>16, <1>17 DEF ScheduleInv

\* Every step of a task.
LEMMA TaskPlans ==
  ASSUME Copies = 1, StateInv, StateInv', KeepInv, KeepInv', ScheduleInv, Onward,
         poisoned => poisoned', NEW t \in Tasks, TaskStep(t)
  PROVE  ScheduleInv'
<1>1. OnceInv /\ CalmInv /\ TokenInv /\ TokenInv'
  BY DEF KeepInv
<1>2. CASE Insert(t) /\ ~IsOver(t)
  BY <1>1, <1>2, InsertPlans
<1>3. CASE Schedule(t)
  BY <1>1, <1>3, SchedulePlans
<1>4. CASE Push(t)
  BY <1>1, <1>4, PushPlans
<1>5. CASE Remove(t)
  BY <1>1, <1>5, RemovePlans
<1>6. CASE \/ (Insert(t) /\ IsOver(t)) \/ Send(t) \/ CheckUpdate(t) \/ ApplyUpdate(t)
           \/ MeetsPoison(t) \/ FindsNoManager(t)
  BY <1>1, <1>6, TaskIdlePlans
<1> QED BY <1>2, <1>3, <1>4, <1>5, <1>6 DEF TaskStep
-----------------------------------------------------------------------------
(* A turn of the manager.                                                   *)

LEMMA TasksRest == ASSUME UNCHANGED <<log, task>> PROVE NoRestart
BY DEF NoRestart, Announces, Started, EventOf

\* The manager works for s.
LEMMA TurnPlans ==
  ASSUME StateInv, StateInv', ScheduleInv, Onward, UNCHANGED <<log, task, poisoned>>,
         NEW s \in Subs, manager'.pc # "wait", FiredInv', ~poisoned => Planned(s)',
         \A r \in Subs \ {s} : /\ ~ManagerHolds(r)' /\ EntriesFor(r)' \subseteq EntriesFor(r)
                               /\ \A n \in Nat : Fired(r, n)' <=> Fired(r, n),
         ~poisoned => s \in DOMAIN jobs \/ \A n \in Nat : Fired(s, n)' <=> Fired(s, n),
         \A r \in DOMAIN jobs' : r \in DOMAIN jobs /\ jobs'[r] = jobs[r],
         ~poisoned => \A r \in DOMAIN jobs : r \in DOMAIN jobs' \/ Gone(r)'
  PROVE  ScheduleInv'
<1>1. TermInv'
  <2>1. \A r \in DOMAIN jobs' : r \in DOMAIN jobs /\ jobs'[r].term = jobs[r].term
    OBVIOUS
  <2> QED BY <2>1, TermStays DEF StateInv, ScheduleInv, Onward
<1>2. WakeInv'
  BY DEF WakeInv
<1>3. PlanInv'
  <2>1. ASSUME ~poisoned, NEW r \in Subs, r # s PROVE Planned(r)'
    <3>1. Planned(r)
      BY <2>1 DEF ScheduleInv, PlanInv
    <3>2. \A t \in TasksFor(r)' : t \in TasksFor(r) /\ task'[t] = task[t]
      BY DEF TasksFor, EventOf
    <3> QED BY <2>1, <3>1, <3>2, PlannedStays
  <2> QED BY <2>1 DEF PlanInv
<1>4. EndInv'
  <2>1. ~poisoned => \A r \in Subs \ DOMAIN jobs, n \in Nat : Fired(r, n)' <=> Fired(r, n)
    OBVIOUS
  <2> QED BY <2>1, EndKept DEF ScheduleInv
<1> QED BY <1>1, <1>2, <1>3, <1>4 DEF ScheduleInv

LEMMA PopPlans ==
  ASSUME StateInv, StateInv', TokenInv, ScheduleInv, Onward, Pop PROVE ScheduleInv'
<1>1. PICK e \in Earliest :
        heap' = BagRemove(heap, e) /\ manager' = [ManagerAt("lookup") EXCEPT !.entry = e]
  BY DEF Pop
<1>2. /\ manager.pc = "wait" /\ manager.wake # None /\ manager.wake <= now
      /\ UNCHANGED <<now, log, cut, jobs, poisoned, task, fired>>
  BY DEF Pop, chainVars
<1>3. PICK s : s = e.sub
  OBVIOUS
<1>4. /\ e \in DOMAIN heap /\ e \in EntriesFor(s) /\ s \in Subs /\ e.time \in Nat
      /\ IsABag(heap) /\ \A f \in DOMAIN heap : e.time <= f.time
  BY <1>3 DEF Earliest, EntriesFor, StateInv, HeapInv, Entry
<1>5. manager'.pc = "lookup" /\ manager'.entry = e
  BY <1>1 DEF ManagerAt
<1>6. e.time <= now
  <2>1. PICK f \in DOMAIN heap : f.time <= manager.wake
    BY <1>2 DEF ScheduleInv, WakeInv
  <2>2. f.time \in Nat /\ manager.wake \in Nat /\ now \in Nat
    BY <1>2 DEF StateInv, HeapInv, Entry, ManagerInv, RestInv
  <2> QED BY <1>2, <1>4, <2>1, <2>2
<1>7. \A r, n : Fired(r, n)' <=> Fired(r, n)
  BY <1>2 DEF Fired
<1>8. FiredInv'
  BY <1>2, TasksRest, FiredStays DEF ScheduleInv
<1>9. ASSUME ~poisoned PROVE Planned(s)'
  <2>1. TasksFor(s) = {} /\ EntriesFor(s) = {e} /\ heap[e] = 1
    BY <1>4, <1>9 DEF TokenInv, Token, InManager, InTask, InHeap, Nobody
  <2>2. TasksFor(s)' = {}
    BY <1>2, <2>1 DEF TasksFor, EventOf
  <2>3. EntriesFor(s)' = {}
    BY <1>1, <1>4, <2>1, EntriesPopped
  <2>4. PendingAt(s, e.time)
    BY <1>4, <1>9 DEF ScheduleInv, PlanInv, Planned
  <2>5. PendingAt(s, e.time)'
    BY <1>7, <2>4, PlansStay DEF StateInv
  <2>6. ManagerPlan'
    BY <1>2, <1>3, <1>5, <1>6, <2>5 DEF ManagerPlan
  <2> QED BY <2>2, <2>3, <2>6 DEF Planned
<1>10. ASSUME NEW r \in Subs, r # s PROVE ~ManagerHolds(r)' /\ EntriesFor(r)' \subseteq EntriesFor(r)
  <2>1. EntriesFor(r)' \subseteq EntriesFor(r)
    BY <1>1, <1>3, <1>4, <1>10, EntriesPopped
  <2> QED BY <1>3, <1>5, <1>10, <2>1 DEF ManagerHolds
<1> QED BY <1>2, <1>4, <1>5, <1>7, <1>8, <1>9, <1>10, TurnPlans

LEMMA TriggerPlans ==
  ASSUME StateInv, StateInv', OnceInv, TokenInv, ScheduleInv, Onward, Trigger PROVE ScheduleInv'
<1>1. PICK s, time : s = manager.entry.sub /\ time = manager.entry.time
  OBVIOUS
<1>2. /\ manager.pc = "lookup" /\ ~poisoned /\ s \in Subs /\ ManagerHolds(s)
      /\ UNCHANGED <<now, log, cut, jobs, heap, poisoned, task>>
  BY <1>1 DEF Trigger, chainVars, ManagerHolds, StateInv, ManagerInv, Begun
<1>3. s \in DOMAIN jobs /\ TasksFor(s) = {} /\ EntriesFor(s) = {}
  BY <1>2, ManagerAlone DEF TokenInv
<1>4. fired' = BagAdd(fired, InstanceOf(s, jobs[s], time)) /\ ManagerGoto(At("next", None))
  BY <1>1, <1>3 DEF Trigger
<1>5. manager'.pc = "next" /\ manager'.entry = manager.entry
  <2>1. manager \in ManagerRecords
    BY DEF StateInv, ManagerInv, ManagerRecords
  <2> QED BY <1>4, <2>1 DEF ManagerGoto, At, ManagerRecords
<1>6. PendingAt(s, time) /\ time <= now
  <2>1. ManagerPlan
    BY <1>2 DEF ScheduleInv, PlanInv, Planned
  <2> QED BY <1>1, <1>2, <2>1 DEF ManagerPlan
<1>7. PICK n \in Nat : time = TimeOf(s, n) /\ Pending(s, n)
  BY <1>6 DEF PendingAt
<1>8. EventsOf(s) # {} /\ SameCourse(jobs[s], CourseOf(s))
  BY <1>3, KeptCourse DEF StateInv
<1>9. fired' = BagAdd(fired, [sub |-> s, number |-> n])
  BY <1>4, <1>7, <1>8, InstanceIs DEF StateInv
<1>10. \A r, m : Fired(r, m)' <=> Fired(r, m) \/ (r = s /\ m = n)
  BY <1>9, FiredIs DEF StateInv, RestInv
<1>11. ASSUME NEW t \in Tasks, Announces(t, s) PROVE task'[t].pc \notin {"none", "schedule"}
  <2>1. task[t].pc # "none"
    BY <1>3, <1>11 DEF OnceInv, Announces
  <2>2. task[t].pc # "schedule"
    BY <1>3, <1>11 DEF TasksFor, Announces
  <2> QED BY <1>2, <2>1, <2>2
<1>12. FiredInv'
  <2>1. /\ \A m \in Nat : Fired(s, m) => m < n
        /\ (\E m \in Nat : Fired(s, m)) => n - 1 \in Nat /\ Fired(s, n - 1)
        /\ TimeOf(s, n) <= now /\ (n = 0 \/ Within(s, TimeOf(s, n)))
    BY <1>6, <1>7 DEF Pending
  <2> QED BY <1>2, <1>8, <1>9, <1>11, <2>1, TasksRest, FiredAdds DEF ScheduleInv
<1>13. Planned(s)'
  <2>1. TasksFor(s)' = {} /\ EntriesFor(s)' = {}
    BY <1>2, <1>3 DEF TasksFor, EntriesFor, EventOf
  <2>2. Live(s)' <=> Live(s)
    BY <1>2, ScopeSame
  <2>3. /\ \A m \in Nat : Fired(s, m) => m < n
        /\ Live(s) => \A m \in Nat : m < n => Fired(s, m)
    BY <1>7 DEF Pending
  <2>4. Triggered(s, n)'
    <3>1. \A m \in Nat : m <= n => m < n \/ m = n
      OBVIOUS
    <3>2. \A m \in Nat : m < n => m <= n
      OBVIOUS
    <3> QED BY <1>10, <2>2, <2>3, <3>1, <3>2 DEF Triggered
  <2>5. TriggeredAt(s, time)'
    <3>1. EventsOf(s)' = EventsOf(s) /\ \A m : TimeOf(s, m)' = TimeOf(s, m)
      BY <1>2, ScopeSame
    <3> QED BY <1>2, <1>6, <1>7, <1>8, <2>4, <3>1 DEF TriggeredAt
  <2>6. ManagerPlan'
    BY <1>1, <1>5, <2>5 DEF ManagerPlan
  <2> QED BY <2>1, <2>6 DEF Planned
<1>14. ASSUME NEW r \in Subs, r # s
       PROVE  /\ ~ManagerHolds(r)' /\ EntriesFor(r)' \subseteq EntriesFor(r)
              /\ \A m \in Nat : Fired(r, m)' <=> Fired(r, m)
  BY <1>1, <1>2, <1>5, <1>10, <1>14 DEF ManagerHolds, EntriesFor
<1> QED BY <1>2, <1>3, <1>5, <1>12, <1>13, <1>14, TurnPlans

LEMMA AdvancePlans ==
  ASSUME StateInv, StateInv', TokenInv, ScheduleInv, Onward, Advance PROVE ScheduleInv'
<1>1. PICK s, time : s = manager.entry.sub /\ time = manager.entry.time
  OBVIOUS
<1> DEFINE replayed == FALSE
<1>2. PICK at : at = NextTrigger(s, time, replayed, "peek")
  OBVIOUS
<1>3. /\ manager.pc = "next" /\ ~poisoned /\ s \in Subs /\ ManagerHolds(s) /\ ManagerGoto(at)
      /\ UNCHANGED <<now, log, cut, jobs, heap, poisoned, task, fired>>
  BY <1>1, <1>2 DEF Advance, chainVars, ManagerHolds, StateInv, ManagerInv, Begun
<1>4. s \in DOMAIN jobs /\ TasksFor(s) = {} /\ EntriesFor(s) = {}
  BY <1>3, ManagerAlone DEF TokenInv
<1>5. ~replayed
  OBVIOUS
<1> HIDE DEF replayed
<1>6. at.pc \in {"remove", "push"}
  BY <1>2, <1>4, NextTriggerPcs
<1>7. manager'.pc = at.pc /\ manager'.next = at.next /\ manager'.entry = manager.entry
  <2>1. manager \in ManagerRecords
    BY DEF StateInv, ManagerInv, ManagerRecords
  <2> QED BY <1>3, <2>1 DEF ManagerGoto, ManagerRecords
<1>8. TriggeredAt(s, time)
  <2>1. ManagerPlan
    BY <1>3 DEF ScheduleInv, PlanInv, Planned
  <2> QED BY <1>1, <1>3, <2>1 DEF ManagerPlan
<1>9. PICK n \in Nat : time = TimeOf(s, n) /\ Triggered(s, n)
  BY <1>8 DEF TriggeredAt
<1>10. \A r, m : Fired(r, m)' <=> Fired(r, m)
  BY <1>3 DEF Fired
<1>11. /\ at.pc = "push" => PendingAt(s, at.next)'
       /\ at.pc = "remove" => Gone(s)'
  <2>1. PICK k \in Nat : k = n + 1
    OBVIOUS
  <2>2. k - 1 = n /\ k - 1 \in Nat /\ TimeOf(s, k - 1) <= now
    BY <1>8, <1>9, <2>1 DEF TriggeredAt
  <2>3. TimeOf(s, k) = time + jobs[s].interval
    <3>1. EventsOf(s) # {} /\ SameCourse(jobs[s], CourseOf(s))
      BY <1>4, KeptCourse DEF StateInv
    <3> QED BY <1>9, <2>1, <3>1, TimeOfIs DEF StateInv, SameCourse
  <2>4. \A m \in Nat : m < k <=> m <= n
    BY <2>1
  <2>5. /\ \A m \in Nat : Fired(s, m)' => m < k
        /\ Fired(s, k - 1)'
        /\ Live(s) => \A m \in Nat : m < k => Fired(s, m)'
    BY <1>9, <1>10, <2>2, <2>4 DEF Triggered
  <2> QED BY <1>2, <1>3, <1>4, <1>5, <2>2, <2>3, <2>5, PlanIs DEF ScheduleInv
<1>12. FiredInv'
  BY <1>3, TasksRest, FiredStays DEF ScheduleInv
<1>13. Planned(s)'
  <2>1. TasksFor(s)' = {} /\ EntriesFor(s)' = {}
    BY <1>3, <1>4 DEF TasksFor, EntriesFor, EventOf
  <2>2. ManagerPlan'
    BY <1>1, <1>6, <1>7, <1>11 DEF ManagerPlan
  <2> QED BY <2>1, <2>2 DEF Planned
<1>14. ASSUME NEW r \in Subs, r # s PROVE ~ManagerHolds(r)' /\ EntriesFor(r)' \subseteq EntriesFor(r)
  BY <1>1, <1>3, <1>7, <1>14 DEF ManagerHolds, EntriesFor
<1>15. manager'.pc # "wait"
  BY <1>6, <1>7
<1> QED BY <1>3, <1>10, <1>12, <1>13, <1>14, <1>15, TurnPlans

LEMMA PushNextPlans ==
  ASSUME StateInv, StateInv', TokenInv, ScheduleInv, Onward, PushNext PROVE ScheduleInv'
<1>1. PICK s : s = manager.entry.sub
  OBVIOUS
<1>2. PICK e : e = [sub |-> s, time |-> manager.next]
  OBVIOUS
<1>3. /\ manager.pc = "push" /\ s \in Subs /\ ManagerHolds(s) /\ heap' = BagAdd(heap, e)
      /\ manager' = ManagerAt("peek")
      /\ UNCHANGED <<now, log, cut, jobs, poisoned, task, fired>>
  BY <1>1, <1>2 DEF PushNext, chainVars, ManagerHolds, StateInv, ManagerInv, Begun
<1>4. IsABag(heap) /\ e.sub = s /\ e.time = manager.next
  BY <1>2 DEF StateInv, HeapInv
<1>5. manager'.pc = "peek" /\ \A r : ~ManagerHolds(r)'
  BY <1>3 DEF ManagerAt, ManagerHolds
<1>6. \A r, m : Fired(r, m)' <=> Fired(r, m)
  BY <1>3 DEF Fired
<1>7. FiredInv'
  BY <1>3, TasksRest, FiredStays DEF ScheduleInv
<1>8. ASSUME ~poisoned PROVE Planned(s)'
  <2>1. TasksFor(s) = {} /\ EntriesFor(s) = {}
    BY <1>3, <1>8, ManagerAlone DEF TokenInv
  <2>2. TasksFor(s)' = {}
    BY <1>3, <2>1 DEF TasksFor, EventOf
  <2>3. EntriesFor(s)' = {e}
    BY <1>3, <1>4, <2>1, EntriesPushed
  <2>4. PendingAt(s, e.time)
    <3>1. ManagerPlan
      BY <1>3, <1>8 DEF ScheduleInv, PlanInv, Planned
    <3> QED BY <1>1, <1>3, <1>4, <3>1 DEF ManagerPlan
  <2>5. PendingAt(s, e.time)'
    BY <1>3, <1>6, <2>4, PlansStay DEF StateInv
  <2> QED BY <1>5, <2>2, <2>3, <2>5 DEF Planned
<1>9. ASSUME NEW r \in Subs, r # s PROVE EntriesFor(r)' \subseteq EntriesFor(r)
  BY <1>3, <1>4, <1>9, EntriesPushed
<1> QED BY <1>3, <1>5, <1>6, <1>7, <1>8, <1>9, TurnPlans

LEMMA RemoveJobPlans ==
  ASSUME StateInv, StateInv', TokenInv, ScheduleInv, Onward, RemoveJob PROVE ScheduleInv'
<1>1. PICK s : s = manager.entry.sub
  OBVIOUS
<1>2. /\ manager.pc = "remove" /\ ~poisoned /\ s \in Subs /\ ManagerHolds(s)
      /\ jobs' = WithoutJob(s) /\ manager' = ManagerAt("peek")
      /\ UNCHANGED <<now, log, cut, heap, poisoned, task, fired>>
  BY <1>1 DEF RemoveJob, chainVars, ManagerHolds, StateInv, ManagerInv, Begun
<1>3. s \in DOMAIN jobs /\ TasksFor(s) = {} /\ EntriesFor(s) = {}
  BY <1>2, ManagerAlone DEF TokenInv
<1>4. manager'.pc = "peek" /\ \A r : ~ManagerHolds(r)'
  BY <1>2 DEF ManagerAt, ManagerHolds
<1>5. \A r, m : Fired(r, m)' <=> Fired(r, m)
  BY <1>2 DEF Fired
<1>6. FiredInv'
  BY <1>2, TasksRest, FiredStays DEF ScheduleInv
<1>7. Gone(s)'
  <2>1. ManagerPlan
    BY <1>2 DEF ScheduleInv, PlanInv, Planned
  <2>2. Gone(s)
    BY <1>1, <1>2, <2>1 DEF ManagerPlan
  <2> QED BY <1>2, <1>5, <2>2, PlansStay DEF StateInv
<1>8. Planned(s)'
  <2>1. TasksFor(s)' = {} /\ EntriesFor(s)' = {}
    BY <1>2, <1>3 DEF TasksFor, EntriesFor, EventOf
  <2> QED BY <1>4, <2>1 DEF Planned
<1>9. \A r : EntriesFor(r)' = EntriesFor(r)
  BY <1>2 DEF EntriesFor
<1>10. \A r \in DOMAIN jobs' : r \in DOMAIN jobs /\ jobs'[r] = jobs[r]
  BY <1>2 DEF WithoutJob
<1>11. \A r \in DOMAIN jobs : r \in DOMAIN jobs' \/ Gone(r)'
  <2>1. \A r \in DOMAIN jobs : r # s => r \in DOMAIN jobs'
    BY <1>2 DEF WithoutJob
  <2> QED BY <1>7, <2>1
<1> QED BY <1>2, <1>3, <1>4, <1>5, <1>6, <1>8, <1>9, <1>10, <1>11, TurnPlans

LEMMA ManagerPlans ==
  ASSUME StateInv, StateInv', KeepInv, ScheduleInv, Onward, ManagerStep PROVE ScheduleInv'
<1>1. OnceInv /\ TokenInv
  BY DEF KeepInv
<1>2. CASE Pop
  BY <1>1, <1>2, PopPlans
<1>3. CASE Trigger
  BY <1>1, <1>3, TriggerPlans
<1>4. CASE Advance
  BY <1>1, <1>4, AdvancePlans
<1>5. CASE PushNext
  BY <1>1, <1>5, PushNextPlans
<1>6. CASE RemoveJob
  BY <1>1, <1>6, RemoveJobPlans
<1>7. CASE Peek \/ Receive \/ ManagerMeetsPoison
  BY <1>7, ManagerIdlePlans
<1> QED BY <1>2, <1>3, <1>4, <1>5, <1>6, <1>7 DEF ManagerStep
-----------------------------------------------------------------------------
(* The invariant holds.                                                     *)

LEMMA ScheduleInit == Init => ScheduleInv
<1> SUFFICES ASSUME Init PROVE ScheduleInv
  OBVIOUS
<1>1. /\ DOMAIN fired = {} /\ DOMAIN heap = {} /\ DOMAIN jobs = {} /\ manager.pc = "off"
      /\ \A t \in Tasks : task[t].pc = "none"
  BY EmptyBagIs DEF Init, ManagerAt, At
<1>2. FiredInv
  BY <1>1 DEF FiredInv, Fired
<1>3. TermInv /\ WakeInv /\ EndInv
  BY <1>1 DEF TermInv, WakeInv, EndInv
<1>4. PlanInv
  BY <1>1 DEF PlanInv, Planned, TasksFor, EntriesFor, ManagerHolds
<1> QED BY <1>2, <1>3, <1>4 DEF ScheduleInv

LEMMA ScheduleStep ==
  ASSUME Copies = 1 PROVE StateInv /\ KeepInv /\ ScheduleInv /\ [Next]_vars => ScheduleInv'
<1> SUFFICES ASSUME StateInv, KeepInv, ScheduleInv, [Next]_vars PROVE ScheduleInv'
  OBVIOUS
<1>1. StateInv' /\ KeepInv' /\ Onward /\ (poisoned => poisoned') /\ CalmInv
  BY StateStep, KeepStep, GoesOn DEF KeepInv
<1>2. CASE ChainStep
  BY <1>1, <1>2, ChainPlans
<1>3. CASE Tick \/ Begin \/ UNCHANGED vars
  BY <1>1, <1>3, ClockPlans
<1>4. CASE ManagerStep
  BY <1>1, <1>4, ManagerPlans
<1>5. CASE \E t \in Tasks : TaskStep(t)
  BY <1>1, <1>5, TaskPlans
<1> QED BY <1>2, <1>3, <1>4, <1>5 DEF Next

LEMMA ScheduleInvariant == ASSUME Copies = 1 PROVE Spec => []ScheduleInv
<1>1. StateInv /\ KeepInv /\ ScheduleInv /\ [Next]_vars => ScheduleInv'
  BY ScheduleStep
<1> QED BY <1>1, ScheduleInit, StateInvariant, KeepInvariant, PTL DEF Spec

\* The time of an instance by any event, and by what the chain says last.
LEMMA TimesAgree ==
  ASSUME LogInv, NEW s \in Subs, EventsOf(s) # {}
  PROVE  /\ \A e \in EventsOf(s) : \A n :
              log[e].job.start + n * log[e].job.interval = TimeOf(s, n)
         /\ \A n : OnChain(s).start + n * OnChain(s).interval = TimeOf(s, n)
<1>1. \A e \in EventsOf(s) : SameCourse(CourseOf(s), log[e].job)
  BY CourseIs
<1>2. SameCourse(CourseOf(s), OnChain(s))
  <2>1. PICK e \in EventsOf(s) : TRUE
    OBVIOUS
  <2>2. SameCourse(log[e].job, OnChain(s))
    BY OnChainIs DEF EventsOf
  <2> QED BY <1>1, <2>2 DEF SameCourse
<1> QED BY <1>1, <1>2 DEF SameCourse, TimeOf

\* OnSchedule: the first trigger, the turns of the manager and the updates together trigger
\* the instances of a subscription one after the other: none twice, none before its time,
\* none left out in between, and, past the first and without a replay, none later than all
\* termination times that the chain announced (add_subscription_job,
\* add_next_trigger_time_to_heap, job_subscription_manager).
THEOREM InstancesOnSchedule ==
  ASSUME Copies = 1
  PROVE  Spec => []OnSchedule
<1>1. ASSUME StateInv, FiredInv PROVE OnSchedule
  <2>1. ASSUME NEW i \in DOMAIN fired
        PROVE  /\ i.sub \in Subs /\ i.number \in Nat /\ Fired(i.sub, i.number)
               /\ EventsOf(i.sub) # {}
    <3>1. i \in Instance
      BY <1>1 DEF StateInv, RestInv
    <3>2. i = [sub |-> i.sub, number |-> i.number] /\ i.sub \in Subs /\ i.number \in Nat
      BY <3>1 DEF Instance
    <3> QED BY <1>1, <3>2 DEF Fired, FiredInv
  <2>2. NoInstanceTwice
    BY <1>1 DEF FiredInv, NoInstanceTwice
  <2>3. NeverEarly
    <3> SUFFICES ASSUME NEW i \in DOMAIN fired
                 PROVE  OnChain(i.sub).start + i.number * OnChain(i.sub).interval <= now
      BY DEF NeverEarly
    <3>1. TimeOf(i.sub, i.number) <= now
      BY <1>1 DEF FiredInv
    <3> QED BY <1>1, <2>1, <3>1, TimesAgree DEF StateInv
  <2>4. NoGaps
    <3> SUFFICES ASSUME NEW i \in DOMAIN fired, NEW j \in DOMAIN fired, i.sub = j.sub,
                        NEW n \in i.number..j.number
                 PROVE  Fired(i.sub, n)
      BY DEF NoGaps, Fired
    <3>1. n \in Nat /\ i.number <= n /\ n <= j.number
      BY <2>1
    <3>2. Fired(i.sub, i.number) /\ Fired(i.sub, j.number)
      BY <2>1
    <3> QED BY <1>1, <2>1, <3>1, <3>2 DEF FiredInv
  <2>5. WithinTermination
    <3> SUFFICES ASSUME NEW i \in DOMAIN fired, i.number # 0
                 PROVE  \/ \E e \in EventsOf(i.sub) : e <= cut
                        \/ \E e \in EventsOf(i.sub) :
                             log[e].job.start + i.number * log[e].job.interval <= log[e].job.term
      BY DEF WithinTermination
    <3>1. PICK e \in EventsOf(i.sub) : e <= cut \/ TimeOf(i.sub, i.number) <= log[e].job.term
      BY <1>1 DEF FiredInv, Within
    <3>2. log[e].job.start + i.number * log[e].job.interval = TimeOf(i.sub, i.number)
      BY <1>1, <2>1, TimesAgree DEF StateInv
    <3> QED BY <3>1, <3>2
  <2> QED BY <2>2, <2>3, <2>4, <2>5 DEF OnSchedule
<1>2. ScheduleInv => FiredInv
  BY DEF ScheduleInv
<1> QED BY <1>1, <1>2, StateInvariant, ScheduleInvariant, PTL
-----------------------------------------------------------------------------
(* Nothing is missed.                                                       *)

\* A subscription that was never extended ends last by what the chain says last.
LEMMA LastIsLeast ==
  ASSUME LogInv, NEW s \in Subs, EventsOf(s) # {}, ~Extended(s)
  PROVE  OnChain(s).term \in Nat
         /\ \A e \in EventsOf(s) : log[e].job.term \in Nat /\ OnChain(s).term <= log[e].job.term
<1>1. \E i \in EventsOf(s) : \A j \in EventsOf(s) : j <= i
  <2>1. EventsOf(s) \in SUBSET DOMAIN log
    BY DEF EventsOf
  <2> QED BY <2>1 DEF LogInv
<1>2. PICK m \in EventsOf(s) : (\A j \in EventsOf(s) : j <= m) /\ OnChain(s) = log[m].job
  BY <1>1 DEF OnChain
<1>3. \A e \in EventsOf(s) : log[e].job.term \in Nat /\ e \in Nat
  BY EventTypes, JobFields DEF EventsOf, LogInv
<1>4. ASSUME NEW e \in EventsOf(s) PROVE OnChain(s).term <= log[e].job.term
  <2>1. e = m \/ e < m
    BY <1>2, <1>3
  <2>2. e < m => ~(log[e].job.term < log[m].job.term)
    BY DEF Extended
  <2> QED BY <1>2, <1>3, <2>1, <2>2
<1> QED BY <1>2, <1>3, <1>4

LEMMA ScheduledToEnd ==
  ASSUME Copies = 1, StateInv, KeepInv, ScheduleInv PROVE RunsUntilTermination
<1> SUFFICES ASSUME AllHandled, NEW s \in Subs, EventsOf(s) # {}, ToCome(s), ~Extended(s)
             PROVE  s \in DOMAIN jobs
  BY DEF RunsUntilTermination
<1>1. \A i \in DOMAIN log : \E t \in Tasks : t[1] = i /\ task[t].pc = "done"
  <2> SUFFICES ASSUME NEW i \in DOMAIN log
               PROVE  \E t \in Tasks : t[1] = i /\ task[t].pc = "done"
    OBVIOUS
  <2>1. PICK c \in 1..Copies : task[<<i, c>>].pc = "done"
    BY DEF AllHandled, IsDone
  <2>2. i \in 1..MaxLog
    BY SubscriptionsAssumption DEF StateInv, LogInv
  <2> QED BY <2>1, <2>2 DEF Tasks
<1>2. ~poisoned
  <2> SUFFICES ASSUME poisoned PROVE FALSE
    OBVIOUS
  <2>1. PICK t \in Tasks : task[t].pc = "panicked"
    BY DEF KeepInv, CalmInv
  <2>2. t[1] \in DOMAIN log
    BY <2>1 DEF StateInv, TaskInv
  <2>3. PICK u \in Tasks : u[1] = t[1] /\ task[u].pc = "done"
    BY <1>1, <2>2
  <2> QED BY <2>1, <2>3, OneCopy
<1>3. PICK j \in EventsOf(s) : Started(j)
  BY DEF KeepInv, OnceInv, EventsOf
<1>4. PICK t \in Tasks : t[1] = j /\ task[t].pc = "done"
  BY <1>1, <1>3 DEF EventsOf
<1>5. EventOf(t).sub = s /\ EventOf(t).job = log[j].job /\ t[1] \in DOMAIN log
  BY <1>3, <1>4 DEF EventOf, EventsOf
<1>6. s \in DOMAIN jobs \/ IsOver(t) \/ Gone(s)
  <2>1. EventOf(t).sub \in DOMAIN jobs \/ IsOver(t) \/ Gone(EventOf(t).sub)
    BY <1>2, <1>3, <1>4, <1>5 DEF ScheduleInv, EndInv
  <2> QED BY <1>5, <2>1
<1>7. PICK n \in Nat : now < TimeOf(s, n) /\ TimeOf(s, n) <= OnChain(s).term
  <2>1. PICK n \in 1..(LastTime + 1) :
          LET time == OnChain(s).start + n * OnChain(s).interval
          IN now < time /\ time <= OnChain(s).term
    BY DEF ToCome
  <2>2. n \in Nat
    BY SubscriptionsAssumption
  <2> QED BY <2>1, <2>2, TimesAgree DEF StateInv
<1>8. /\ now \in Nat /\ OnChain(s).term \in Nat
      /\ \A m \in Nat : TimeOf(s, m) \in Nat
      /\ \A e \in EventsOf(s) : log[e].job.term \in Nat /\ OnChain(s).term <= log[e].job.term
  BY LastIsLeast, TimeOfIs DEF StateInv, RestInv
<1>9. ~IsOver(t)
  <2>1. ~(log[j].job.term < now)
    BY <1>3, <1>7, <1>8
  <2> QED BY <1>5, <2>1 DEF IsOver
<1>10. ~Gone(s)
  <2> SUFFICES ASSUME NEW e \in EventsOf(s), NEW m \in Nat, Ends(s, e, m) PROVE FALSE
    BY DEF Gone
  <2>1. TimeOf(s, n) < TimeOf(s, m)
    BY <1>7, <1>8 DEF Ends
  <2>2. n < m
    BY <2>1, TimeOfIs DEF StateInv
  <2>3. m - 1 \in Nat /\ TimeOf(s, m - 1) <= now
    BY <2>2 DEF Ends
  <2>4. TimeOf(s, m - 1) < TimeOf(s, n)
    BY <1>7, <1>8, <2>3
  <2>5. m - 1 < n
    BY <2>3, <2>4, TimeOfIs DEF StateInv
  <2> QED BY <2>2, <2>5
<1> QED BY <1>6, <1>9, <1>10

LEMMA DueIsFired ==
  ASSUME StateInv, KeepInv, ScheduleInv, WaitsForTheEarliest PROVE CaughtUp
<1> SUFFICES ASSUME Quiet, NEW s \in Subs, NEW n \in 0..LastTime, Due(s, n) PROVE Fired(s, n)
  BY DEF CaughtUp, Fired
<1>1. PICK t \in Tasks :
        /\ task[t].pc = "done" /\ ~IsReplayed(t)
        /\ EventOf(t).kind = "started" /\ EventOf(t).sub = s
        /\ LET time == EventOf(t).job.start + n * EventOf(t).job.interval
           IN time <= now /\ \A e \in EventsOf(s) : time <= log[e].job.term
  BY DEF Due
<1>2. t[1] \in EventsOf(s) /\ t[1] \in DOMAIN log /\ Started(t[1]) /\ EventOf(t) = log[t[1]]
  BY <1>1 DEF StateInv, TaskInv, EventsOf, EventOf, Started
<1>3. TimeOf(s, n) <= now /\ \A e \in EventsOf(s) : TimeOf(s, n) <= log[e].job.term
  BY <1>1, <1>2, TimesAgree DEF StateInv
<1>4. /\ n \in Nat /\ now \in Nat /\ \A m \in Nat : TimeOf(s, m) \in Nat
      /\ \A e \in EventsOf(s) : log[e].job.term \in Nat
      /\ \A m \in Nat : TimeOf(s, n) < TimeOf(s, m) => n < m
  <2>1. n \in Nat /\ now \in Nat
    BY SubscriptionsAssumption DEF StateInv, RestInv
  <2>2. \A e \in EventsOf(s) : log[e].job.term \in Nat
    BY EventTypes, JobFields DEF EventsOf, StateInv
  <2> QED BY <1>2, <2>1, <2>2, TimeOfIs DEF StateInv
<1>5. ~poisoned
  BY DEF Quiet, KeepInv, CalmInv
<1>6. Live(s)
  <2>1. \A e \in EventsOf(s) : Started(e) => e = t[1]
    BY <1>2 DEF KeepInv, OnceInv, EventsOf
  <2>2. ~(t[1] <= cut)
    BY <1>1 DEF IsReplayed
  <2> QED BY <2>1, <2>2 DEF Live
<1>7. CASE s \in DOMAIN jobs
  <2>1. TasksFor(s) = {} /\ ~ManagerHolds(s)
    BY DEF Quiet, TasksFor, ManagerHolds
  <2>2. PICK e \in DOMAIN heap : EntriesFor(s) = {e}
    BY <1>5, <1>7, <2>1 DEF KeepInv, TokenInv, Token, InManager, InTask, InHeap
  <2>3. PICK k \in Nat : e.time = TimeOf(s, k) /\ Pending(s, k)
    BY <1>5, <2>2 DEF ScheduleInv, PlanInv, Planned, PendingAt
  <2>4. manager.wake # None /\ manager.wake <= e.time /\ manager.wake > now
    BY DEF Quiet, WaitsForTheEarliest
  <2>5. manager.wake \in Nat
    BY <2>4 DEF StateInv, ManagerInv
  <2>6. TimeOf(s, n) < TimeOf(s, k)
    BY <1>3, <1>4, <2>3, <2>4, <2>5
  <2>7. n < k
    BY <1>4, <2>6
  <2> QED BY <1>4, <1>6, <2>3, <2>7 DEF Pending
<1>8. CASE s \notin DOMAIN jobs
  <2>1. IsOver(t) \/ Gone(s)
    <3>1. EventOf(t).sub \in DOMAIN jobs \/ IsOver(t) \/ Gone(EventOf(t).sub)
      BY <1>1, <1>2, <1>5 DEF ScheduleInv, EndInv
    <3> QED BY <1>1, <1>8, <3>1
  <2>2. PICK e \in EventsOf(s), m \in Nat : Ends(s, e, m)
    BY <1>1, <2>1 DEF IsOver, Gone
  <2>3. TimeOf(s, n) < TimeOf(s, m)
    BY <1>3, <1>4, <2>2 DEF Ends
  <2>4. n < m
    BY <1>4, <2>3
  <2> QED BY <1>4, <1>6, <2>2, <2>4 DEF Ends
<1> QED BY <1>7, <1>8

\* NothingMissed: when all events are handled, a subscription that was never extended and has
\* an instance to come is kept; and when everybody waits, every instance of a live
\* subscription that is due was triggered (add_subscription_job with its replay,
\* add_next_trigger_time_to_heap, job_subscription_manager).
THEOREM NothingIsMissed ==
  ASSUME Copies = 1
  PROVE  Spec => []NothingMissed
<1>1. StateInv /\ KeepInv /\ ScheduleInv /\ WaitsForTheEarliest => NothingMissed
  BY ScheduledToEnd, DueIsFired DEF NothingMissed
<1> QED BY <1>1, StateInvariant, KeepInvariant, ScheduleInvariant, NeverOversleeps, PTL
=============================================================================
