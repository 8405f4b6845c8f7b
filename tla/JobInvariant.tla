---------------------------- MODULE JobInvariant ----------------------------
(***************************************************************************)
(* The inductive invariant behind the safety properties of JobLifecycle.   *)
(* TLC checks it on the small instances; JobLifecycle_proofs proves it.    *)
(***************************************************************************)
EXTENDS JobLifecycle

\* A task that watches an attempt, or whose report of it was mined.
ReportingPcs == {"timer", "untrack", "slash", "queuedSlash", "slashSubmitted"}

\* What a task handles and holds at each point of its handler.
HeldInv ==
  \A t \in Task :
    /\ pc[t] \in CarryingPcs \union ReportingPcs \union {"send", "queuedRelay"}
         => held[t].seq \in Attempts
    /\ pc[t] = "store" => held[t].gateway \in Gateways
    /\ pc[t] \in {"send", "queuedRelay"} => held[t].gateway = Self
    /\ pc[t] \in ReportingPcs => held[t].gateway \in Peers
    /\ pc[t] = "lookup" => t.event = "GatewayReassigned"
    /\ pc[t] \in CancellingPcs =>
         \/ t.event \in CancelEvents
         \/ t.event = "GatewayReassigned" /\ held[t].seq = t.seq

\* Exactly the waiting tasks are on the waitlist of their cycle.
WaitlistInv ==
  \A c \in Cycles : \A i \in 1..Len(waitlist[c]) :
    pc[waitlist[c][i]] = "waitlisted" /\ JobCycle[waitlist[c][i].job] = c

\* The service has published or skipped each cycle before serviceCycle, and it
\* skips only cycles that are almost too old.
ServiceInv ==
  /\ servicePc = "callback" => serviceCycle \in known
  /\ \A c \in Cycles :
       c < serviceCycle /\ c \notin known => clock + 1 >= StatesToMaintain + c

\* A job has one token: its first event not yet delivered, a table entry, the task
\* choosing for it, or the task replacing it.
OneToken(j) ==
  /\ active[j] = NoAttempt \/ current[j] = NoAttempt
  /\ \A t \in TasksOf(j) : Carrying(t) =>
       ~Tracked(j) /\ \A u \in TasksOf(j) : Carrying(u) => u = t
  /\ \A t \in TasksOf(j) : Replacing(t) =>
       /\ \A u \in TasksOf(j) : ~Carrying(u) /\ (Replacing(u) => u = t)
       /\ active[j].seq \in {0, t.seq} /\ current[j].seq \in {0, t.seq}
       /\ pc[t] = "cancelCurrent" => active[j] = NoAttempt
  /\ \A t \in TasksOf(j) : t.event = "JobRelayed" /\ pc[t] = "idle" =>
       ~Tracked(j) /\ \A u \in TasksOf(j) : ~Carrying(u) /\ ~Replacing(u)

TokenInv == \A j \in JobIds : OneToken(j)

\* An attempt begins after the contract reassigned the previous one.
OrderInv ==
  /\ \A j \in JobIds : \A s \in Attempts :
       reassigned[j][s] # NoGateway => s < chain[j].seq
  /\ \A t \in Task : t.event = "GatewayReassigned" /\ pc[t] # "idle" =>
       reassigned[t.job][t.seq] # NoGateway

TypeInv == TypeOK /\ HeldInv /\ WaitlistInv

\* The inductive invariant when every event is delivered once.
OneAttemptInv == TypeInv /\ TokenInv

\* The last attempt begun for a job: the highest that a task holds.
Top(j, n) ==
  (\E t \in TasksOf(j) : held[t].seq = n) /\ \A t \in TasksOf(j) : held[t].seq <= n

\* The attempt being chosen for, replaced or recorded in a table is the last one.
LastAttempt(j) ==
  /\ \A t \in TasksOf(j) : Carrying(t) \/ Replacing(t) => Top(j, held[t].seq)
  /\ active[j] # NoAttempt => Top(j, active[j].seq)
  /\ current[j] # NoAttempt => Top(j, current[j].seq)
  /\ \A t \in TasksOf(j) : t.event = "JobRelayed" /\ pc[t] = "idle" => Top(j, 0)

\* The contract announces each attempt it moves past, and without faults a mined
\* report leaves its attempt behind.
Announced ==
  \A j \in JobIds : \A s \in Attempts : s < chain[j].seq => reassigned[j][s] # NoGateway
ReportsSettled ==
  ~RpcFaults => \A t \in Task : pc[t] = "slashSubmitted" => ReportSettled(t)
ReportInv == Announced /\ ReportsSettled

\* Without panics, an entry of current_jobs has a task that watches it or reported it.
EntriesTasked ==
  \A j \in JobIds :
    NoPanics /\ current[j] # NoAttempt =>
      \E t \in TasksOf(j) : held[t] = current[j] /\ pc[t] \in ReportingPcs

\* With OneAttemptInv and BookInv: a reassigned task that has cancelled its attempt is
\* at the next one, or the job is gone.
PastAttempt(t) ==
  t.event = "GatewayReassigned" /\ pc[t] \notin {"idle", "lookup", "ignored"} \union CancellingPcs
    => IF pc[t] = "exhausted" THEN Gone(t.job) ELSE held[t].seq = t.seq + 1

\* A task that has not looked into the tables holds no attempt.
Fresh(t) == pc[t] \in {"idle", "lookup", "decode", "reread"} => held[t].seq = 0

\* With OneAttemptInv, the inductive invariant behind ImplementsBook.
BookInv == (\A j \in JobIds : LastAttempt(j)) /\ \A t \in Task : Fresh(t)

PastInv == \A t \in Task : PastAttempt(t)

\* The inductive invariant whatever is delivered.
AnyDeliveryInv ==
  TypeInv /\ WaitingIsListed /\ NoLostWakeup /\ ServiceInv /\ StrandedOnlyAtTheEdge
          /\ OrderInv /\ AttemptNotAhead /\ ReportInv /\ EntriesTasked
=============================================================================
