--------------------------- MODULE GatewayNetwork ---------------------------
(***************************************************************************)
(* Several gateways and one job: every gateway hears of the job, chooses   *)
(* the gateway that has to relay it, and either relays it or watches the   *)
(* chosen one and reports it when its timer finds no relay; a report that  *)
(* the GatewayJobs contract accepts starts the next attempt.  Gateways     *)
(* crash, events and transactions get lost, events arrive in any order.    *)
(*                                                                         *)
(* What JobLifecycle does with tasks and tables is here one record per     *)
(* gateway: the number of its attempt and its holder, as in JobBook, which *)
(* both modules implement.                                                 *)
(***************************************************************************)
EXTENDS Integers, Sequences

CONSTANTS
  Gateways,           \* the gateways of the job's cycle
  NoGateway,          \* the selection fails, or no gateway was reported
  MaxGatewayRetries,  \* MAX_GATEWAY_RETRIES
  Views,              \* the selections: what each gateway's state yields for each attempt
  Faults              \* may gateways crash, and events and calls be lost?

Attempts == 1..MaxGatewayRetries

ASSUME NetworkAssumption ==
  /\ NoGateway \notin Gateways
  /\ MaxGatewayRetries \in Nat \ {0} /\ Faults \in BOOLEAN
  /\ Views \subseteq [Gateways -> [Attempts -> Gateways \union {NoGateway}]]

VARIABLES
  chain,       \* GatewayJobs contract: attempt, status and relaying gateway
  reassigned,  \* GatewayReassigned events: attempt -> prevGateway
  view,        \* the selection of each gateway
  attempt,     \* of each gateway: the last attempt it began
  holder,      \* "choosing", "mine" (active_jobs), "watched" (current_jobs), "none"
  timers,      \* of each gateway: the attempts with a running slash timer
  queue,       \* of each gateway: the channel to its common chain sender
  seen,        \* of each gateway: the events it handled or lost
  answered,    \* the gateways that sent a response
  lost         \* history: has the gateway lost the thread of the job?

contract == <<chain, reassigned>>
book == <<attempt, holder>>
vars == <<contract, view, book, timers, queue, seen, answered, lost>>

Txn == [kind : {"relay", "reassign"}, seq : Attempts]

\* GatewayReassigned is named by the attempt it ends.
Event == [name : {"JobRelayed", "JobResponded", "JobResourceUnavailable"}, seq : {0}]
         \union [name : {"GatewayReassigned"}, seq : Attempts]
Once(name) == [name |-> name, seq |-> 0]
ReassignedEvent(s) == [name |-> "GatewayReassigned", seq |-> s]

Init ==
  /\ chain = [seq |-> 1, status |-> "open", by |-> NoGateway]
  /\ reassigned = [s \in Attempts |-> NoGateway]
  /\ view \in Views
  /\ attempt = [g \in Gateways |-> 0]
  /\ holder = [g \in Gateways |-> "none"]
  /\ timers = [g \in Gateways |-> {}]
  /\ queue = [g \in Gateways |-> <<>>]
  /\ seen = [g \in Gateways |-> {}]
  /\ answered = {}
  /\ lost = [g \in Gateways |-> FALSE]
-----------------------------------------------------------------------------
(* The handlers of events.                                                  *)

Emitted(e) ==
  \/ e.name = "JobRelayed"
  \/ e.name = "JobResponded" /\ chain.status = "responded"
  \/ e.name = "JobResourceUnavailable" /\ chain.status = "unavailable"
  \/ e.name = "GatewayReassigned" /\ reassigned[e.seq] # NoGateway

Pending(g) == {e \in Event : Emitted(e) /\ e \notin seen[g]}

See(g, e) == e \in Pending(g) /\ seen' = [seen EXCEPT ![g] = @ \union {e}]
Lose(g) == lost' = [lost EXCEPT ![g] = TRUE]
SetHolder(g, h) == holder' = [holder EXCEPT ![g] = h]

\* Slip: the entry of the attempt before stays in its table.
BeginBesides(g, s) == attempt' = [attempt EXCEPT ![g] = s] /\ UNCHANGED holder

BeginAttempt(g, s) == attempt' = [attempt EXCEPT ![g] = s] /\ SetHolder(g, "choosing")

\* The request chain announces the job.
JobRelayed(g) ==
  /\ See(g, Once("JobRelayed"))
  /\ BeginAttempt(g, 1)
  /\ UNCHANGED <<contract, view, timers, queue, answered, lost>>

\* job_relayed_handler, from the selection to the table and what follows: the
\* transaction, or the timer.
Enqueue(g, kind, s) == queue' = [queue EXCEPT ![g] = Append(@, [kind |-> kind, seq |-> s])]

ChooseSelf(g) ==
  /\ holder[g] = "choosing" /\ view[g][attempt[g]] = g
  /\ SetHolder(g, "mine")
  /\ Enqueue(g, "relay", attempt[g])
  /\ UNCHANGED <<contract, view, attempt, timers, seen, answered, lost>>

ChoosePeer(g) ==
  /\ holder[g] = "choosing" /\ view[g][attempt[g]] \in Gateways \ {g}
  /\ SetHolder(g, "watched")
  /\ timers' = [timers EXCEPT ![g] = @ \union {attempt[g]}]
  /\ UNCHANGED <<contract, view, attempt, queue, seen, answered, lost>>

ChooseNobody(g) ==
  /\ holder[g] = "choosing" /\ view[g][attempt[g]] = NoGateway
  /\ SetHolder(g, "none") /\ Lose(g)
  /\ UNCHANGED <<contract, view, attempt, timers, queue, seen, answered>>

\* gateway_reassigned_handler: the event's gateway names the table, and the attempt
\* found there has to be the event's.
HasAttempt(g, s) ==
  /\ holder[g] = IF reassigned[s] = g THEN "mine" ELSE "watched"
  /\ attempt[g] = s

\* Slip: one retry too few.
RetriesLess(s) == s + 1 < MaxGatewayRetries

MayRetry(s) == s < MaxGatewayRetries

GatewayReassigned(g, s) ==
  /\ See(g, ReassignedEvent(s))
  /\ IF HasAttempt(g, s)
     THEN /\ IF MayRetry(s) THEN BeginAttempt(g, s + 1)
             ELSE SetHolder(g, "none") /\ UNCHANGED attempt
          /\ UNCHANGED lost
     ELSE Lose(g) /\ UNCHANGED book
  /\ UNCHANGED <<contract, view, timers, queue, answered>>

\* Slip: a job of either table is answered.
AnswersTracked(g) == holder[g] \in {"mine", "watched"}

\* job_responded_handler: only a job of active_jobs is answered, and then removed.
Answers(g) == holder[g] = "mine"

JobResponded(g) ==
  /\ See(g, Once("JobResponded"))
  /\ IF Answers(g) THEN SetHolder(g, "none") /\ answered' = answered \union {g}
     ELSE UNCHANGED <<holder, answered>>
  /\ UNCHANGED <<contract, view, attempt, timers, queue, lost>>

\* Slip: the job is looked for among the watched ones only.
InOneTable(g) == holder[g] = "watched"

InTable(g) == holder[g] \in {"mine", "watched"}

\* job_resource_unavailable_handler: a job that is still being chosen for stays.
JobResourceUnavailable(g) ==
  /\ See(g, Once("JobResourceUnavailable"))
  /\ IF InTable(g) THEN SetHolder(g, "none") ELSE UNCHANGED holder
  /\ UNCHANGED <<contract, view, attempt, timers, queue, answered, lost>>
-----------------------------------------------------------------------------
(* job_relayed_slash_timer and the common chain sender.                     *)

RelayedBy(g) == chain.status \in {"relayed", "responded"} /\ chain.by = g

StopTimer(g, s) == s \in timers[g] /\ timers' = [timers EXCEPT ![g] = @ \ {s}]

\* The entry that is removed is whatever the table holds for the job.
Untrack(g, s) ==
  /\ StopTimer(g, s) /\ RelayedBy(view[g][s])
  /\ IF holder[g] = "watched" THEN SetHolder(g, "none") ELSE UNCHANGED holder
  /\ UNCHANGED <<contract, view, attempt, queue, seen, answered, lost>>

Report(g, s) ==
  /\ StopTimer(g, s) /\ ~RelayedBy(view[g][s])
  /\ Enqueue(g, "reassign", s)
  /\ UNCHANGED <<contract, view, book, seen, answered, lost>>

\* relayJob and reassignGatewayRelay count only for the contract's own attempt of a
\* job that is not relayed yet.
Accepts(txn) == chain.status = "open" /\ chain.seq = txn.seq

Relay(g) ==
  /\ \E status \in {"relayed", "unavailable"} :
       chain' = [chain EXCEPT !.status = status, !.by = g]
  /\ UNCHANGED reassigned

Reassign(g, s) ==
  /\ chain' = [chain EXCEPT !.seq = s + 1]
  /\ reassigned' = [reassigned EXCEPT ![s] = view[g][s]]

Mine(g, txn) ==
  IF ~Accepts(txn) THEN UNCHANGED contract
  ELSE IF txn.kind = "relay" THEN Relay(g) ELSE Reassign(g, txn.seq)

\* One message at a time, in order.
SendTxn(g) ==
  /\ queue[g] # <<>>
  /\ Mine(g, Head(queue[g]))
  /\ queue' = [queue EXCEPT ![g] = Tail(@)]
  /\ UNCHANGED <<view, book, timers, seen, answered, lost>>
-----------------------------------------------------------------------------
(* What goes wrong.                                                         *)

\* All state is in memory, and past events are not asked for again.
Crash(g) ==
  /\ SetHolder(g, "none") /\ Lose(g)
  /\ timers' = [timers EXCEPT ![g] = {}]
  /\ queue' = [queue EXCEPT ![g] = <<>>]
  /\ UNCHANGED <<contract, view, attempt, seen, answered>>

\* The websocket was down when the event was emitted.
LoseEvent(g) ==
  /\ \E e \in Pending(g) : See(g, e)
  /\ Lose(g)
  /\ UNCHANGED <<contract, view, book, timers, queue, answered>>

\* The transaction fails: neither sender tries again.
LoseTxn(g) ==
  /\ queue[g] # <<>>
  /\ queue' = [queue EXCEPT ![g] = Tail(@)] /\ Lose(g)
  /\ UNCHANGED <<contract, view, book, timers, seen, answered>>

\* get_logs fails and the timer's task panics.
LoseTimer(g) ==
  /\ \E s \in timers[g] : StopTimer(g, s)
  /\ Lose(g)
  /\ UNCHANGED <<contract, view, book, queue, seen, answered>>

Fault(g) == Faults /\ (Crash(g) \/ LoseEvent(g) \/ LoseTxn(g) \/ LoseTimer(g))

ExecutorsRespond ==
  /\ chain.status = "relayed"
  /\ chain' = [chain EXCEPT !.status = "responded"]
  /\ UNCHANGED <<reassigned, view, book, timers, queue, seen, answered, lost>>
-----------------------------------------------------------------------------
GatewayStep(g) ==
  \/ JobRelayed(g) \/ JobResponded(g) \/ JobResourceUnavailable(g)
  \/ ChooseSelf(g) \/ ChoosePeer(g) \/ ChooseNobody(g)
  \/ \E s \in Attempts : GatewayReassigned(g, s) \/ Untrack(g, s) \/ Report(g, s)
  \/ SendTxn(g)

Next == ExecutorsRespond \/ \E g \in Gateways : GatewayStep(g) \/ Fault(g)

Spec == Init /\ [][Next]_vars

\* A gateway that runs handles every event that is not lost and every timer, and its
\* sender goes on.
FairSpec == Spec /\ \A g \in Gateways : WF_vars(GatewayStep(g))
-----------------------------------------------------------------------------
(* Properties.                                                              *)

TypeOK ==
  /\ chain \in [seq : 1..(MaxGatewayRetries + 1),
                status : {"open", "relayed", "responded", "unavailable"},
                by : Gateways \union {NoGateway}]
  /\ reassigned \in [Attempts -> Gateways \union {NoGateway}]
  /\ view \in [Gateways -> [Attempts -> Gateways \union {NoGateway}]]
  /\ attempt \in [Gateways -> 0..MaxGatewayRetries]
  /\ holder \in [Gateways -> {"choosing", "mine", "watched", "none"}]
  /\ timers \in [Gateways -> SUBSET Attempts]
  /\ queue \in [Gateways -> Seq(Txn)]
  /\ seen \in [Gateways -> SUBSET Event]
  /\ answered \subseteq Gateways
  /\ lost \in [Gateways -> BOOLEAN]

\* One gateway that never loses the thread is enough, whatever happens to the others,
\* the chosen ones included, and even if they select differently: the job is relayed,
\* found unavailable, or out of retries.
Over == chain.status # "open" \/ chain.seq > MaxGatewayRetries
JobSettles == (\E g \in Gateways : []~lost[g]) => <>Over

\* A gateway answers a job that another one relayed only while it has not handled, or
\* has lost, the GatewayReassigned event of its own attempt, or if the two of them
\* select differently (get_job_from_job_responded_event asks only active_jobs).
Behind(g) ==
  lost[g] \/ \E s \in Attempts : reassigned[s] # NoGateway /\ ReassignedEvent(s) \notin seen[g]
AnswersItsOwn ==
  [][\A g \in answered' \ answered :
       chain.by = g \/ Behind(g) \/ view[g] # view[chain.by]]_vars

\* When nothing is left to do, a gateway that lost nothing keeps the job among its own
\* only as long as its relay waits for the executors: a relay that failed or came too
\* late leaves nothing behind in active_jobs, unless gateways select differently.
Quiet(g) ==
  /\ Pending(g) = {} /\ holder[g] # "choosing" /\ timers[g] = {} /\ queue[g] = <<>>
NothingLeft ==
  \A g \in Gateways :
    Quiet(g) /\ ~lost[g] /\ holder[g] = "mine" /\ (\A h \in Gateways : view[h] = view[g]) =>
      chain.status = "relayed" /\ chain.by = g

\* Each gateway keeps the record of one attempt at a time, as JobLifecycle does with
\* its tasks and tables: a JobBook with a page for each gateway.
Book == INSTANCE JobBook WITH JobIds <- Gateways
ImplementsBooks == Book!Spec
=============================================================================
