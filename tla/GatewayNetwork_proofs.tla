------------------------ MODULE GatewayNetwork_proofs ------------------------
(***************************************************************************)
(* Proofs about GatewayNetwork, for any number of gateways and retries,    *)
(* whatever each gateway selects and whatever fails.                       *)
(***************************************************************************)
EXTENDS GatewayNetwork, TLAPS

\* An attempt is over on the chain exactly when its event was emitted.
EventInv == \A s \in Attempts : reassigned[s] # NoGateway <=> s < chain.seq

\* A job that left "open" was relayed by a gateway that selected itself for the
\* contract's attempt, and whose record is at that attempt.
RelayInv ==
  chain.status # "open" =>
    /\ chain.by \in Gateways /\ chain.seq \in Attempts
    /\ view[chain.by][chain.seq] = chain.by
    /\ attempt[chain.by] = chain.seq /\ holder[chain.by] # "choosing"

\* What a gateway keeps agrees with its selection, and is not ahead of the chain.
PlanInv ==
  \A g \in Gateways :
    /\ Once("JobRelayed") \notin seen[g] => attempt[g] = 0 /\ holder[g] = "none"
    /\ holder[g] # "none" => attempt[g] \in Attempts
    /\ holder[g] = "mine" => view[g][attempt[g]] = g
    /\ \A s \in timers[g] : view[g][s] \in Gateways
    /\ attempt[g] <= chain.seq

\* So does what it is about to send.
SoundTxn(g, txn) ==
  /\ txn.kind = "reassign" => view[g][txn.seq] \in Gateways
  /\ txn.kind = "relay" =>
       /\ view[g][txn.seq] = g /\ txn.seq <= attempt[g]
       /\ txn.seq = attempt[g] => holder[g] # "choosing"
QueueInv == \A g \in Gateways : \A i \in 1..Len(queue[g]) : SoundTxn(g, queue[g][i])

\* An event of the end of a job is seen only after it.
Ends(g) == Once("JobResponded") \in seen[g] \/ Once("JobResourceUnavailable") \in seen[g]
EndInv == \A g \in Gateways : Ends(g) => chain.status # "open"

\* A gateway that never lost the thread is past each attempt it saw reassigned.
ThreadInv ==
  \A g \in Gateways : \A s \in Attempts :
    ~lost[g] /\ ReassignedEvent(s) \in seen[g] =>
      /\ Once("JobRelayed") \in seen[g]
      /\ holder[g] = "none" \/ attempt[g] > s

\* Its own attempt is still to be sent, or the chain has moved on.
HasTxn(g, kind, s) ==
  \E i \in 1..Len(queue[g]) : queue[g][i].kind = kind /\ queue[g][i].seq = s
SentInv ==
  \A g \in Gateways :
    ~lost[g] /\ holder[g] = "mine" =>
      HasTxn(g, "relay", attempt[g]) \/ chain.seq > attempt[g] \/ chain.status # "open"

\* If all select alike, its own attempt does not outlive the end of the job.
Alike(g) == \A h \in Gateways : view[h] = view[g]
OwnInv ==
  \A g \in Gateways :
    ~lost[g] /\ holder[g] = "mine" /\ Alike(g) /\ Ends(g) => attempt[g] < chain.seq

IInv ==
  /\ TypeOK /\ EventInv /\ RelayInv /\ PlanInv /\ QueueInv /\ EndInv
  /\ ThreadInv /\ SentInv /\ OwnInv
-----------------------------------------------------------------------------
LEMMA InitInv == Init => IInv
<1>. SUFFICES ASSUME Init PROVE IInv
  OBVIOUS
<1>. USE NetworkAssumption DEF Init, Attempts
<1>1. TypeOK
  BY DEF TypeOK
<1>2. EventInv /\ RelayInv /\ PlanInv
  BY DEF EventInv, RelayInv, PlanInv
<1>3. QueueInv /\ EndInv /\ ThreadInv
  BY DEF QueueInv, EndInv, Ends, ThreadInv
<1>4. SentInv /\ OwnInv
  BY DEF SentInv, OwnInv
<1>. QED
  BY <1>1, <1>2, <1>3, <1>4 DEF IInv


\* Every step keeps the types.
LEMMA TypeOKStep ==
  ASSUME TypeOK, PlanInv, [Next]_vars
  PROVE  TypeOK'
<1>. USE NetworkAssumption
<1>1. ASSUME NEW g \in Gateways, JobRelayed(g) PROVE TypeOK'
  BY <1>1 DEF JobRelayed, See, Pending, Event, BeginAttempt, SetHolder, Attempts,
    contract, book, TypeOK
<1>2. ASSUME NEW g \in Gateways, JobResponded(g) PROVE TypeOK'
  <2>1. seen' \in [Gateways -> SUBSET Event]
    BY <1>2 DEF JobResponded, See, Pending, TypeOK
  <2>2. holder' \in [Gateways -> {"choosing", "mine", "watched", "none"}]
    BY <1>2 DEF JobResponded, SetHolder, TypeOK
  <2>3. answered' \subseteq Gateways
    BY <1>2 DEF JobResponded, TypeOK
  <2>. QED
    BY <1>2, <2>1, <2>2, <2>3 DEF JobResponded, contract, TypeOK
<1>3. ASSUME NEW g \in Gateways, JobResourceUnavailable(g) PROVE TypeOK'
  BY <1>3 DEF JobResourceUnavailable, See, Pending, SetHolder, InTable, contract, book,
    TypeOK
<1>4. ASSUME NEW g \in Gateways, ChooseSelf(g) PROVE TypeOK'
  <2>1. attempt[g] \in Attempts /\ [kind |-> "relay", seq |-> attempt[g]] \in Txn
    BY <1>4 DEF ChooseSelf, PlanInv, Txn
  <2>2. queue' \in [Gateways -> Seq(Txn)]
    BY <1>4, <2>1 DEF ChooseSelf, Enqueue, TypeOK
  <2>. QED
    BY <1>4, <2>2 DEF ChooseSelf, SetHolder, contract, TypeOK
<1>5. ASSUME NEW g \in Gateways, ChoosePeer(g) PROVE TypeOK'
  <2>1. attempt[g] \in Attempts
    BY <1>5 DEF ChoosePeer, PlanInv
  <2>. QED
    BY <1>5, <2>1 DEF ChoosePeer, SetHolder, contract, TypeOK
<1>6. ASSUME NEW g \in Gateways, ChooseNobody(g) PROVE TypeOK'
  BY <1>6 DEF ChooseNobody, SetHolder, Lose, contract, book, TypeOK
<1>7. ASSUME NEW g \in Gateways, NEW s \in Attempts, GatewayReassigned(g, s) PROVE TypeOK'
  <2>1. attempt' \in [Gateways -> 0..MaxGatewayRetries]
    BY <1>7 DEF GatewayReassigned, MayRetry, BeginAttempt, Attempts, book, TypeOK
  <2>2. holder' \in [Gateways -> {"choosing", "mine", "watched", "none"}]
    BY <1>7 DEF GatewayReassigned, BeginAttempt, SetHolder, book, TypeOK
  <2>3. seen' \in [Gateways -> SUBSET Event] /\ lost' \in [Gateways -> BOOLEAN]
    BY <1>7 DEF GatewayReassigned, See, Pending, Lose, TypeOK
  <2>. QED
    BY <1>7, <2>1, <2>2, <2>3 DEF GatewayReassigned, contract, TypeOK
<1>8. ASSUME NEW g \in Gateways, NEW s \in Attempts, Untrack(g, s) PROVE TypeOK'
  BY <1>8 DEF Untrack, StopTimer, SetHolder, contract, book, TypeOK
<1>9. ASSUME NEW g \in Gateways, NEW s \in Attempts, Report(g, s) PROVE TypeOK'
  <2>1. [kind |-> "reassign", seq |-> s] \in Txn
    BY DEF Txn
  <2>2. queue' \in [Gateways -> Seq(Txn)]
    BY <1>9, <2>1 DEF Report, Enqueue, TypeOK
  <2>. QED
    BY <1>9, <2>2 DEF Report, StopTimer, contract, book, TypeOK
<1>10. ASSUME NEW g \in Gateways, SendTxn(g) PROVE TypeOK'
  <2>1. Head(queue[g]) \in Txn /\ Tail(queue[g]) \in Seq(Txn)
    BY <1>10 DEF SendTxn, TypeOK
  <2>2. queue' \in [Gateways -> Seq(Txn)]
    BY <1>10, <2>1 DEF SendTxn, TypeOK
  <2>3. chain' \in [seq : 1..(MaxGatewayRetries + 1),
                     status : {"open", "relayed", "responded", "unavailable"},
                     by : Gateways \union {NoGateway}]
    <3>1. CASE chain' = chain
      BY <3>1 DEF TypeOK
    <3>2. CASE Relay(g)
      BY <3>2 DEF Relay, TypeOK
    <3>3. CASE Reassign(g, Head(queue[g]).seq)
      <4>1. Head(queue[g]).seq + 1 \in 1..(MaxGatewayRetries + 1)
        BY <2>1 DEF Txn, Attempts
      <4>. QED
        BY <3>3, <4>1 DEF Reassign, TypeOK
    <3>. QED
      BY <1>10, <3>1, <3>2, <3>3 DEF SendTxn, Mine, contract
  <2>4. reassigned' \in [Attempts -> Gateways \union {NoGateway}]
    <3>1. CASE reassigned' = reassigned
      BY <3>1 DEF TypeOK
    <3>2. CASE Reassign(g, Head(queue[g]).seq)
      <4>1. view[g][Head(queue[g]).seq] \in Gateways \union {NoGateway}
        BY <2>1 DEF Txn, TypeOK
      <4>. QED
        BY <3>2, <4>1 DEF Reassign, TypeOK
    <3>. QED
      BY <1>10, <3>1, <3>2 DEF SendTxn, Mine, Relay, contract
  <2>. QED
    BY <1>10, <2>2, <2>3, <2>4 DEF SendTxn, book, TypeOK
<1>11. ASSUME NEW g \in Gateways, Crash(g) PROVE TypeOK'
  BY <1>11 DEF Crash, SetHolder, Lose, contract, book, TypeOK
<1>12. ASSUME NEW g \in Gateways, LoseEvent(g) PROVE TypeOK'
  BY <1>12 DEF LoseEvent, See, Pending, Lose, contract, book, TypeOK
<1>13. ASSUME NEW g \in Gateways, LoseTxn(g) PROVE TypeOK'
  <2>1. Tail(queue[g]) \in Seq(Txn)
    BY <1>13 DEF LoseTxn, TypeOK
  <2>. QED
    BY <1>13, <2>1 DEF LoseTxn, Lose, contract, book, TypeOK
<1>14. ASSUME NEW g \in Gateways, LoseTimer(g) PROVE TypeOK'
  BY <1>14 DEF LoseTimer, StopTimer, Lose, contract, book, TypeOK
<1>15. ASSUME ExecutorsRespond PROVE TypeOK'
  BY <1>15 DEF ExecutorsRespond, contract, book, TypeOK
<1>16. CASE UNCHANGED vars
  BY <1>16 DEF vars, contract, book, TypeOK
<1>. QED
  BY <1>1, <1>2, <1>3, <1>4, <1>5, <1>6, <1>7, <1>8, <1>9, <1>10, <1>11, <1>12, <1>13,
    <1>14, <1>15, <1>16 DEF Next, GatewayStep, Fault

\* Only an accepted report moves the chain on, and it emits its event.
LEMMA EventInvStep ==
  ASSUME TypeOK, QueueInv, EventInv, [Next]_vars
  PROVE  EventInv'
<1>. USE NetworkAssumption DEF Attempts
<1>1. ASSUME NEW g \in Gateways, JobRelayed(g) PROVE EventInv'
  BY <1>1 DEF JobRelayed, See, Pending, Event, BeginAttempt, SetHolder, Attempts,
    contract, book, EventInv
<1>2. ASSUME NEW g \in Gateways, JobResponded(g) PROVE EventInv'
  BY <1>2 DEF JobResponded, See, Pending, SetHolder, Answers, contract, book, EventInv
<1>3. ASSUME NEW g \in Gateways, JobResourceUnavailable(g) PROVE EventInv'
  BY <1>3 DEF JobResourceUnavailable, See, Pending, SetHolder, InTable, contract, book,
    EventInv
<1>4. ASSUME NEW g \in Gateways, ChooseSelf(g) PROVE EventInv'
  BY <1>4 DEF ChooseSelf, SetHolder, Enqueue, contract, book, EventInv
<1>5. ASSUME NEW g \in Gateways, ChoosePeer(g) PROVE EventInv'
  BY <1>5 DEF ChoosePeer, SetHolder, contract, book, EventInv
<1>6. ASSUME NEW g \in Gateways, ChooseNobody(g) PROVE EventInv'
  BY <1>6 DEF ChooseNobody, SetHolder, Lose, contract, book, EventInv
<1>7. ASSUME NEW g \in Gateways, NEW s \in Attempts, GatewayReassigned(g, s) PROVE EventInv'
  BY <1>7 DEF GatewayReassigned, See, Pending, HasAttempt, MayRetry, BeginAttempt,
    SetHolder, Lose, contract, book, EventInv
<1>8. ASSUME NEW g \in Gateways, NEW s \in Attempts, Untrack(g, s) PROVE EventInv'
  BY <1>8 DEF Untrack, StopTimer, SetHolder, contract, book, EventInv
<1>9. ASSUME NEW g \in Gateways, NEW s \in Attempts, Report(g, s) PROVE EventInv'
  BY <1>9 DEF Report, StopTimer, Enqueue, contract, book, EventInv
<1>10. ASSUME NEW g \in Gateways, SendTxn(g) PROVE EventInv'
  <2>1. Head(queue[g]) = queue[g][1] /\ 1 \in 1..Len(queue[g]) /\ queue[g][1] \in Txn
    BY <1>10 DEF SendTxn, TypeOK
  <2>2. SoundTxn(g, queue[g][1]) /\ queue[g][1].seq \in Attempts
    BY <2>1 DEF QueueInv, Txn
  <2>3. CASE Reassign(g, queue[g][1].seq) /\ Accepts(queue[g][1])
                /\ queue[g][1].kind = "reassign"
    BY <2>1, <2>2, <2>3 DEF Reassign, Accepts, SoundTxn, EventInv, TypeOK
  <2>4. CASE Relay(g)
    BY <2>4 DEF Relay, EventInv, TypeOK
  <2>5. CASE UNCHANGED contract
    BY <2>5 DEF contract, EventInv
  <2>. QED
    BY <1>10, <2>1, <2>2, <2>3, <2>4, <2>5 DEF SendTxn, Mine, Txn
<1>11. ASSUME NEW g \in Gateways, Crash(g) PROVE EventInv'
  BY <1>11 DEF Crash, SetHolder, Lose, contract, book, EventInv
<1>12. ASSUME NEW g \in Gateways, LoseEvent(g) PROVE EventInv'
  BY <1>12 DEF LoseEvent, See, Pending, Lose, contract, book, EventInv
<1>13. ASSUME NEW g \in Gateways, LoseTxn(g) PROVE EventInv'
  BY <1>13 DEF LoseTxn, Lose, contract, book, EventInv
<1>14. ASSUME NEW g \in Gateways, LoseTimer(g) PROVE EventInv'
  BY <1>14 DEF LoseTimer, StopTimer, Lose, contract, book, EventInv
<1>15. ASSUME ExecutorsRespond PROVE EventInv'
  BY <1>15 DEF ExecutorsRespond, EventInv, TypeOK
<1>16. CASE UNCHANGED vars
  BY <1>16 DEF vars, contract, book, EventInv
<1>. QED
  BY <1>1, <1>2, <1>3, <1>4, <1>5, <1>6, <1>7, <1>8, <1>9, <1>10, <1>11, <1>12, <1>13,
    <1>14, <1>15, <1>16 DEF Next, GatewayStep, Fault

\* The gateway that relayed an attempt begins no other one.
LEMMA RelayInvStep ==
  ASSUME TypeOK, EventInv, PlanInv, QueueInv, RelayInv, [Next]_vars
  PROVE  RelayInv'
<1>. USE NetworkAssumption DEF Attempts
<1>1. ASSUME NEW g \in Gateways, JobRelayed(g) PROVE RelayInv'
  BY <1>1 DEF JobRelayed, See, Pending, BeginAttempt, SetHolder, contract, RelayInv,
    PlanInv, TypeOK
<1>2. ASSUME NEW g \in Gateways, JobResponded(g) PROVE RelayInv'
  BY <1>2 DEF JobResponded, See, Pending, SetHolder, Answers, contract, book, RelayInv,
    TypeOK
<1>3. ASSUME NEW g \in Gateways, JobResourceUnavailable(g) PROVE RelayInv'
  BY <1>3 DEF JobResourceUnavailable, See, Pending, SetHolder, InTable, contract, book,
    RelayInv, TypeOK
<1>4. ASSUME NEW g \in Gateways, ChooseSelf(g) PROVE RelayInv'
  BY <1>4 DEF ChooseSelf, SetHolder, Enqueue, contract, book, RelayInv, TypeOK
<1>5. ASSUME NEW g \in Gateways, ChoosePeer(g) PROVE RelayInv'
  BY <1>5 DEF ChoosePeer, SetHolder, contract, book, RelayInv, TypeOK
<1>6. ASSUME NEW g \in Gateways, ChooseNobody(g) PROVE RelayInv'
  BY <1>6 DEF ChooseNobody, SetHolder, Lose, contract, book, RelayInv, TypeOK
<1>7. ASSUME NEW g \in Gateways, NEW s \in Attempts, GatewayReassigned(g, s) PROVE RelayInv'
  <2>1. reassigned[s] # NoGateway
    BY <1>7 DEF GatewayReassigned, See, Pending, Emitted, ReassignedEvent
  <2>2. s < chain.seq
    BY <2>1 DEF EventInv
  <2>3. CASE HasAttempt(g, s)
    <3>1. attempt[g] = s
      BY <2>3 DEF HasAttempt
    <3>2. \A h \in Gateways \ {g} : attempt'[h] = attempt[h] /\ holder'[h] = holder[h]
      BY <1>7, <2>3 DEF GatewayReassigned, BeginAttempt, SetHolder, TypeOK
    <3>. QED
      BY <1>7, <2>2, <3>1, <3>2 DEF GatewayReassigned, contract, RelayInv, TypeOK
  <2>4. CASE UNCHANGED book
    BY <1>7, <2>4 DEF GatewayReassigned, contract, book, RelayInv
  <2>. QED
    BY <1>7, <2>3, <2>4 DEF GatewayReassigned
<1>8. ASSUME NEW g \in Gateways, NEW s \in Attempts, Untrack(g, s) PROVE RelayInv'
  BY <1>8 DEF Untrack, StopTimer, SetHolder, contract, book, RelayInv, TypeOK
<1>9. ASSUME NEW g \in Gateways, NEW s \in Attempts, Report(g, s) PROVE RelayInv'
  BY <1>9 DEF Report, StopTimer, Enqueue, contract, book, RelayInv, TypeOK
<1>10. ASSUME NEW g \in Gateways, SendTxn(g) PROVE RelayInv'
  <2>1. Head(queue[g]) = queue[g][1] /\ 1 \in 1..Len(queue[g]) /\ queue[g][1] \in Txn
    BY <1>10 DEF SendTxn, TypeOK
  <2>2. SoundTxn(g, queue[g][1]) /\ queue[g][1].seq \in Attempts
    BY <2>1 DEF QueueInv, Txn
  <2>3. CASE Relay(g) /\ Accepts(queue[g][1]) /\ queue[g][1].kind = "relay"
    <3>1. queue[g][1].seq = attempt[g] /\ chain.seq = attempt[g]
      BY <2>2, <2>3 DEF Accepts, SoundTxn, PlanInv, TypeOK
    <3>. QED
      BY <1>10, <2>2, <2>3, <3>1 DEF SendTxn, Relay, SoundTxn, book, RelayInv, TypeOK
  <2>4. CASE Reassign(g, queue[g][1].seq) /\ Accepts(queue[g][1])
    BY <2>4 DEF Reassign, Accepts, RelayInv, TypeOK
  <2>5. CASE UNCHANGED contract
    BY <1>10, <2>5 DEF SendTxn, contract, book, RelayInv
  <2>. QED
    BY <1>10, <2>1, <2>2, <2>3, <2>4, <2>5 DEF SendTxn, Mine, Txn
<1>11. ASSUME NEW g \in Gateways, Crash(g) PROVE RelayInv'
  BY <1>11 DEF Crash, SetHolder, Lose, contract, book, RelayInv, TypeOK
<1>12. ASSUME NEW g \in Gateways, LoseEvent(g) PROVE RelayInv'
  BY <1>12 DEF LoseEvent, See, Pending, Lose, contract, book, RelayInv, TypeOK
<1>13. ASSUME NEW g \in Gateways, LoseTxn(g) PROVE RelayInv'
  BY <1>13 DEF LoseTxn, Lose, contract, book, RelayInv, TypeOK
<1>14. ASSUME NEW g \in Gateways, LoseTimer(g) PROVE RelayInv'
  BY <1>14 DEF LoseTimer, StopTimer, Lose, contract, book, RelayInv, TypeOK
<1>15. ASSUME ExecutorsRespond PROVE RelayInv'
  BY <1>15 DEF ExecutorsRespond, contract, book, RelayInv, TypeOK
<1>16. CASE UNCHANGED vars
  BY <1>16 DEF vars, contract, book, RelayInv, TypeOK
<1>. QED
  BY <1>1, <1>2, <1>3, <1>4, <1>5, <1>6, <1>7, <1>8, <1>9, <1>10, <1>11, <1>12, <1>13,
    <1>14, <1>15, <1>16 DEF Next, GatewayStep, Fault

\* A record follows its gateway's selection.
LEMMA PlanInvStep ==
  ASSUME TypeOK, EventInv, PlanInv, QueueInv, [Next]_vars
  PROVE  PlanInv'
<1>. USE NetworkAssumption DEF Attempts
<1>1. ASSUME NEW g \in Gateways, JobRelayed(g) PROVE PlanInv'
  BY <1>1 DEF JobRelayed, See, Pending, Event, BeginAttempt, SetHolder, Attempts,
    contract, book, PlanInv, TypeOK
<1>2. ASSUME NEW g \in Gateways, JobResponded(g) PROVE PlanInv'
  BY <1>2 DEF JobResponded, See, Pending, SetHolder, Answers, contract, book, PlanInv,
    TypeOK
<1>3. ASSUME NEW g \in Gateways, JobResourceUnavailable(g) PROVE PlanInv'
  BY <1>3 DEF JobResourceUnavailable, See, Pending, SetHolder, InTable, contract, book,
    PlanInv, TypeOK
<1>4. ASSUME NEW g \in Gateways, ChooseSelf(g) PROVE PlanInv'
  BY <1>4 DEF ChooseSelf, SetHolder, Enqueue, contract, book, PlanInv, TypeOK
<1>5. ASSUME NEW g \in Gateways, ChoosePeer(g) PROVE PlanInv'
  BY <1>5 DEF ChoosePeer, SetHolder, contract, book, PlanInv, TypeOK
<1>6. ASSUME NEW g \in Gateways, ChooseNobody(g) PROVE PlanInv'
  BY <1>6 DEF ChooseNobody, SetHolder, Lose, contract, book, PlanInv, TypeOK
<1>7. ASSUME NEW g \in Gateways, NEW s \in Attempts, GatewayReassigned(g, s) PROVE PlanInv'
  <2>1. reassigned[s] # NoGateway
    BY <1>7 DEF GatewayReassigned, See, Pending, Emitted, ReassignedEvent
  <2>2. s < chain.seq
    BY <2>1 DEF EventInv
  <2>3. Once("JobRelayed") \notin seen'[g] => Once("JobRelayed") \notin seen[g]
    BY <1>7 DEF GatewayReassigned, See, TypeOK
  <2>4. \A h \in Gateways \ {g} : seen'[h] = seen[h]
    BY <1>7 DEF GatewayReassigned, See, TypeOK
  <2>5. CASE HasAttempt(g, s)
    <3>1. Once("JobRelayed") \in seen[g] /\ attempt[g] = s
      BY <2>5 DEF HasAttempt, PlanInv
    <3>2. CASE MayRetry(s)
      BY <1>7, <2>2, <2>3, <2>4, <2>5, <3>1, <3>2
      DEF GatewayReassigned, MayRetry, BeginAttempt, SetHolder, contract, PlanInv, TypeOK
    <3>3. CASE ~MayRetry(s)
      BY <1>7, <2>2, <2>3, <2>4, <2>5, <3>1, <3>3
      DEF GatewayReassigned, SetHolder, contract, PlanInv, TypeOK
    <3>. QED
      BY <3>2, <3>3
  <2>6. CASE ~HasAttempt(g, s)
    BY <1>7, <2>3, <2>4, <2>6 DEF GatewayReassigned, contract, book, PlanInv, TypeOK
  <2>. QED
    BY <2>5, <2>6
<1>8. ASSUME NEW g \in Gateways, NEW s \in Attempts, Untrack(g, s) PROVE PlanInv'
  <2>1. \A h \in Gateways : holder'[h] = holder[h] \/ holder'[h] = "none"
    BY <1>8 DEF Untrack, SetHolder, TypeOK
  <2>2. \A h \in Gateways : timers'[h] \subseteq timers[h]
    BY <1>8 DEF Untrack, StopTimer, TypeOK
  <2>. QED
    BY <1>8, <2>1, <2>2 DEF Untrack, contract, PlanInv
<1>9. ASSUME NEW g \in Gateways, NEW s \in Attempts, Report(g, s) PROVE PlanInv'
  BY <1>9 DEF Report, StopTimer, Enqueue, contract, book, PlanInv, TypeOK
<1>10. ASSUME NEW g \in Gateways, SendTxn(g) PROVE PlanInv'
  <2>1. Head(queue[g]) = queue[g][1] /\ 1 \in 1..Len(queue[g]) /\ queue[g][1] \in Txn
    BY <1>10 DEF SendTxn, TypeOK
  <2>2. SoundTxn(g, queue[g][1]) /\ queue[g][1].seq \in Attempts
    BY <2>1 DEF QueueInv, Txn
  <2>3. chain'.seq \in Nat /\ chain'.seq >= chain.seq
    <3>1. CASE Relay(g)
      BY <3>1 DEF Relay, TypeOK
    <3>2. CASE Reassign(g, queue[g][1].seq) /\ Accepts(queue[g][1])
      BY <3>2 DEF Reassign, Accepts, TypeOK
    <3>3. CASE UNCHANGED contract
      BY <3>3 DEF contract, TypeOK
    <3>. QED
      BY <1>10, <2>1, <3>1, <3>2, <3>3 DEF SendTxn, Mine
  <2>. QED
    BY <1>10, <2>3 DEF SendTxn, book, PlanInv, TypeOK
<1>11. ASSUME NEW g \in Gateways, Crash(g) PROVE PlanInv'
  BY <1>11 DEF Crash, SetHolder, Lose, contract, book, PlanInv, TypeOK
<1>12. ASSUME NEW g \in Gateways, LoseEvent(g) PROVE PlanInv'
  BY <1>12 DEF LoseEvent, See, Pending, Lose, contract, book, PlanInv, TypeOK
<1>13. ASSUME NEW g \in Gateways, LoseTxn(g) PROVE PlanInv'
  BY <1>13 DEF LoseTxn, Lose, contract, book, PlanInv, TypeOK
<1>14. ASSUME NEW g \in Gateways, LoseTimer(g) PROVE PlanInv'
  BY <1>14 DEF LoseTimer, StopTimer, Lose, contract, book, PlanInv, TypeOK
<1>15. ASSUME ExecutorsRespond PROVE PlanInv'
  BY <1>15 DEF ExecutorsRespond, contract, book, PlanInv, TypeOK
<1>16. CASE UNCHANGED vars
  BY <1>16 DEF vars, contract, book, PlanInv, TypeOK
<1>. QED
  BY <1>1, <1>2, <1>3, <1>4, <1>5, <1>6, <1>7, <1>8, <1>9, <1>10, <1>11, <1>12, <1>13,
    <1>14, <1>15, <1>16 DEF Next, GatewayStep, Fault

\* A transaction that was sound when it was sent to the channel stays sound.
LEMMA QueueInvStep ==
  ASSUME TypeOK, EventInv, PlanInv, QueueInv, [Next]_vars
  PROVE  QueueInv'
<1>. USE NetworkAssumption DEF Attempts
<1>1. ASSUME NEW g \in Gateways, JobRelayed(g) PROVE QueueInv'
  <2>1. \A h \in Gateways : \A txn \in Txn : SoundTxn(h, txn) => SoundTxn(h, txn)'
    BY <1>1 DEF JobRelayed, See, Pending, BeginAttempt, SetHolder, PlanInv, Txn,
      SoundTxn, book, TypeOK
  <2>. QED
    BY <1>1, <2>1 DEF JobRelayed, QueueInv, TypeOK
<1>2. ASSUME NEW g \in Gateways, JobResponded(g) PROVE QueueInv'
  <2>1. \A h \in Gateways : \A txn \in Txn : SoundTxn(h, txn) => SoundTxn(h, txn)'
    BY <1>2 DEF JobResponded, SetHolder, Answers, SoundTxn, book, TypeOK
  <2>. QED
    BY <1>2, <2>1 DEF JobResponded, QueueInv, TypeOK
<1>3. ASSUME NEW g \in Gateways, JobResourceUnavailable(g) PROVE QueueInv'
  <2>1. \A h \in Gateways : \A txn \in Txn : SoundTxn(h, txn) => SoundTxn(h, txn)'
    BY <1>3 DEF JobResourceUnavailable, SetHolder, SoundTxn, book, TypeOK
  <2>. QED
    BY <1>3, <2>1 DEF JobResourceUnavailable, QueueInv, TypeOK
<1>4. ASSUME NEW g \in Gateways, ChooseSelf(g) PROVE QueueInv'
  <2>1. [kind |-> "relay", seq |-> attempt[g]] \in Txn /\ SoundTxn(g, [kind |-> "relay", seq |-> attempt[g]])'
    BY <1>4 DEF ChooseSelf, Txn, SoundTxn, PlanInv, TypeOK, SetHolder
  <2>2. \A h \in Gateways : \A txn \in Txn : SoundTxn(h, txn) => SoundTxn(h, txn)'
    BY <1>4 DEF ChooseSelf, SoundTxn, PlanInv, book, TypeOK, SetHolder
  <2> DEFINE e == [kind |-> "relay", seq |-> attempt[g]]
  <2>3. queue'[g] = Append(queue[g], e) /\ \A h \in Gateways \ {g} : queue'[h] = queue[h]
    BY <1>4 DEF ChooseSelf, Enqueue, TypeOK
  <2>4. queue[g] \in Seq(Txn)
    BY DEF TypeOK
  <2>5. \A i \in 1..Len(queue'[g]) : queue'[g][i] = e \/ (i \in 1..Len(queue[g]) /\ queue'[g][i] = queue[g][i])
    BY <2>1, <2>3, <2>4
  <2>6. \A i \in 1..Len(queue[g]) : queue[g][i] \in Txn
    BY <2>4
  <2>7. \A i \in 1..Len(queue'[g]) : SoundTxn(g, queue[g][i])'
    BY <1>4, <2>1, <2>2, <2>5, <2>6 DEF ChooseSelf, QueueInv
  <2>8. \A h \in Gateways \ {g} : \A i \in 1..Len(queue'[h]) : SoundTxn(h, queue[h][i])'
    BY <2>2, <2>3 DEF QueueInv, TypeOK
  <2>. QED
    BY <2>7, <2>8 DEF QueueInv
<1>5. ASSUME NEW g \in Gateways, ChoosePeer(g) PROVE QueueInv'
  <2>1. \A h \in Gateways : \A txn \in Txn : SoundTxn(h, txn) => SoundTxn(h, txn)'
    BY <1>5 DEF ChoosePeer, SetHolder, SoundTxn, book, TypeOK
  <2>. QED
    BY <1>5, <2>1 DEF ChoosePeer, QueueInv, TypeOK
<1>6. ASSUME NEW g \in Gateways, ChooseNobody(g) PROVE QueueInv'
  <2>1. \A h \in Gateways : \A txn \in Txn : SoundTxn(h, txn) => SoundTxn(h, txn)'
    BY <1>6 DEF ChooseNobody, SetHolder, SoundTxn, book, TypeOK
  <2>. QED
    BY <1>6, <2>1 DEF ChooseNobody, QueueInv, TypeOK
<1>7. ASSUME NEW g \in Gateways, NEW s \in Attempts, GatewayReassigned(g, s) PROVE QueueInv'
  <2>1. CASE HasAttempt(g, s) /\ BeginAttempt(g, s + 1)
    <3>1. \A h \in Gateways : \A txn \in Txn : SoundTxn(h, txn) => SoundTxn(h, txn)'
      BY <1>7, <2>1 DEF GatewayReassigned, HasAttempt, BeginAttempt, SetHolder, Txn,
        SoundTxn, TypeOK
    <3>. QED
      BY <1>7, <3>1 DEF GatewayReassigned, QueueInv, TypeOK
  <2>2. CASE SetHolder(g, "none") /\ UNCHANGED attempt
    <3>1. \A h \in Gateways : \A txn \in Txn : SoundTxn(h, txn) => SoundTxn(h, txn)'
      BY <1>7, <2>2 DEF GatewayReassigned, SetHolder, SoundTxn, TypeOK
    <3>. QED
      BY <1>7, <3>1 DEF GatewayReassigned, QueueInv, TypeOK
  <2>3. CASE UNCHANGED book
    BY <1>7, <2>3 DEF GatewayReassigned, book, QueueInv, SoundTxn
  <2>. QED
    BY <1>7, <2>1, <2>2, <2>3 DEF GatewayReassigned
<1>8. ASSUME NEW g \in Gateways, NEW s \in Attempts, Untrack(g, s) PROVE QueueInv'
  <2>1. \A h \in Gateways : \A txn \in Txn : SoundTxn(h, txn) => SoundTxn(h, txn)'
    BY <1>8 DEF Untrack, SetHolder, SoundTxn, book, TypeOK
  <2>. QED
    BY <1>8, <2>1 DEF Untrack, QueueInv, TypeOK
<1>9. ASSUME NEW g \in Gateways, NEW s \in Attempts, Report(g, s) PROVE QueueInv'
  <2>1. [kind |-> "reassign", seq |-> s] \in Txn /\ SoundTxn(g, [kind |-> "reassign", seq |-> s])'
    BY <1>9 DEF Report, Txn, SoundTxn, PlanInv, TypeOK, StopTimer
  <2>2. \A h \in Gateways : \A txn \in Txn : SoundTxn(h, txn) => SoundTxn(h, txn)'
    BY <1>9 DEF Report, SoundTxn, PlanInv, book, TypeOK, StopTimer
  <2> DEFINE e == [kind |-> "reassign", seq |-> s]
  <2>3. queue'[g] = Append(queue[g], e) /\ \A h \in Gateways \ {g} : queue'[h] = queue[h]
    BY <1>9 DEF Report, Enqueue, TypeOK
  <2>4. queue[g] \in Seq(Txn)
    BY DEF TypeOK
  <2>5. \A i \in 1..Len(queue'[g]) : queue'[g][i] = e \/ (i \in 1..Len(queue[g]) /\ queue'[g][i] = queue[g][i])
    BY <2>1, <2>3, <2>4
  <2>6. \A i \in 1..Len(queue[g]) : queue[g][i] \in Txn
    BY <2>4
  <2>7. \A i \in 1..Len(queue'[g]) : SoundTxn(g, queue[g][i])'
    BY <1>9, <2>1, <2>2, <2>5, <2>6 DEF Report, QueueInv
  <2>8. \A h \in Gateways \ {g} : \A i \in 1..Len(queue'[h]) : SoundTxn(h, queue[h][i])'
    BY <2>2, <2>3 DEF QueueInv, TypeOK
  <2>. QED
    BY <2>7, <2>8 DEF QueueInv
<1>10. ASSUME NEW g \in Gateways, SendTxn(g) PROVE QueueInv'
  <2>1. \A h \in Gateways : \A txn \in Txn : SoundTxn(h, txn) => SoundTxn(h, txn)'
    BY <1>10 DEF SendTxn, SoundTxn, book, TypeOK
  <2>2. queue[g] \in Seq(Txn) /\ queue[g] # <<>>
    BY <1>10 DEF SendTxn, TypeOK
  <2>3. \A i \in 1..Len(Tail(queue[g])) : i + 1 \in 1..Len(queue[g]) /\ Tail(queue[g])[i] = queue[g][i + 1]
    BY <2>2
  <2>. QED
    BY <1>10, <2>1, <2>2, <2>3 DEF SendTxn, QueueInv, TypeOK
<1>11. ASSUME NEW g \in Gateways, Crash(g) PROVE QueueInv'
  <2>1. \A h \in Gateways : \A txn \in Txn : SoundTxn(h, txn) => SoundTxn(h, txn)'
    BY <1>11 DEF Crash, SetHolder, SoundTxn, TypeOK
  <2>. QED
    BY <1>11, <2>1 DEF Crash, QueueInv, TypeOK
<1>12. ASSUME NEW g \in Gateways, LoseEvent(g) PROVE QueueInv'
  <2>1. \A h \in Gateways : \A txn \in Txn : SoundTxn(h, txn) => SoundTxn(h, txn)'
    BY <1>12 DEF LoseEvent, SoundTxn, book, TypeOK
  <2>. QED
    BY <1>12, <2>1 DEF LoseEvent, QueueInv, TypeOK
<1>13. ASSUME NEW g \in Gateways, LoseTxn(g) PROVE QueueInv'
  <2>1. \A h \in Gateways : \A txn \in Txn : SoundTxn(h, txn) => SoundTxn(h, txn)'
    BY <1>13 DEF LoseTxn, SoundTxn, book, TypeOK
  <2>2. queue[g] \in Seq(Txn) /\ queue[g] # <<>>
    BY <1>13 DEF LoseTxn, TypeOK
  <2>3. \A i \in 1..Len(Tail(queue[g])) : i + 1 \in 1..Len(queue[g]) /\ Tail(queue[g])[i] = queue[g][i + 1]
    BY <2>2
  <2>. QED
    BY <1>13, <2>1, <2>2, <2>3 DEF LoseTxn, QueueInv, TypeOK
<1>14. ASSUME NEW g \in Gateways, LoseTimer(g) PROVE QueueInv'
  <2>1. \A h \in Gateways : \A txn \in Txn : SoundTxn(h, txn) => SoundTxn(h, txn)'
    BY <1>14 DEF LoseTimer, SoundTxn, book, TypeOK
  <2>. QED
    BY <1>14, <2>1 DEF LoseTimer, QueueInv, TypeOK
<1>15. ASSUME ExecutorsRespond PROVE QueueInv'
  <2>1. \A h \in Gateways : \A txn \in Txn : SoundTxn(h, txn) => SoundTxn(h, txn)'
    BY <1>15 DEF ExecutorsRespond, SoundTxn, book, TypeOK
  <2>. QED
    BY <1>15, <2>1 DEF ExecutorsRespond, QueueInv, TypeOK
<1>16. CASE UNCHANGED vars
  BY <1>16 DEF vars, contract, book, QueueInv, SoundTxn
<1>. QED
  BY <1>1, <1>2, <1>3, <1>4, <1>5, <1>6, <1>7, <1>8, <1>9, <1>10, <1>11, <1>12, <1>13,
    <1>14, <1>15, <1>16 DEF Next, GatewayStep, Fault

\* The end of a job is final.
LEMMA EndInvStep ==
  ASSUME TypeOK, EndInv, [Next]_vars
  PROVE  EndInv'
<1>. USE NetworkAssumption
<1>1. ASSUME NEW g \in Gateways, JobRelayed(g) PROVE EndInv'
  BY <1>1 DEF JobRelayed, See, Once, contract, EndInv, Ends, TypeOK
<1>2. ASSUME NEW g \in Gateways, JobResponded(g) PROVE EndInv'
  <2>1. chain.status # "open"
    BY <1>2 DEF JobResponded, See, Pending, Emitted, Once
  <2>. QED
    BY <1>2, <2>1 DEF JobResponded, contract, EndInv
<1>3. ASSUME NEW g \in Gateways, JobResourceUnavailable(g) PROVE EndInv'
  <2>1. chain.status # "open"
    BY <1>3 DEF JobResourceUnavailable, See, Pending, Emitted, Once
  <2>. QED
    BY <1>3, <2>1 DEF JobResourceUnavailable, contract, EndInv
<1>4. ASSUME NEW g \in Gateways, ChooseSelf(g) PROVE EndInv'
  BY <1>4 DEF ChooseSelf, SetHolder, Enqueue, contract, book, EndInv, Ends, TypeOK
<1>5. ASSUME NEW g \in Gateways, ChoosePeer(g) PROVE EndInv'
  BY <1>5 DEF ChoosePeer, SetHolder, contract, book, EndInv, Ends, TypeOK
<1>6. ASSUME NEW g \in Gateways, ChooseNobody(g) PROVE EndInv'
  BY <1>6 DEF ChooseNobody, SetHolder, Lose, contract, book, EndInv, Ends, TypeOK
<1>7. ASSUME NEW g \in Gateways, NEW s \in Attempts, GatewayReassigned(g, s) PROVE EndInv'
  BY <1>7 DEF GatewayReassigned, See, ReassignedEvent, Once, contract, EndInv, Ends, TypeOK
<1>8. ASSUME NEW g \in Gateways, NEW s \in Attempts, Untrack(g, s) PROVE EndInv'
  BY <1>8 DEF Untrack, StopTimer, SetHolder, contract, book, EndInv, Ends, TypeOK
<1>9. ASSUME NEW g \in Gateways, NEW s \in Attempts, Report(g, s) PROVE EndInv'
  BY <1>9 DEF Report, StopTimer, Enqueue, contract, book, EndInv, Ends, TypeOK
<1>10. ASSUME NEW g \in Gateways, SendTxn(g) PROVE EndInv'
  <2>1. chain.status # "open" => chain' = chain
    BY <1>10 DEF SendTxn, Mine, Accepts, contract
  <2>. QED
    BY <1>10, <2>1 DEF SendTxn, EndInv, Ends
<1>11. ASSUME NEW g \in Gateways, Crash(g) PROVE EndInv'
  BY <1>11 DEF Crash, SetHolder, Lose, contract, book, EndInv, Ends, TypeOK
<1>12. ASSUME NEW g \in Gateways, LoseEvent(g) PROVE EndInv'
  <2>1. PICK e \in Pending(g) : See(g, e)
    BY <1>12 DEF LoseEvent
  <2>2. CASE e.name \in {"JobResponded", "JobResourceUnavailable"}
    BY <1>12, <2>2 DEF LoseEvent, Pending, Emitted, contract, EndInv
  <2>3. CASE e.name \notin {"JobResponded", "JobResourceUnavailable"}
    BY <1>12, <2>1, <2>3 DEF LoseEvent, See, Once, contract, EndInv, Ends, TypeOK
  <2>. QED
    BY <2>2, <2>3
<1>13. ASSUME NEW g \in Gateways, LoseTxn(g) PROVE EndInv'
  BY <1>13 DEF LoseTxn, Lose, contract, book, EndInv, Ends, TypeOK
<1>14. ASSUME NEW g \in Gateways, LoseTimer(g) PROVE EndInv'
  BY <1>14 DEF LoseTimer, StopTimer, Lose, contract, book, EndInv, Ends, TypeOK
<1>15. ASSUME ExecutorsRespond PROVE EndInv'
  BY <1>15 DEF ExecutorsRespond, contract, book, EndInv, Ends, TypeOK
<1>16. CASE UNCHANGED vars
  BY <1>16 DEF vars, contract, book, EndInv, Ends, TypeOK
<1>. QED
  BY <1>1, <1>2, <1>3, <1>4, <1>5, <1>6, <1>7, <1>8, <1>9, <1>10, <1>11, <1>12, <1>13,
    <1>14, <1>15, <1>16 DEF Next, GatewayStep, Fault

\* Every handled report moves the record on, or is counted as a loss.
LEMMA ThreadInvStep ==
  ASSUME TypeOK, PlanInv, ThreadInv, [Next]_vars
  PROVE  ThreadInv'
<1>. USE NetworkAssumption DEF Attempts
<1>1. ASSUME NEW g \in Gateways, JobRelayed(g) PROVE ThreadInv'
  BY <1>1 DEF JobRelayed, See, Once, ReassignedEvent, Pending, BeginAttempt, SetHolder,
    contract, ThreadInv, TypeOK
<1>2. ASSUME NEW g \in Gateways, JobResponded(g) PROVE ThreadInv'
  BY <1>2 DEF JobResponded, See, Once, ReassignedEvent, SetHolder, contract, ThreadInv,
    TypeOK
<1>3. ASSUME NEW g \in Gateways, JobResourceUnavailable(g) PROVE ThreadInv'
  BY <1>3 DEF JobResourceUnavailable, See, Once, ReassignedEvent, SetHolder, contract,
    ThreadInv, TypeOK
<1>4. ASSUME NEW g \in Gateways, ChooseSelf(g) PROVE ThreadInv'
  BY <1>4 DEF ChooseSelf, SetHolder, Enqueue, contract, book, ThreadInv, TypeOK
<1>5. ASSUME NEW g \in Gateways, ChoosePeer(g) PROVE ThreadInv'
  BY <1>5 DEF ChoosePeer, SetHolder, contract, book, ThreadInv, TypeOK
<1>6. ASSUME NEW g \in Gateways, ChooseNobody(g) PROVE ThreadInv'
  BY <1>6 DEF ChooseNobody, SetHolder, Lose, contract, book, ThreadInv, TypeOK
<1>7. ASSUME NEW g \in Gateways, NEW s \in Attempts, GatewayReassigned(g, s) PROVE ThreadInv'
  <2>1. \A h \in Gateways \ {g} : /\ seen'[h] = seen[h] /\ lost'[h] = lost[h]
                                    /\ attempt'[h] = attempt[h] /\ holder'[h] = holder[h]
    BY <1>7 DEF GatewayReassigned, See, Lose, BeginAttempt, SetHolder, book, TypeOK
  <2>2. seen'[g] = seen[g] \union {ReassignedEvent(s)}
    BY <1>7 DEF GatewayReassigned, See, TypeOK
  <2>3. CASE HasAttempt(g, s) /\ MayRetry(s)
    <3>1. attempt[g] = s /\ Once("JobRelayed") \in seen[g] /\ holder[g] # "none"
      BY <2>3 DEF HasAttempt, PlanInv
    <3>2. attempt'[g] = s + 1 /\ lost'[g] = lost[g]
      BY <1>7, <2>3 DEF GatewayReassigned, BeginAttempt, TypeOK
    <3>. QED
      BY <2>1, <2>2, <3>1, <3>2 DEF ThreadInv, ReassignedEvent
  <2>4. CASE HasAttempt(g, s) /\ ~MayRetry(s)
    <3>1. Once("JobRelayed") \in seen[g]
      BY <2>4 DEF HasAttempt, PlanInv
    <3>2. holder'[g] = "none"
      BY <1>7, <2>4 DEF GatewayReassigned, SetHolder, TypeOK
    <3>. QED
      BY <2>1, <2>2, <3>1, <3>2 DEF ThreadInv
  <2>5. CASE ~HasAttempt(g, s)
    <3>1. lost'[g]
      BY <1>7, <2>5 DEF GatewayReassigned, Lose, TypeOK
    <3>. QED
      BY <2>1, <3>1 DEF ThreadInv
  <2>. QED
    BY <2>3, <2>4, <2>5
<1>8. ASSUME NEW g \in Gateways, NEW s \in Attempts, Untrack(g, s) PROVE ThreadInv'
  BY <1>8 DEF Untrack, StopTimer, SetHolder, contract, book, ThreadInv, TypeOK
<1>9. ASSUME NEW g \in Gateways, NEW s \in Attempts, Report(g, s) PROVE ThreadInv'
  BY <1>9 DEF Report, StopTimer, Enqueue, contract, book, ThreadInv, TypeOK
<1>10. ASSUME NEW g \in Gateways, SendTxn(g) PROVE ThreadInv'
  BY <1>10 DEF SendTxn, Mine, Accepts, Relay, Reassign, contract, book, ThreadInv, TypeOK
<1>11. ASSUME NEW g \in Gateways, Crash(g) PROVE ThreadInv'
  BY <1>11 DEF Crash, SetHolder, Lose, contract, book, ThreadInv, TypeOK
<1>12. ASSUME NEW g \in Gateways, LoseEvent(g) PROVE ThreadInv'
  BY <1>12 DEF LoseEvent, See, Pending, Lose, contract, book, ThreadInv, TypeOK
<1>13. ASSUME NEW g \in Gateways, LoseTxn(g) PROVE ThreadInv'
  BY <1>13 DEF LoseTxn, Lose, contract, book, ThreadInv, TypeOK
<1>14. ASSUME NEW g \in Gateways, LoseTimer(g) PROVE ThreadInv'
  BY <1>14 DEF LoseTimer, StopTimer, Lose, contract, book, ThreadInv, TypeOK
<1>15. ASSUME ExecutorsRespond PROVE ThreadInv'
  BY <1>15 DEF ExecutorsRespond, contract, book, ThreadInv, TypeOK
<1>16. CASE UNCHANGED vars
  BY <1>16 DEF vars, contract, book, ThreadInv, TypeOK
<1>. QED
  BY <1>1, <1>2, <1>3, <1>4, <1>5, <1>6, <1>7, <1>8, <1>9, <1>10, <1>11, <1>12, <1>13,
    <1>14, <1>15, <1>16 DEF Next, GatewayStep, Fault

\* A relay transaction is taken from the channel only to be accepted, overtaken or lost.
LEMMA SentInvStep ==
  ASSUME TypeOK, PlanInv, QueueInv, SentInv, [Next]_vars
  PROVE  SentInv'
<1>. USE NetworkAssumption DEF Attempts
<1>1. ASSUME NEW g \in Gateways, JobRelayed(g) PROVE SentInv'
  BY <1>1 DEF JobRelayed, See, Pending, Event, BeginAttempt, SetHolder, Attempts,
    contract, book, SentInv, HasTxn, TypeOK
<1>2. ASSUME NEW g \in Gateways, JobResponded(g) PROVE SentInv'
  BY <1>2 DEF JobResponded, See, Pending, SetHolder, Answers, contract, book, SentInv,
    HasTxn, TypeOK
<1>3. ASSUME NEW g \in Gateways, JobResourceUnavailable(g) PROVE SentInv'
  BY <1>3 DEF JobResourceUnavailable, See, Pending, SetHolder, InTable, contract, book,
    SentInv, HasTxn, TypeOK
<1>4. ASSUME NEW g \in Gateways, ChooseSelf(g) PROVE SentInv'
  <2>1. queue'[g] = Append(queue[g], [kind |-> "relay", seq |-> attempt[g]])
    BY <1>4 DEF ChooseSelf, Enqueue, TypeOK
  <2>2. queue[g] \in Seq(Txn)
    BY DEF TypeOK
  <2>3. Len(queue'[g]) = Len(queue[g]) + 1 /\ \A i \in 1..Len(queue[g]) : queue'[g][i] = queue[g][i]
    BY <2>1, <2>2
  <2>4. queue'[g][Len(queue[g]) + 1] = [kind |-> "relay", seq |-> attempt[g]]
    BY <2>1, <2>2
  <2>5. \A h \in Gateways \ {g} : queue'[h] = queue[h]
    BY <1>4 DEF ChooseSelf, Enqueue, TypeOK
  <2>6. Len(queue[g]) \in Nat
    BY <2>2
  <2>7. HasTxn(g, "relay", attempt[g])'
    BY <1>4, <2>3, <2>4, <2>6 DEF ChooseSelf, HasTxn
  <2>8. \A h \in Gateways \ {g} : HasTxn(h, "relay", attempt[h]) => HasTxn(h, "relay", attempt[h])'
    BY <1>4, <2>5 DEF ChooseSelf, HasTxn
  <2>. QED
    BY <1>4, <2>7, <2>8 DEF ChooseSelf, SetHolder, contract, SentInv, TypeOK
<1>5. ASSUME NEW g \in Gateways, ChoosePeer(g) PROVE SentInv'
  BY <1>5 DEF ChoosePeer, SetHolder, contract, book, SentInv, HasTxn, TypeOK
<1>6. ASSUME NEW g \in Gateways, ChooseNobody(g) PROVE SentInv'
  BY <1>6 DEF ChooseNobody, SetHolder, Lose, contract, book, SentInv, HasTxn, TypeOK
<1>7. ASSUME NEW g \in Gateways, NEW s \in Attempts, GatewayReassigned(g, s) PROVE SentInv'
  <2>1. \A h \in Gateways : holder'[h] = "mine" => holder[h] = "mine" /\ attempt'[h] = attempt[h]
    BY <1>7 DEF GatewayReassigned, BeginAttempt, SetHolder, book, TypeOK
  <2>2. \A h \in Gateways : lost[h] => lost'[h]
    BY <1>7 DEF GatewayReassigned, Lose, TypeOK
  <2>3. chain' = chain /\ queue' = queue
    BY <1>7 DEF GatewayReassigned, contract
  <2>. QED
    BY <2>1, <2>2, <2>3 DEF SentInv, HasTxn
<1>8. ASSUME NEW g \in Gateways, NEW s \in Attempts, Untrack(g, s) PROVE SentInv'
  BY <1>8 DEF Untrack, StopTimer, SetHolder, contract, book, SentInv, HasTxn, TypeOK
<1>9. ASSUME NEW g \in Gateways, NEW s \in Attempts, Report(g, s) PROVE SentInv'
  <2>1. queue'[g] = Append(queue[g], [kind |-> "reassign", seq |-> s])
    BY <1>9 DEF Report, Enqueue, TypeOK
  <2>2. queue[g] \in Seq(Txn)
    BY DEF TypeOK
  <2>3. Len(queue'[g]) = Len(queue[g]) + 1 /\ \A i \in 1..Len(queue[g]) : queue'[g][i] = queue[g][i]
    BY <2>1, <2>2
  <2>4. queue'[g][Len(queue[g]) + 1] = [kind |-> "reassign", seq |-> s]
    BY <2>1, <2>2
  <2>5. \A h \in Gateways \ {g} : queue'[h] = queue[h]
    BY <1>9 DEF Report, Enqueue, TypeOK
  <2>6. Len(queue[g]) \in Nat
    BY <2>2
  <2>7. \A h \in Gateways : HasTxn(h, "relay", attempt[h]) => HasTxn(h, "relay", attempt[h])'
    BY <1>9, <2>3, <2>5, <2>6 DEF Report, book, HasTxn
  <2>. QED
    BY <1>9, <2>7 DEF Report, contract, book, SentInv
<1>10. ASSUME NEW g \in Gateways, SendTxn(g) PROVE SentInv'
  <2>1. queue[g] \in Seq(Txn) /\ queue[g] # <<>>
    BY <1>10 DEF SendTxn, TypeOK
  <2>2. queue'[g] = Tail(queue[g]) /\ \A h \in Gateways \ {g} : queue'[h] = queue[h]
    BY <1>10 DEF SendTxn, TypeOK
  <2>3. \A i \in 1..Len(queue[g]) : i # 1 => i - 1 \in 1..Len(Tail(queue[g])) /\ Tail(queue[g])[i - 1] = queue[g][i]
    BY <2>1
  <2>4. queue[g][1] = Head(queue[g]) /\ 1 \in 1..Len(queue[g]) /\ queue[g][1] \in Txn
    BY <2>1
  <2>5. /\ chain'.seq \in Nat /\ chain'.seq >= chain.seq
        /\ chain.status # "open" => chain'.status # "open"
    <3>1. CASE Relay(g)
      BY <3>1 DEF Relay, TypeOK
    <3>2. CASE Reassign(g, queue[g][1].seq) /\ Accepts(queue[g][1])
      BY <3>2 DEF Reassign, Accepts, TypeOK
    <3>3. CASE UNCHANGED contract
      BY <3>3 DEF contract, TypeOK
    <3>. QED
      BY <1>10, <2>4, <3>1, <3>2, <3>3 DEF SendTxn, Mine
  <2>6. queue[g][1].kind = "relay" =>
          chain'.status # "open" \/ chain'.seq # queue[g][1].seq
    <3>1. CASE Relay(g)
      BY <3>1 DEF Relay, TypeOK
    <3>2. CASE UNCHANGED contract /\ ~Accepts(queue[g][1])
      BY <3>2 DEF contract, Accepts
    <3>. QED
      BY <1>10, <2>4, <3>1, <3>2 DEF SendTxn, Mine
  <2>7. UNCHANGED <<attempt, holder, lost>>
    BY <1>10 DEF SendTxn, book
  <2>8. ASSUME ~lost[g], holder[g] = "mine"
        PROVE  HasTxn(g, "relay", attempt[g])' \/ chain'.seq > attempt[g] \/ chain'.status # "open"
    <3>1. CASE chain.seq > attempt[g] \/ chain.status # "open"
      BY <2>5, <3>1 DEF TypeOK
    <3>2. CASE HasTxn(g, "relay", attempt[g])
      <4>1. PICK i \in 1..Len(queue[g]) : queue[g][i].kind = "relay" /\ queue[g][i].seq = attempt[g]
        BY <3>2 DEF HasTxn
      <4>2. CASE i = 1
        <5>1. attempt[g] <= chain.seq /\ attempt[g] \in Nat /\ chain.seq \in Nat
          BY DEF PlanInv, TypeOK
        <5>. QED
          BY <2>5, <2>6, <4>1, <4>2, <5>1
      <4>3. CASE i # 1
        BY <2>2, <2>3, <2>7, <4>1, <4>3 DEF HasTxn
      <4>. QED
        BY <4>2, <4>3
    <3>. QED
      BY <2>8, <3>1, <3>2 DEF SentInv
  <2>9. ASSUME NEW h \in Gateways \ {g}, ~lost[h], holder[h] = "mine"
        PROVE  HasTxn(h, "relay", attempt[h])' \/ chain'.seq > attempt[h] \/ chain'.status # "open"
    <3>1. HasTxn(h, "relay", attempt[h]) => HasTxn(h, "relay", attempt[h])'
      BY <2>2, <2>7 DEF HasTxn
    <3>2. attempt[h] \in Nat /\ chain.seq \in Nat
      BY DEF TypeOK
    <3>. QED
      BY <2>5, <2>9, <3>1, <3>2 DEF SentInv
  <2>. QED
    BY <2>7, <2>8, <2>9 DEF SentInv
<1>11. ASSUME NEW g \in Gateways, Crash(g) PROVE SentInv'
  BY <1>11 DEF Crash, SetHolder, Lose, contract, book, SentInv, HasTxn, TypeOK
<1>12. ASSUME NEW g \in Gateways, LoseEvent(g) PROVE SentInv'
  BY <1>12 DEF LoseEvent, See, Pending, Lose, contract, book, SentInv, HasTxn, TypeOK
<1>13. ASSUME NEW g \in Gateways, LoseTxn(g) PROVE SentInv'
  <2>1. lost'[g] /\ \A h \in Gateways \ {g} : queue'[h] = queue[h] /\ lost'[h] = lost[h]
    BY <1>13 DEF LoseTxn, Lose, TypeOK
  <2>. QED
    BY <1>13, <2>1 DEF LoseTxn, contract, book, SentInv, HasTxn
<1>14. ASSUME NEW g \in Gateways, LoseTimer(g) PROVE SentInv'
  BY <1>14 DEF LoseTimer, StopTimer, Lose, contract, book, SentInv, HasTxn, TypeOK
<1>15. ASSUME ExecutorsRespond PROVE SentInv'
  BY <1>15 DEF ExecutorsRespond, contract, book, SentInv, HasTxn, TypeOK
<1>16. CASE UNCHANGED vars
  BY <1>16 DEF vars, contract, book, SentInv, HasTxn, TypeOK
<1>. QED
  BY <1>1, <1>2, <1>3, <1>4, <1>5, <1>6, <1>7, <1>8, <1>9, <1>10, <1>11, <1>12, <1>13,
    <1>14, <1>15, <1>16 DEF Next, GatewayStep, Fault

\* If all select alike, who relayed a job was not choosing for it any more.
LEMMA OwnInvStep ==
  ASSUME TypeOK, RelayInv, PlanInv, EndInv, OwnInv, [Next]_vars
  PROVE  OwnInv'
<1>. USE NetworkAssumption DEF Attempts
<1>1. ASSUME NEW g \in Gateways, JobRelayed(g) PROVE OwnInv'
  BY <1>1 DEF JobRelayed, See, Once, BeginAttempt, SetHolder, contract, OwnInv, Alike,
    Ends, TypeOK
<1>2. ASSUME NEW g \in Gateways, JobResponded(g) PROVE OwnInv'
  <2>1. holder'[g] # "mine" /\ \A h \in Gateways \ {g} : holder'[h] = holder[h] /\ seen'[h] = seen[h]
    BY <1>2 DEF JobResponded, See, Answers, SetHolder, TypeOK
  <2>. QED
    BY <1>2, <2>1 DEF JobResponded, contract, OwnInv, Alike, Ends
<1>3. ASSUME NEW g \in Gateways, JobResourceUnavailable(g) PROVE OwnInv'
  <2>1. holder'[g] # "mine" /\ \A h \in Gateways \ {g} : holder'[h] = holder[h] /\ seen'[h] = seen[h]
    BY <1>3 DEF JobResourceUnavailable, See, InTable, SetHolder, TypeOK
  <2>. QED
    BY <1>3, <2>1 DEF JobResourceUnavailable, contract, OwnInv, Alike, Ends
<1>4. ASSUME NEW g \in Gateways, ChooseSelf(g) PROVE OwnInv'
  <2>1. ASSUME Alike(g), Ends(g) PROVE attempt[g] < chain.seq
    <3>1. chain.by \in Gateways /\ chain.seq \in Attempts /\ view[chain.by][chain.seq] = chain.by
          /\ attempt[chain.by] = chain.seq /\ holder[chain.by] # "choosing"
      BY <2>1 DEF EndInv, RelayInv
    <3>2. CASE attempt[g] = chain.seq
      BY <1>4, <2>1, <3>1, <3>2 DEF ChooseSelf, Alike
    <3>3. attempt[g] <= chain.seq /\ attempt[g] \in Nat /\ chain.seq \in Nat
      BY DEF PlanInv, TypeOK
    <3>. QED
      BY <3>2, <3>3
  <2>. QED
    BY <1>4, <2>1 DEF ChooseSelf, SetHolder, contract, OwnInv, Alike, Ends, TypeOK
<1>5. ASSUME NEW g \in Gateways, ChoosePeer(g) PROVE OwnInv'
  BY <1>5 DEF ChoosePeer, SetHolder, contract, book, OwnInv, Alike, Ends, TypeOK
<1>6. ASSUME NEW g \in Gateways, ChooseNobody(g) PROVE OwnInv'
  BY <1>6 DEF ChooseNobody, SetHolder, Lose, contract, book, OwnInv, Alike, Ends, TypeOK
<1>7. ASSUME NEW g \in Gateways, NEW s \in Attempts, GatewayReassigned(g, s) PROVE OwnInv'
  <2>1. \A h \in Gateways : holder'[h] = "mine" => holder[h] = "mine" /\ attempt'[h] = attempt[h]
    BY <1>7 DEF GatewayReassigned, BeginAttempt, SetHolder, book, TypeOK
  <2>2. \A h \in Gateways : lost[h] => lost'[h]
    BY <1>7 DEF GatewayReassigned, Lose, TypeOK
  <2>3. \A h \in Gateways : Ends(h)' => Ends(h)
    BY <1>7 DEF GatewayReassigned, See, ReassignedEvent, Once, Ends, TypeOK
  <2>4. chain' = chain /\ view' = view
    BY <1>7 DEF GatewayReassigned, contract
  <2>. QED
    BY <2>1, <2>2, <2>3, <2>4 DEF OwnInv, Alike
<1>8. ASSUME NEW g \in Gateways, NEW s \in Attempts, Untrack(g, s) PROVE OwnInv'
  BY <1>8 DEF Untrack, StopTimer, SetHolder, contract, book, OwnInv, Alike, Ends, TypeOK
<1>9. ASSUME NEW g \in Gateways, NEW s \in Attempts, Report(g, s) PROVE OwnInv'
  BY <1>9 DEF Report, StopTimer, Enqueue, contract, book, OwnInv, Alike, Ends, TypeOK
<1>10. ASSUME NEW g \in Gateways, SendTxn(g) PROVE OwnInv'
  <2>1. chain.status # "open" => chain' = chain
    BY <1>10 DEF SendTxn, Mine, Accepts, contract
  <2>2. UNCHANGED <<attempt, holder, seen, lost, view>>
    BY <1>10 DEF SendTxn, book
  <2>. QED
    BY <2>1, <2>2 DEF EndInv, OwnInv, Alike, Ends
<1>11. ASSUME NEW g \in Gateways, Crash(g) PROVE OwnInv'
  BY <1>11 DEF Crash, SetHolder, Lose, contract, book, OwnInv, Alike, Ends, TypeOK
<1>12. ASSUME NEW g \in Gateways, LoseEvent(g) PROVE OwnInv'
  <2>1. lost'[g] /\ \A h \in Gateways \ {g} : seen'[h] = seen[h] /\ lost'[h] = lost[h]
    BY <1>12 DEF LoseEvent, See, Lose, TypeOK
  <2>. QED
    BY <1>12, <2>1 DEF LoseEvent, contract, book, OwnInv, Alike, Ends
<1>13. ASSUME NEW g \in Gateways, LoseTxn(g) PROVE OwnInv'
  BY <1>13 DEF LoseTxn, Lose, contract, book, OwnInv, Alike, Ends, TypeOK
<1>14. ASSUME NEW g \in Gateways, LoseTimer(g) PROVE OwnInv'
  BY <1>14 DEF LoseTimer, StopTimer, Lose, contract, book, OwnInv, Alike, Ends, TypeOK
<1>15. ASSUME ExecutorsRespond PROVE OwnInv'
  BY <1>15 DEF ExecutorsRespond, contract, book, OwnInv, Alike, Ends, TypeOK
<1>16. CASE UNCHANGED vars
  BY <1>16 DEF vars, contract, book, OwnInv, Alike, Ends, TypeOK
<1>. QED
  BY <1>1, <1>2, <1>3, <1>4, <1>5, <1>6, <1>7, <1>8, <1>9, <1>10, <1>11, <1>12, <1>13,
    <1>14, <1>15, <1>16 DEF Next, GatewayStep, Fault

-----------------------------------------------------------------------------
THEOREM Invariant == Spec => []IInv
<1>1. IInv /\ [Next]_vars => IInv'
  <2>. SUFFICES ASSUME IInv, [Next]_vars PROVE IInv'
    OBVIOUS
  <2>. USE DEF IInv
  <2>1. TypeOK' /\ EventInv' /\ RelayInv'
    BY TypeOKStep, EventInvStep, RelayInvStep
  <2>2. PlanInv' /\ QueueInv' /\ EndInv'
    BY PlanInvStep, QueueInvStep, EndInvStep
  <2>3. ThreadInv' /\ SentInv' /\ OwnInv'
    BY ThreadInvStep, SentInvStep, OwnInvStep
  <2>. QED
    BY <2>1, <2>2, <2>3
<1>. QED
  BY InitInv, <1>1, PTL DEF Spec

\* Every reachable state of the network is well typed; no gateway tries more often than
\* MAX_GATEWAY_RETRIES (job_relayed_handler, gateway_reassigned_handler).
THEOREM TypeCorrect == Spec => []TypeOK
BY Invariant, PTL DEF IInv

\* A gateway that saw every report is at the contract's attempt, while it has the job.
LEMMA UpToDate ==
  ASSUME IInv, NEW g \in Gateways, ~Behind(g), holder[g] # "none"
  PROVE  attempt[g] = chain.seq /\ attempt[g] \in Attempts
<1>. USE NetworkAssumption DEF IInv
<1>1. attempt[g] \in Attempts /\ attempt[g] <= chain.seq
  BY DEF PlanInv
<1>2. attempt[g] \in Nat /\ chain.seq \in Nat
  BY <1>1 DEF Attempts, TypeOK
<1>3. CASE attempt[g] < chain.seq
  <2>1. reassigned[attempt[g]] # NoGateway
    BY <1>1, <1>3 DEF EventInv
  <2>2. ReassignedEvent(attempt[g]) \in seen[g] /\ ~lost[g]
    BY <1>1, <2>1 DEF Behind
  <2>. QED
    BY <1>1, <1>2, <2>2 DEF ThreadInv
<1>. QED
  BY <1>1, <1>2, <1>3

\* A gateway that answers a job it did not relay has not handled, or has lost, the
\* report of its own attempt, or selects differently from the one that did relay it:
\* the check of get_job_from_job_responded_event against active_jobs is no stronger,
\* and no weaker, than that.
THEOREM AnswersAreOwn == Spec => AnswersItsOwn
<1>1. ASSUME IInv, [Next]_vars
      PROVE  [\A g \in answered' \ answered :
                chain.by = g \/ Behind(g) \/ view[g] # view[chain.by]]_vars
  <2>. SUFFICES ASSUME NEW g \in answered' \ answered, ~Behind(g)
                PROVE  chain.by = g \/ view[g] # view[chain.by]
    OBVIOUS
  <2>1. JobResponded(g) /\ Answers(g) /\ g \in Gateways
    <3>1. ASSUME NEW h \in Gateways, JobResponded(h) PROVE g = h /\ Answers(h)
      BY <3>1 DEF JobResponded
    <3>2. ASSUME NEW h \in Gateways, GatewayStep(h), ~JobResponded(h) PROVE FALSE
      BY <3>2 DEF GatewayStep, JobRelayed, JobResourceUnavailable, ChooseSelf, ChoosePeer,
        ChooseNobody, GatewayReassigned, Untrack, Report, SendTxn
    <3>3. ASSUME NEW h \in Gateways, Fault(h) PROVE FALSE
      BY <3>3 DEF Fault, Crash, LoseEvent, LoseTxn, LoseTimer
    <3>4. ~ExecutorsRespond /\ ~UNCHANGED vars
      BY DEF ExecutorsRespond, vars
    <3>. QED
      BY <1>1, <3>1, <3>2, <3>3, <3>4 DEF Next
  <2>2. chain.status = "responded"
    BY <2>1 DEF JobResponded, See, Pending, Emitted, Once
  <2>3. view[chain.by][chain.seq] = chain.by
    BY <1>1, <2>2 DEF IInv, RelayInv
  <2>4. view[g][chain.seq] = g
    BY <1>1, <2>1, UpToDate DEF Answers, IInv, PlanInv
  <2>. QED
    BY <2>3, <2>4
<1>. QED
  BY Invariant, <1>1, PTL DEF Spec, AnswersItsOwn

\* A gateway that lost nothing and has nothing left to do keeps no job of its own whose
\* relay failed or came too late, if all gateways select alike.
THEOREM NothingIsLeft == Spec => []NothingLeft
<1>1. IInv => NothingLeft
  <2>. SUFFICES ASSUME IInv, NEW g \in Gateways, Quiet(g), ~lost[g], holder[g] = "mine", Alike(g)
                PROVE  chain.status = "relayed" /\ chain.by = g
    BY DEF NothingLeft, Alike
  <2>1. ~Behind(g)
    <3>1. ASSUME NEW s \in Attempts, reassigned[s] # NoGateway PROVE ReassignedEvent(s) \in seen[g]
      <4>1. ReassignedEvent(s) \in Event /\ Emitted(ReassignedEvent(s))
        BY <3>1 DEF Event, ReassignedEvent, Emitted
      <4>. QED
        BY <4>1 DEF Quiet, Pending
    <3>. QED
      BY <3>1 DEF Behind
  <2>2. attempt[g] = chain.seq /\ attempt[g] \in Attempts
    BY <2>1, UpToDate
  <2>3. ~Ends(g)
    BY <2>2 DEF IInv, OwnInv, TypeOK
  <2>4. chain.status # "open"
    <3>1. ~HasTxn(g, "relay", attempt[g])
      BY DEF Quiet, HasTxn
    <3>. QED
      BY <2>2, <3>1 DEF IInv, SentInv, TypeOK
  <2>5. chain.status # "responded"
    <3>1. Once("JobResponded") \in Event
      BY DEF Event, Once
    <3>. QED
      BY <2>3, <3>1 DEF Quiet, Pending, Emitted, Ends, Once
  <2>6. chain.status # "unavailable"
    <3>1. Once("JobResourceUnavailable") \in Event
      BY DEF Event, Once
    <3>. QED
      BY <2>3, <3>1 DEF Quiet, Pending, Emitted, Ends, Once
  <2>7. chain.by = g
    <3>1. chain.by \in Gateways /\ view[chain.by][chain.seq] = chain.by
      BY <2>4 DEF IInv, RelayInv
    <3>2. view[g][attempt[g]] = g
      BY DEF IInv, PlanInv
    <3>. QED
      BY <2>2, <3>1, <3>2 DEF Alike
  <2>. QED
    BY <2>4, <2>5, <2>6, <2>7 DEF IInv, TypeOK
<1>. QED
  BY Invariant, <1>1, PTL

\* The records of the gateways implement JobBook: attempts of a gateway are numbered
\* from 1 without a gap, one at a time, whatever crashes and is lost.
THEOREM NetworkImplementsBooks == Spec => ImplementsBooks
<1>. USE DEF Book!Begin, Book!Settle, Book!Leave
<1>1. Init => Book!Init
  BY DEF Init, Book!Init
<1>2. ASSUME IInv, [Next]_vars PROVE [Book!Next]_(Book!bookVars)
  <2>. SUFFICES ASSUME NEW g \in Gateways
                PROVE  GatewayStep(g) \/ Fault(g) =>
                         \/ Book!Begin(g) \/ Book!Settle(g) \/ Book!Leave(g)
                         \/ UNCHANGED book
    BY <1>2 DEF Next, vars, ExecutorsRespond, book, Book!Next, Book!bookVars
  <2>. USE NetworkAssumption
  <2>1. TypeOK /\ PlanInv
    BY <1>2 DEF IInv
  <2>2. ASSUME JobRelayed(g) PROVE Book!Begin(g)
    <3>1. attempt[g] = 0 /\ holder[g] = "none"
      BY <2>1, <2>2 DEF JobRelayed, See, Pending, PlanInv
    <3>. QED
      BY <2>1, <2>2, <3>1 DEF JobRelayed, BeginAttempt, SetHolder, TypeOK
  <2>3. ASSUME NEW s \in Attempts, GatewayReassigned(g, s)
        PROVE  Book!Begin(g) \/ Book!Leave(g) \/ UNCHANGED book
    <3>1. CASE HasAttempt(g, s) /\ MayRetry(s)
      <4>1. attempt[g] = s /\ holder[g] # "choosing" /\ s < MaxGatewayRetries /\ s \in Nat
        BY <3>1 DEF HasAttempt, MayRetry, Attempts
      <4>2. attempt' = [attempt EXCEPT ![g] = @ + 1] /\ holder' = [holder EXCEPT ![g] = "choosing"]
        BY <2>1, <2>3, <3>1, <4>1 DEF GatewayReassigned, BeginAttempt, SetHolder, TypeOK
      <4>. QED
        BY <4>1, <4>2
    <3>2. CASE HasAttempt(g, s) /\ ~MayRetry(s)
      BY <2>3, <3>2 DEF GatewayReassigned, HasAttempt, SetHolder
    <3>3. CASE ~HasAttempt(g, s)
      BY <2>3, <3>3 DEF GatewayReassigned
    <3>. QED
      BY <3>1, <3>2, <3>3
  <2>4. ASSUME ChooseSelf(g) \/ ChoosePeer(g) \/ ChooseNobody(g) PROVE Book!Settle(g)
    BY <2>4 DEF ChooseSelf, ChoosePeer, ChooseNobody, SetHolder
  <2>5. ASSUME JobResponded(g) \/ JobResourceUnavailable(g) PROVE Book!Leave(g) \/ UNCHANGED book
    BY <2>5 DEF JobResponded, JobResourceUnavailable, Answers, InTable, SetHolder, book
  <2>6. ASSUME NEW s \in Attempts, Untrack(g, s) \/ Report(g, s)
        PROVE  Book!Leave(g) \/ UNCHANGED book
    BY <2>6 DEF Untrack, Report, SetHolder, book
  <2>7. ASSUME SendTxn(g) \/ LoseEvent(g) \/ LoseTxn(g) \/ LoseTimer(g) PROVE UNCHANGED book
    BY <2>7 DEF SendTxn, LoseEvent, LoseTxn, LoseTimer
  <2>8. ASSUME Crash(g) PROVE Book!Settle(g) \/ Book!Leave(g) \/ UNCHANGED book
    <3>1. CASE holder[g] = "none"
      BY <2>1, <2>8, <3>1 DEF Crash, SetHolder, book, TypeOK
    <3>2. CASE holder[g] # "none"
      BY <2>1, <2>8, <3>2 DEF Crash, SetHolder, TypeOK
    <3>. QED
      BY <3>1, <3>2
  <2>. QED
    BY <2>2, <2>3, <2>4, <2>5, <2>6, <2>7, <2>8 DEF GatewayStep, Fault
<1>. QED
  BY Invariant, <1>1, <1>2, PTL DEF Spec, ImplementsBooks, Book!Spec
=============================================================================
