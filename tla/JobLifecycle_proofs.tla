------------------------- MODULE JobLifecycle_proofs -------------------------
(***************************************************************************)
(* Proofs about JobLifecycle, for every value of its constants.            *)
(***************************************************************************)
EXTENDS JobInvariant, DataInduction, TLAPS

-----------------------------------------------------------------------------
(* Facts about the data.                                                    *)

\* What the fields of a task are.
LEMMA TaskFields ==
  ASSUME NEW t \in Task
  PROVE  /\ t.job \in JobIds
         /\ t.event = "GatewayReassigned" => t.seq \in Attempts
         /\ t.event \in {"JobRelayed", "JobResponded", "GatewayReassigned"} \union CancelEvents
BY DEF Task, RequestTask, CommonTask, ReassignedTask, CancelEvents

\* An attempt is absent, or it has a number: NoAttempt is the only one numbered 0.
LEMMA StoredAttempts ==
  ASSUME TypeOK, NEW j \in JobIds
  PROVE  /\ active[j] = NoAttempt \/ (active[j].seq \in Attempts /\ active[j].gateway = Self)
         /\ current[j] = NoAttempt \/ (current[j].seq \in Attempts /\ current[j].gateway \in Peers)
         /\ active[j] \in Attempt /\ current[j] \in Attempt
         /\ NoAttempt.seq = 0 /\ NoAttempt \in Attempt
BY ConstantsAssumption DEF TypeOK, Attempt, NoAttempt, Attempts, Gateways

LEMMA PcFacts ==
  /\ CarryingPcs \subseteq Pcs /\ ReportingPcs \subseteq Pcs /\ CancellingPcs \subseteq Pcs
  /\ AnsweringPcs \subseteq Pcs /\ FinishedPcs \subseteq Pcs
  /\ {"idle", "lookup", "send", "queuedRelay"} \subseteq Pcs
BY DEF Pcs, ReportingPcs, WatchingPcs, FinishedPcs
-----------------------------------------------------------------------------
(* Type correctness.                                                        *)

LEMMA TypeInit == Init => TypeInv
<1> SUFFICES ASSUME Init PROVE TypeInv
  OBVIOUS
<1>1. TypeOK
  BY ConstantsAssumption DEF Init, TypeOK, Attempt, NoAttempt, Attempts, Cycles, Pcs, Gateways
<1>2. HeldInv
  BY DEF Init, HeldInv, CarryingPcs, ReportingPcs, CancellingPcs
<1>3. WaitlistInv
  BY DEF Init, WaitlistInv
<1> QED BY <1>1, <1>2, <1>3 DEF TypeInv

LEMMA TypeDeliver ==
  ASSUME TypeInv, NEW t \in Task, Deliver(t) PROVE TypeInv'
<1>1. /\ EntryPc(t) \in {"select", "lookup", "decode", "cancelActive"}
      /\ EntryPc(t) = "select" => t.event = "JobRelayed"
      /\ EntryPc(t) = "lookup" => t.event = "GatewayReassigned"
      /\ EntryPc(t) = "cancelActive" => t.event \in CancelEvents
  BY TaskFields DEF EntryPc
<1>2. TypeOK'
  BY <1>1, ConstantsAssumption
  DEF TypeInv, TypeOK, Deliver, Goto, FirstAttempt, Attempt, Attempts, Pcs, CarryingPcs,
      AnsweringPcs, CancellingPcs, tables, waiting, service, chans, environment, contracts
<1>3. HeldInv'
  <2> DEFINE l == EntryPc(t)
  <2>1. \A u \in Task : /\ pc'[u] = IF u = t THEN l ELSE pc[u]
                        /\ u # t => held'[u] = held[u]
    BY DEF TypeInv, TypeOK, Deliver, Goto
  <2>2. l = "select" => held'[t].seq \in Attempts
    BY <1>1, ConstantsAssumption DEF TypeInv, TypeOK, Deliver, FirstAttempt, Attempts
  <2>3. /\ l \in {"select", "lookup", "decode", "cancelActive"}
        /\ l = "lookup" => t.event = "GatewayReassigned"
        /\ l = "cancelActive" => t.event \in CancelEvents
    BY <1>1
  <2>4. HeldInv
    BY DEF TypeInv
  <2> HIDE DEF l
  <2> SUFFICES ASSUME NEW u \in Task
               PROVE  /\ pc'[u] \in CarryingPcs \union ReportingPcs \union {"send", "queuedRelay"}
                           => held'[u].seq \in Attempts
                      /\ pc'[u] = "store" => held'[u].gateway \in Gateways
                      /\ pc'[u] \in {"send", "queuedRelay"} => held'[u].gateway = Self
                      /\ pc'[u] \in ReportingPcs => held'[u].gateway \in Peers
                      /\ pc'[u] = "lookup" => u.event = "GatewayReassigned"
                      /\ pc'[u] \in CancellingPcs =>
                           \/ u.event \in CancelEvents
                           \/ u.event = "GatewayReassigned" /\ held'[u].seq = u.seq
    BY DEF HeldInv
  <2>5. CASE u = t
    BY <2>1, <2>2, <2>3, <2>5 DEF CarryingPcs, ReportingPcs, CancellingPcs
  <2>6. CASE u # t
    BY <2>1, <2>4, <2>6 DEF HeldInv
  <2> QED BY <2>5, <2>6
<1>4. WaitlistInv'
  BY DEF TypeInv, TypeOK, WaitlistInv, Deliver, Goto, waiting
<1> QED BY <1>2, <1>3, <1>4 DEF TypeInv

LEMMA TypeSelect ==
  ASSUME TypeInv, NEW t \in Task, Select(t) PROVE TypeInv'
<1> DEFINE c == JobCycle[t.job]
           g == selection[t.job][held[t].seq]
<1>1. /\ TypeOK /\ HeldInv /\ WaitlistInv
      /\ t.job \in JobIds /\ c \in Cycles
      /\ pc[t] = "select" /\ held[t].seq \in Attempts /\ held[t] \in Attempt
      /\ g \in Gateways \union {NoGateway}
  <2>1. /\ TypeOK /\ HeldInv /\ WaitlistInv
        /\ t.job \in JobIds /\ c \in Cycles /\ pc[t] = "select"
    BY TaskFields, ConstantsAssumption DEF TypeInv, Select
  <2>2. held[t].seq \in Attempts /\ held[t] \in Attempt
    BY <2>1 DEF TypeOK, HeldInv, CarryingPcs
  <2> QED BY <2>1, <2>2 DEF TypeOK
<1>2. UNCHANGED <<tables, released, service, chans, environment, contracts>>
  BY DEF Select
<1>3. CASE Goto(t, "dropped") /\ UNCHANGED <<held, waitlist>>
  <2>1. TypeOK'
    BY <1>1, <1>2, <1>3
    DEF TypeOK, Goto, Pcs, FinishedPcs, tables, service, chans, environment, contracts
  <2>2. HeldInv'
    BY <1>1, <1>3 DEF TypeOK, HeldInv, Goto, CarryingPcs, ReportingPcs, CancellingPcs
  <2>3. WaitlistInv'
    BY <1>1, <1>3 DEF TypeOK, WaitlistInv, Goto
  <2> QED BY <2>1, <2>2, <2>3 DEF TypeInv
<1>4. CASE /\ g # NoGateway
           /\ Goto(t, "store")
           /\ held' = [held EXCEPT ![t].gateway = g]
           /\ UNCHANGED waitlist
  <2>1. held' \in [Task -> Attempt] /\ held'[t].seq = held[t].seq /\ held'[t].gateway = g
    BY <1>1, <1>4 DEF TypeOK, Attempt
  <2>2. TypeOK'
    BY <1>1, <1>2, <1>4, <2>1
    DEF TypeOK, Goto, Pcs, CarryingPcs, tables, service, chans, environment, contracts
  <2>3. HeldInv'
    BY <1>1, <1>4, <2>1
    DEF TypeOK, HeldInv, Goto, CarryingPcs, ReportingPcs, CancellingPcs, Gateways
  <2>4. WaitlistInv'
    BY <1>1, <1>4 DEF TypeOK, WaitlistInv, Goto
  <2> QED BY <2>2, <2>3, <2>4 DEF TypeInv
<1>5. CASE /\ Goto(t, "waitlisted")
           /\ waitlist' = [waitlist EXCEPT ![c] = Append(@, t)]
           /\ UNCHANGED held
  <2>1. waitlist' \in [Cycles -> Seq(Task)]
    BY <1>1, <1>5 DEF TypeOK
  <2>2. TypeOK'
    BY <1>1, <1>2, <1>5, <2>1
    DEF TypeOK, Goto, Pcs, CarryingPcs, tables, service, chans, environment, contracts
  <2>3. HeldInv'
    BY <1>1, <1>5 DEF TypeOK, HeldInv, Goto, CarryingPcs, ReportingPcs, CancellingPcs
  <2>4. WaitlistInv'
    <3> SUFFICES ASSUME NEW d \in Cycles, NEW i \in 1..Len(waitlist'[d])
                 PROVE  /\ pc'[waitlist'[d][i]] = "waitlisted"
                        /\ JobCycle[waitlist'[d][i].job] = d
      BY DEF WaitlistInv
    <3>1. waitlist[d] \in Seq(Task)
      BY <1>1 DEF TypeOK
    <3>2. CASE d = c /\ i = Len(waitlist[d]) + 1
      BY <1>1, <1>5, <3>1, <3>2 DEF TypeOK, Goto
    <3>3. CASE ~(d = c /\ i = Len(waitlist[d]) + 1)
      <4>1. i \in 1..Len(waitlist[d]) /\ waitlist'[d][i] = waitlist[d][i]
        BY <1>1, <1>5, <3>1, <3>3 DEF TypeOK
      <4> QED BY <1>1, <1>5, <3>1, <4>1 DEF TypeOK, WaitlistInv, Goto
    <3> QED BY <3>2, <3>3
  <2> QED BY <2>2, <2>3, <2>4 DEF TypeInv
<1> QED BY <1>3, <1>4, <1>5 DEF Select

LEMMA TypeStore ==
  ASSUME TypeInv, NEW t \in Task, Store(t) PROVE TypeInv'
<1>1. /\ t.job \in JobIds /\ held[t].seq \in Attempts /\ held[t].gateway \in Gateways
      /\ held[t] = [seq |-> held[t].seq, gateway |-> held[t].gateway]
      /\ TypeOK /\ HeldInv /\ WaitlistInv
  BY TaskFields DEF TypeInv, TypeOK, HeldInv, Store, CarryingPcs, Attempt
<1>2. UNCHANGED <<waiting, service, chans, held, environment, contracts>>
  BY DEF Store
<1>3. CASE /\ held[t].gateway = Self
           /\ active' = [active EXCEPT ![t.job] = held[t]]
           /\ Goto(t, "send")
           /\ UNCHANGED current
  <2>1. active' \in [JobIds -> {NoAttempt} \union [seq : Attempts, gateway : {Self}]]
    BY <1>1, <1>3 DEF TypeOK
  <2>2. TypeOK'
    BY <1>1, <1>2, <1>3, <2>1
    DEF TypeOK, Goto, Pcs, waiting, service, chans, environment, contracts
  <2>3. HeldInv'
    BY <1>1, <1>2, <1>3
    DEF TypeOK, HeldInv, Goto, CarryingPcs, ReportingPcs, CancellingPcs
  <2>4. WaitlistInv'
    BY <1>1, <1>2, <1>3 DEF TypeOK, WaitlistInv, Store, Goto, waiting
  <2> QED BY <2>2, <2>3, <2>4 DEF TypeInv
<1>4. CASE /\ held[t].gateway # Self
           /\ current' = [current EXCEPT ![t.job] = held[t]]
           /\ Goto(t, "timer")
           /\ UNCHANGED active
  <2>1. current' \in [JobIds -> {NoAttempt} \union [seq : Attempts, gateway : Peers]]
    BY <1>1, <1>4 DEF TypeOK, Gateways
  <2>2. TypeOK'
    BY <1>1, <1>2, <1>4, <2>1
    DEF TypeOK, Goto, Pcs, ReportingPcs, WatchingPcs, waiting, service, chans, environment, contracts
  <2>3. HeldInv'
    BY <1>1, <1>2, <1>4
    DEF TypeOK, HeldInv, Goto, CarryingPcs, ReportingPcs, CancellingPcs, Gateways
  <2>4. WaitlistInv'
    BY <1>1, <1>2, <1>4 DEF TypeOK, WaitlistInv, Store, Goto, waiting
  <2> QED BY <2>2, <2>3, <2>4 DEF TypeInv
<1> QED BY <1>3, <1>4 DEF Store

LEMMA TypeSend ==
  ASSUME TypeInv, NEW t \in Task, Send(t) PROVE TypeInv'
<1>1. PICK l \in {"queuedRelay", "queuedSlash"} :
        /\ pc' = [pc EXCEPT ![t] = l]
        /\ (pc[t] = "send" /\ l = "queuedRelay") \/ (pc[t] = "slash" /\ l = "queuedSlash")
  <2>1. /\ pc[t] \in {"send", "slash"}
        /\ pc' = [pc EXCEPT ![t] = IF pc[t] = "send" THEN "queuedRelay" ELSE "queuedSlash"]
    BY DEF Send, Goto
  <2>2. \/ pc[t] = "send" /\ pc' = [pc EXCEPT ![t] = "queuedRelay"]
        \/ pc[t] = "slash" /\ pc' = [pc EXCEPT ![t] = "queuedSlash"]
    BY <2>1
  <2> QED BY <2>2
<1>2. TypeOK'
  BY <1>1 DEF TypeInv, TypeOK, Send, Pcs, ReportingPcs, WatchingPcs, tables, waiting, service, environment,
              contracts
<1>3. HeldInv'
  BY <1>1 DEF TypeInv, TypeOK, HeldInv, Send, CarryingPcs, ReportingPcs, CancellingPcs
<1>4. WaitlistInv'
  BY <1>1 DEF TypeInv, TypeOK, WaitlistInv, Send, waiting
<1> QED BY <1>2, <1>3, <1>4 DEF TypeInv

LEMMA TypeTimer ==
  ASSUME TypeInv, NEW t \in Task, Timer(t) \/ Untrack(t) PROVE TypeInv'
<1>1. TypeOK'
  BY TaskFields DEF TypeInv, TypeOK, Timer, Untrack, Goto, Pcs, ReportingPcs, WatchingPcs, FinishedPcs, tables,
         waiting, service, chans, environment, contracts
<1>2. HeldInv'
  BY DEF TypeInv, TypeOK, HeldInv, Timer, Untrack, Goto, CarryingPcs, ReportingPcs, CancellingPcs
<1>3. WaitlistInv'
  BY DEF TypeInv, TypeOK, WaitlistInv, Timer, Untrack, Goto, waiting
<1> QED BY <1>1, <1>2, <1>3 DEF TypeInv

LEMMA TypeLookup ==
  ASSUME TypeInv, NEW t \in Task, Lookup(t) PROVE TypeInv'
<1>1. ReassignedEntry(t) \in Attempt /\ pc[t] = "lookup" /\ TypeOK /\ HeldInv /\ WaitlistInv
  BY TaskFields, StoredAttempts DEF TypeInv, ReassignedEntry, TableOf, Lookup
<1>2. PICK l \in {"cancelActive", "ignored"} :
        /\ pc' = [pc EXCEPT ![t] = l]
        /\ held' \in [Task -> Attempt] /\ \A u \in Task : u # t => held'[u] = held[u]
        /\ l = "cancelActive" => held'[t].seq = t.seq
  <2>1. CASE /\ IsEventsAttempt(ReassignedEntry(t), t)
             /\ held' = [held EXCEPT ![t] = ReassignedEntry(t)]
             /\ Goto(t, "cancelActive")
    BY <1>1, <2>1 DEF TypeOK, IsEventsAttempt, Goto
  <2>2. CASE UNCHANGED held /\ Goto(t, "ignored")
    BY <1>1, <2>2 DEF TypeOK, Goto
  <2> QED BY <2>1, <2>2 DEF Lookup
<1>3. TypeOK'
  BY <1>1, <1>2 DEF TypeOK, Lookup, Pcs, CancellingPcs, FinishedPcs, tables,
         waiting, service, chans, environment, contracts
<1>4. HeldInv'
  BY <1>1, <1>2 DEF TypeOK, HeldInv, CarryingPcs, ReportingPcs, CancellingPcs
<1>5. WaitlistInv'
  BY <1>1, <1>2 DEF TypeOK, WaitlistInv, Lookup, waiting
<1> QED BY <1>3, <1>4, <1>5 DEF TypeInv

\* Only tasks of GatewayReassigned and of the two cancel events come to cancel.
LEMMA TypeAfterCancel ==
  ASSUME TypeInv, NEW t \in Task, pc[t] \in CancellingPcs, AfterCancel(t)
  PROVE  /\ pc' \in [Task -> Pcs] /\ held' \in [Task -> Attempt] /\ HeldInv'
         /\ \A u \in Task : pc[u] = "waitlisted" => pc'[u] = "waitlisted"
<1>1. held[t] \in Attempt /\ pc \in [Task -> Pcs] /\ held \in [Task -> Attempt] /\ HeldInv
  BY DEF TypeInv, TypeOK
<1>2. CASE UNCHANGED held /\ \E l \in {"cancelled", "exhausted"} : Goto(t, l)
  BY <1>1, <1>2
  DEF HeldInv, Goto, Pcs, FinishedPcs, CarryingPcs, ReportingPcs, WatchingPcs, CancellingPcs
<1>3. CASE /\ ~(held[t].seq + 1 > MaxGatewayRetries)
           /\ Goto(t, "select")
           /\ held' = [held EXCEPT ![t] = [seq |-> @.seq + 1, gateway |-> NoGateway]]
  <2>1. /\ held[t].seq + 1 \in Attempts
        /\ [seq |-> held[t].seq + 1, gateway |-> NoGateway] \in Attempt
    BY <1>1, <1>3, ConstantsAssumption DEF Attempt, Attempts
  <2>2. held' \in [Task -> Attempt] /\ held'[t].seq \in Attempts
    BY <1>1, <1>3, <2>1
  <2> QED BY <1>1, <1>3, <2>2
      DEF HeldInv, Goto, Pcs, CarryingPcs, ReportingPcs, WatchingPcs, CancellingPcs
<1> QED BY <1>2, <1>3 DEF AfterCancel

LEMMA TypeCancel ==
  ASSUME TypeInv, NEW t \in Task, CancelActive(t) \/ CancelCurrent(t) PROVE TypeInv'
<1>1. pc[t] \in CancellingPcs
  BY DEF CancelActive, CancelCurrent, CancellingPcs
<1>2. /\ pc' \in [Task -> Pcs] /\ held' \in [Task -> Attempt] /\ HeldInv'
      /\ \A u \in Task : pc[u] = "waitlisted" => pc'[u] = "waitlisted"
  <2>1. CASE AfterCancel(t)
    BY <1>1, <2>1, TypeAfterCancel
  <2>2. CASE CancelActive(t) /\ Goto(t, "cancelCurrent") /\ UNCHANGED held
    BY <2>2 DEF TypeInv, TypeOK, HeldInv, CancelActive, Goto, Pcs, CarryingPcs, ReportingPcs, WatchingPcs,
                CancellingPcs
  <2> QED BY <2>1, <2>2 DEF CancelActive, CancelCurrent
<1>3. TypeOK'
  BY <1>2, TaskFields
  DEF TypeInv, TypeOK, CancelActive, CancelCurrent, waiting, service, chans, environment, contracts
<1>4. WaitlistInv'
  BY <1>2 DEF TypeInv, TypeOK, WaitlistInv, CancelActive, CancelCurrent, waiting
<1> QED BY <1>2, <1>3, <1>4 DEF TypeInv

LEMMA TypeRespond ==
  ASSUME TypeInv, NEW t \in Task, Decode(t) \/ Reread(t) \/ RemoveJob(t) \/ Respond(t)
  PROVE  TypeInv'
<1>1. PICK l \in {"ignored", "reread", "remove", "respond", "queuedResponse"} :
        /\ pc' = [pc EXCEPT ![t] = l]
        /\ pc[t] \in {"decode", "reread", "remove", "respond"}
  BY DEF Decode, Reread, RemoveJob, Respond, Goto
<1>2. held' \in [Task -> Attempt] /\ \A u \in Task : u # t => held'[u] = held[u]
  BY TaskFields, StoredAttempts
  DEF TypeInv, TypeOK, Decode, Reread, RemoveJob, Respond
<1>3. active' \in [JobIds -> {NoAttempt} \union [seq : Attempts, gateway : {Self}]]
  BY TaskFields DEF TypeInv, TypeOK, Decode, Reread, RemoveJob, Respond, tables
<1>4. responseChan' \in Seq(Task)
  <2>1. responseChan' = responseChan \/ responseChan' = Append(responseChan, t)
    BY DEF Decode, Reread, RemoveJob, Respond, chans
  <2>2. responseChan \in Seq(Task)
    BY DEF TypeInv, TypeOK
  <2> QED BY <2>1, <2>2
<1>5. UNCHANGED <<current, waiting, service, relayChan, environment, contracts>>
  BY DEF Decode, Reread, RemoveJob, Respond, tables, chans
<1>6. TypeOK'
  BY <1>1, <1>2, <1>3, <1>4, <1>5
  DEF TypeInv, TypeOK, Pcs, AnsweringPcs, FinishedPcs, waiting, service, environment, contracts
<1>7. HeldInv'
  BY <1>1, <1>2 DEF TypeInv, TypeOK, HeldInv, CarryingPcs, ReportingPcs, CancellingPcs
<1>8. WaitlistInv'
  BY <1>1, <1>5 DEF TypeInv, TypeOK, WaitlistInv, waiting
<1> QED BY <1>6, <1>7, <1>8 DEF TypeInv

ChainRecord == [seq : 1..(MaxGatewayRetries + 1),
                status : {"open", "relayed", "responded", "unavailable"},
                by : Gateways \union {NoGateway}]

LEMMA TypeRelayMined ==
  ASSUME TypeOK, NEW j \in JobIds, NEW s, NEW g \in Gateways,
         RelayMined(j, s, g) \/ (s \in Attempts /\ ReassignMined(j, s, g))
  PROVE  /\ chain' \in [JobIds -> ChainRecord]
         /\ reassigned' \in [JobIds -> [Attempts -> Gateways \union {NoGateway}]]
<1>1. /\ chain \in [JobIds -> ChainRecord]
      /\ reassigned \in [JobIds -> [Attempts -> Gateways \union {NoGateway}]]
  BY DEF TypeOK, ChainRecord
<1>2. CASE RelayMined(j, s, g) /\ AcceptsAttempt(j, s)
  <2>1. PICK st \in {"relayed", "unavailable"} :
          chain' = [chain EXCEPT ![j].status = st, ![j].by = g]
    BY <1>2 DEF RelayMined
  <2>2. chain'[j] = [seq |-> chain[j].seq, status |-> st, by |-> g]
    BY <1>1, <2>1 DEF ChainRecord
  <2>3. chain'[j] \in ChainRecord
    BY <1>1, <2>2 DEF ChainRecord
  <2> QED BY <1>1, <1>2, <2>1, <2>3 DEF RelayMined
<1>3. CASE s \in Attempts /\ ReassignMined(j, s, g) /\ AcceptsAttempt(j, s)
  <2>1. /\ chain' = [chain EXCEPT ![j].seq = s + 1]
        /\ reassigned' = [reassigned EXCEPT ![j][s] = g]
    BY <1>3 DEF ReassignMined
  <2>2. chain'[j] = [seq |-> s + 1, status |-> chain[j].status, by |-> chain[j].by]
    BY <1>1, <2>1 DEF ChainRecord
  <2>3. s + 1 \in 1..(MaxGatewayRetries + 1)
    BY <1>3, ConstantsAssumption DEF Attempts
  <2>4. chain'[j] \in ChainRecord
    BY <1>1, <2>2, <2>3 DEF ChainRecord
  <2> QED BY <1>1, <2>1, <2>4
<1>4. CASE ~AcceptsAttempt(j, s)
  BY <1>1, <1>4 DEF RelayMined, ReassignMined, contracts
<1> QED BY <1>2, <1>3, <1>4

LEMMA TypeCommonChainTxn ==
  ASSUME TypeInv, CommonChainTxn PROVE TypeInv'
<1> DEFINE t == Head(relayChan)
<1>1. /\ TypeOK /\ HeldInv /\ WaitlistInv
      /\ t \in Task /\ t.job \in JobIds /\ relayChan' \in Seq(Task)
  BY TaskFields DEF TypeInv, TypeOK, CommonChainTxn
<1>2. PICK l \in {"relaySubmitted", "slashSubmitted"} :
        /\ pc' = [pc EXCEPT ![t] = l]
        /\ (pc[t] = "queuedRelay" /\ l = "relaySubmitted") \/ pc[t] = "queuedSlash"
  BY DEF CommonChainTxn, Goto
<1>3. held[t].seq \in Attempts /\ held[t].gateway \in Gateways
  BY <1>1, <1>2 DEF HeldInv, ReportingPcs, Gateways
<1>4. \/ RelayMined(t.job, held[t].seq, Self)
      \/ ReassignMined(t.job, held[t].seq, held[t].gateway)
      \/ UNCHANGED contracts
  BY DEF CommonChainTxn
<1>5. /\ chain' \in [JobIds -> ChainRecord]
      /\ reassigned' \in [JobIds -> [Attempts -> Gateways \union {NoGateway}]]
  <2>1. CASE UNCHANGED contracts
    BY <1>1, <2>1 DEF TypeOK, contracts, ChainRecord
  <2>2. Self \in Gateways
    BY DEF Gateways
  <2> QED BY <1>1, <1>3, <1>4, <2>1, <2>2, TypeRelayMined
<1>6. TypeOK'
  BY <1>1, <1>2, <1>5 DEF TypeOK, ChainRecord, CommonChainTxn, Pcs, FinishedPcs, tables, waiting,
         service, environment
<1>7. HeldInv'
  BY <1>1, <1>2 DEF TypeOK, HeldInv, CommonChainTxn, CarryingPcs, ReportingPcs, CancellingPcs
<1>8. WaitlistInv'
  BY <1>1, <1>2 DEF TypeOK, WaitlistInv, CommonChainTxn, waiting
<1> QED BY <1>6, <1>7, <1>8 DEF TypeInv

LEMMA TypeResponseTxn ==
  ASSUME TypeInv, RequestChainTxn \/ RemoveResponseJob PROVE TypeInv'
<1> DEFINE t == Head(responseChan)
<1>1. /\ TypeOK /\ HeldInv /\ WaitlistInv
      /\ t \in Task /\ t.job \in JobIds /\ Tail(responseChan) \in Seq(Task)
  BY TaskFields DEF TypeInv, TypeOK, RequestChainTxn, RemoveResponseJob
<1>2. PICK l \in {"responseSubmitted", "responded"} :
        /\ pc' = [pc EXCEPT ![t] = l]
        /\ pc[t] \in {"queuedResponse", "responseSubmitted"}
  BY DEF RequestChainTxn, RemoveResponseJob, Goto
<1>3. TypeOK'
  BY <1>1, <1>2
  DEF TypeOK, RequestChainTxn, RemoveResponseJob, Pcs, AnsweringPcs, FinishedPcs, tables, waiting,
      service, chans, environment, contracts
<1>4. HeldInv'
  BY <1>1, <1>2
  DEF TypeOK, HeldInv, RequestChainTxn, RemoveResponseJob, CarryingPcs, ReportingPcs, CancellingPcs
<1>5. WaitlistInv'
  BY <1>1, <1>2 DEF TypeOK, WaitlistInv, RequestChainTxn, RemoveResponseJob, waiting
<1> QED BY <1>3, <1>4, <1>5 DEF TypeInv

LEMMA TypeService ==
  ASSUME TypeInv, PickCycle \/ PublishState PROVE TypeInv'
<1>1. TypeOK /\ HeldInv /\ WaitlistInv
  BY DEF TypeInv
<1>2. UNCHANGED <<tables, waiting, chans, tasks, environment, contracts>>
  BY DEF PickCycle, PublishState
<1>3. CASE PickCycle
  <2>1. PICK now \in {clock, clock + 1} : serviceCycle' = SkipTo(serviceCycle, now)
    BY <1>3 DEF PickCycle, ServiceClocks
  <2>2. serviceCycle' \in Cycles
    BY <1>1, <1>3, <2>1, ConstantsAssumption DEF TypeOK, PickCycle, SkipTo, Cycles
  <2>3. TypeOK'
    <3>1. serviceCycle' \in 1..(LastCycle + 1)
      BY <2>2, ConstantsAssumption DEF Cycles
    <3> QED BY <1>1, <1>2, <1>3, <2>2, <3>1
            DEF TypeOK, PickCycle, tables, waiting, chans, tasks, environment, contracts
  <2>4. HeldInv' /\ WaitlistInv'
    BY <1>1, <1>2 DEF HeldInv, WaitlistInv, tasks, waiting
  <2> QED BY <2>3, <2>4 DEF TypeInv
<1>4. CASE PublishState
  <2>1. known' \subseteq Cycles
    BY <1>1, <1>4 DEF TypeOK, PublishState
  <2>2. TypeOK'
    BY <1>1, <1>2, <1>4, <2>1
    DEF TypeOK, PublishState, tables, waiting, chans, tasks, environment, contracts
  <2>3. HeldInv' /\ WaitlistInv'
    BY <1>1, <1>2 DEF HeldInv, WaitlistInv, tasks, waiting
  <2> QED BY <2>2, <2>3 DEF TypeInv
<1> QED BY <1>3, <1>4

LEMMA TypeCallback ==
  ASSUME TypeInv, Callback PROVE TypeInv'
<1> DEFINE list == waitlist[serviceCycle]
<1>1. TypeOK /\ HeldInv /\ WaitlistInv /\ serviceCycle \in Cycles /\ list \in Seq(Task)
  BY DEF TypeInv, TypeOK, Callback
<1>2. \A t \in Task : Listed(t, list) => pc[t] = "waitlisted" /\ JobCycle[t.job] = serviceCycle
  BY <1>1 DEF WaitlistInv, Listed
<1>3. pc' = [t \in Task |-> IF Listed(t, list) THEN "select" ELSE pc[t]]
  BY DEF Callback
<1>4. TypeOK'
  <2>1. serviceCycle' \in 1..(LastCycle + 1)
    BY <1>1, ConstantsAssumption DEF Callback, Cycles
  <2>2. pc' \in [Task -> Pcs]
    BY <1>1, <1>3 DEF TypeOK, Pcs, CarryingPcs
  <2>3. waitlist' \in [Cycles -> Seq(Task)] /\ released' \in [Cycles -> Seq(Task)]
    BY <1>1 DEF TypeOK, Callback
  <2> QED BY <1>1, <2>1, <2>2, <2>3 DEF TypeOK, Callback, tables, chans, environment, contracts
<1>5. HeldInv'
  <2> SUFFICES ASSUME NEW t \in Task
               PROVE  (pc[t] = "waitlisted" /\ pc'[t] = "select") \/ pc'[t] = pc[t]
    BY <1>1 DEF HeldInv, Callback, CarryingPcs, ReportingPcs, CancellingPcs
  <2> QED BY <1>2, <1>3
<1>6. WaitlistInv'
  <2> SUFFICES ASSUME NEW c \in Cycles, NEW i \in 1..Len(waitlist'[c])
               PROVE  pc'[waitlist'[c][i]] = "waitlisted" /\ JobCycle[waitlist'[c][i].job] = c
    BY DEF WaitlistInv
  <2>1. c # serviceCycle /\ waitlist'[c] = waitlist[c]
    BY <1>1 DEF TypeOK, Callback
  <2>2. waitlist[c][i] \in Task /\ pc[waitlist[c][i]] = "waitlisted"
        /\ JobCycle[waitlist[c][i].job] = c
    BY <1>1, <2>1 DEF TypeOK, WaitlistInv
  <2> QED BY <1>2, <1>3, <2>1, <2>2
<1> QED BY <1>4, <1>5, <1>6 DEF TypeInv

LEMMA TypeEnvironment ==
  ASSUME TypeInv, Environment PROVE TypeInv'
<1>1. TypeOK /\ HeldInv /\ WaitlistInv
  BY DEF TypeInv
<1>2. CASE Tick
  <2>1. TypeOK'
    BY <1>1, <1>2, ConstantsAssumption
    DEF TypeOK, Tick, Cycles, tables, waiting, service, chans, tasks, contracts
  <2> QED BY <1>1, <1>2, <2>1 DEF TypeInv, HeldInv, WaitlistInv, Tick, tasks, waiting
<1>3. ASSUME NEW j \in JobIds, PeerRelays(j) \/ PeerReassigns(j) \/ ExecutorsRespond(j)
      PROVE  TypeInv'
  <2>1. /\ chain' \in [JobIds -> ChainRecord]
        /\ reassigned' \in [JobIds -> [Attempts -> Gateways \union {NoGateway}]]
    <3>1. CASE ExecutorsRespond(j)
      BY <1>1, <3>1 DEF TypeOK, ChainRecord, ExecutorsRespond
    <3>2. CASE PeerRelays(j)
      BY <1>1, <3>2, TypeRelayMined DEF PeerRelays, Gateways
    <3>3. CASE PeerReassigns(j)
      BY <1>1, <3>3, TypeRelayMined DEF PeerReassigns
    <3> QED BY <1>3, <3>1, <3>2, <3>3
  <2>2. UNCHANGED <<tables, waiting, service, chans, tasks, environment>>
    BY <1>3 DEF PeerRelays, PeerReassigns, ExecutorsRespond
  <2>3. TypeOK'
    BY <1>1, <2>1, <2>2 DEF TypeOK, ChainRecord, tables, waiting, service, chans, tasks,
                            environment
  <2> QED BY <1>1, <2>2, <2>3 DEF TypeInv, HeldInv, WaitlistInv, tasks, waiting
<1> QED BY <1>2, <1>3 DEF Environment

LEMMA TypeStutter ==
  ASSUME TypeInv, UNCHANGED vars PROVE TypeInv'
BY DEF TypeInv, TypeOK, HeldInv, WaitlistInv, vars, tables, waiting, service, chans, tasks,
       environment, contracts

LEMMA TypeNext == TypeInv /\ [Next]_vars => TypeInv'
<1> SUFFICES ASSUME TypeInv, [Next]_vars PROVE TypeInv'
  OBVIOUS
<1>1. ASSUME NEW t \in Task, Deliver(t) \/ TaskStep(t) PROVE TypeInv'
  BY <1>1, TypeDeliver, TypeSelect, TypeStore, TypeSend, TypeTimer, TypeLookup, TypeCancel,
     TypeRespond DEF TaskStep
<1>2. CASE SenderStep
  BY <1>2, TypeCommonChainTxn, TypeResponseTxn DEF SenderStep
<1>3. CASE ServiceStep
  BY <1>3, TypeService, TypeCallback DEF ServiceStep
<1> QED BY <1>1, <1>2, <1>3, TypeEnvironment, TypeStutter DEF Next

\* Every variable keeps its type, in every behaviour.
THEOREM TypeCorrect == Spec => []TypeOK
<1>1. Spec => []TypeInv
  BY TypeInit, TypeNext, PTL DEF Spec
<1>2. TypeInv => TypeOK
  BY DEF TypeInv
<1> QED BY <1>1, <1>2, PTL
-----------------------------------------------------------------------------
(* One attempt per job, when every event is delivered once.                 *)

\* Tasks of one job for the same event are the same task.
LEMMA TaskUnique ==
  ASSUME ExactlyOnce, NEW t \in Task, NEW u \in Task, t.job = u.job, t.event = u.event,
         t.event = "JobRelayed" \/ (t.event = "GatewayReassigned" /\ t.seq = u.seq)
  PROVE  t = u
BY DEF ExactlyOnce, Task, RequestTask, CommonTask, ReassignedTask

\* A step that starts no attempt for a job and only removes entries keeps its token.
LEMMA TokenKept ==
  ASSUME NEW j \in JobIds, OneToken(j),
         active'[j] \in {active[j], NoAttempt}, current'[j] \in {current[j], NoAttempt},
         \A u \in TasksOf(j) :
           /\ Carrying(u)' => Carrying(u)
           /\ Replacing(u)' => Replacing(u)
           /\ Replacing(u)' /\ pc'[u] = "cancelCurrent" =>
                pc[u] = "cancelCurrent" \/ active'[j] = NoAttempt
           /\ pc'[u] = "idle" => pc[u] = "idle"
  PROVE  OneToken(j)'
BY DEF OneToken, TasksOf, Tracked, NoAttempt

\* A task that moves to a point where it neither carries nor replaces, and a step
\* that moves no task, keep every token as long as entries are only removed.
LEMMA TokenMove ==
  ASSUME TypeOK, TokenInv, NEW t \in Task, NEW l,
         pc' = [pc EXCEPT ![t] = l],
         l # "idle",
         l \in CarryingPcs => Carrying(t),
         l \in CancellingPcs =>
            \/ t.event # "GatewayReassigned"
            \/ pc[t] \in CancellingPcs /\ active'[t.job] = NoAttempt,
         \A j \in JobIds : /\ active'[j] \in {active[j], NoAttempt}
                           /\ current'[j] \in {current[j], NoAttempt}
  PROVE  TokenInv'
<1> SUFFICES ASSUME NEW j \in JobIds PROVE OneToken(j)'
  BY DEF TokenInv
<1>1. OneToken(j)
  BY DEF TokenInv
<1>2. ASSUME NEW u \in TasksOf(j)
      PROVE  /\ Carrying(u)' => Carrying(u)
             /\ Replacing(u)' => Replacing(u)
             /\ Replacing(u)' /\ pc'[u] = "cancelCurrent" =>
                  pc[u] = "cancelCurrent" \/ active'[j] = NoAttempt
             /\ pc'[u] = "idle" => pc[u] = "idle"
  <2>1. u \in Task /\ u.job = j /\ pc'[u] = IF u = t THEN l ELSE pc[u]
    BY DEF TasksOf, TypeOK
  <2> QED BY <2>1 DEF Carrying, Replacing
<1> QED BY <1>1, <1>2, TokenKept

LEMMA TokenStay ==
  ASSUME TokenInv, UNCHANGED <<active, current, pc>> PROVE TokenInv'
BY DEF TokenInv, OneToken, TasksOf, Tracked, Carrying, Replacing

\* The first attempt of a job starts when nothing has happened to the job yet.
LEMMA TokenDeliver ==
  ASSUME ExactlyOnce, OneAttemptInv, NEW t \in Task, Deliver(t) PROVE TokenInv'
<1>1. TypeOK /\ TokenInv
  BY DEF OneAttemptInv, TypeInv
<1>2. UNCHANGED tables /\ pc[t] = "idle" /\ pc' = [pc EXCEPT ![t] = EntryPc(t)]
  BY DEF Deliver, Goto
<1>3. CASE t.event # "JobRelayed"
  <2>1. /\ EntryPc(t) \in {"lookup", "decode", "cancelActive"}
        /\ EntryPc(t) = "cancelActive" => t.event # "GatewayReassigned"
    BY <1>3 DEF EntryPc
  <2> QED BY <1>1, <1>2, <2>1, TokenMove DEF CarryingPcs, CancellingPcs, tables
<1>4. CASE t.event = "JobRelayed"
  <2>1. EntryPc(t) = "select"
    BY <1>4 DEF EntryPc
  <2> SUFFICES ASSUME NEW j \in JobIds PROVE OneToken(j)'
    BY DEF TokenInv
  <2>2. OneToken(j)
    BY <1>1 DEF TokenInv
  <2>3. \A u \in Task : pc'[u] = IF u = t THEN "select" ELSE pc[u]
    BY <1>1, <1>2, <2>1 DEF TypeOK
  <2>4. CASE j = t.job
    <3>1. ~Tracked(j) /\ \A u \in TasksOf(j) : ~Carrying(u) /\ ~Replacing(u)
      BY <1>2, <1>4, <2>2, <2>4 DEF OneToken, TasksOf
    <3>2. \A u \in TasksOf(j) : u.event = "JobRelayed" => u = t
      BY <1>4, <2>4, TaskUnique DEF TasksOf
    <3>3. \A u \in TasksOf(j) : ~Replacing(u)' /\ (Carrying(u)' => u = t)
                                /\ (u.event = "JobRelayed" => pc'[u] # "idle")
      BY <1>4, <2>3, <3>1, <3>2 DEF TasksOf, Carrying, Replacing
    <3>4. ~Tracked(j)' /\ (active[j] = NoAttempt)'
      BY <1>2, <3>1 DEF Tracked, tables
    <3>5. TasksOf(j)' = TasksOf(j)
      BY DEF TasksOf
    <3> QED BY <3>3, <3>4, <3>5 DEF OneToken
  <2>5. CASE j # t.job
    <3>1. \A u \in TasksOf(j) : pc'[u] = pc[u]
      BY <2>3, <2>5 DEF TasksOf
    <3> QED BY <1>2, <2>2, <3>1, TokenKept DEF Carrying, Replacing, tables
  <2> QED BY <2>4, <2>5
<1> QED BY <1>3, <1>4

\* The task that stores an attempt is the only one of its job, and the tables are
\* empty.
LEMMA TokenStore ==
  ASSUME OneAttemptInv, NEW t \in Task, Store(t) PROVE TokenInv'
<1>1. TypeOK /\ TokenInv /\ t.job \in JobIds
  BY TaskFields DEF OneAttemptInv, TypeInv
<1>2. PICK l \in {"send", "timer"} : pc' = [pc EXCEPT ![t] = l]
  BY DEF Store, Goto
<1>3. Carrying(t)
  BY DEF Store, Carrying, CarryingPcs
<1> SUFFICES ASSUME NEW j \in JobIds PROVE OneToken(j)'
  BY DEF TokenInv
<1>4. OneToken(j)
  BY <1>1 DEF TokenInv
<1>5. \A u \in Task : pc'[u] = IF u = t THEN l ELSE pc[u]
  BY <1>1, <1>2 DEF TypeOK
<1>6. CASE j = t.job
  <2>1. t \in TasksOf(j) /\ ~Tracked(j) /\ \A u \in TasksOf(j) : Carrying(u) => u = t
    BY <1>3, <1>4, <1>6 DEF OneToken, TasksOf
  <2>2. \A u \in TasksOf(j) : ~Replacing(u) /\ ~(u.event = "JobRelayed" /\ pc[u] = "idle")
    BY <1>3, <1>4, <2>1 DEF OneToken
  <2>3. \A u \in TasksOf(j) : /\ ~Carrying(u)' /\ ~Replacing(u)'
                              /\ ~(u.event = "JobRelayed" /\ pc'[u] = "idle")
    BY <1>5, <2>1, <2>2 DEF TasksOf, Carrying, Replacing, CarryingPcs, CancellingPcs
  <2>4. (active[j] = NoAttempt)' \/ (current[j] = NoAttempt)'
    BY <2>1 DEF Store, Tracked
  <2> QED BY <2>3, <2>4 DEF OneToken, TasksOf
<1>7. CASE j # t.job
  <2>1. active'[j] = active[j] /\ current'[j] = current[j]
    BY <1>1, <1>7 DEF Store, TypeOK
  <2>2. \A u \in TasksOf(j) : pc'[u] = pc[u]
    BY <1>5, <1>7 DEF TasksOf
  <2> QED BY <1>4, <2>1, <2>2, TokenKept DEF Carrying, Replacing
<1> QED BY <1>6, <1>7

\* Two GatewayReassigned tasks that find the same entry are the same task: the
\* entry has the number of both events.
LEMMA TokenLookup ==
  ASSUME ExactlyOnce, OneAttemptInv, NEW t \in Task, Lookup(t) PROVE TokenInv'
<1> DEFINE entry == ReassignedEntry(t)
<1>1. /\ TypeOK /\ TokenInv /\ t.job \in JobIds /\ UNCHANGED tables
      /\ t.event = "GatewayReassigned"
  BY TaskFields DEF OneAttemptInv, TypeInv, HeldInv, Lookup
<1>2. CASE Goto(t, "ignored")
  BY <1>1, <1>2, TokenMove DEF Goto, CarryingPcs, CancellingPcs, tables
<1>3. CASE entry # NoAttempt /\ IsEventsAttempt(entry, t) /\ Goto(t, "cancelActive")
  <2> SUFFICES ASSUME NEW j \in JobIds PROVE OneToken(j)'
    BY DEF TokenInv
  <2>1. OneToken(j)
    BY <1>1 DEF TokenInv
  <2>2. \A u \in Task : pc'[u] = IF u = t THEN "cancelActive" ELSE pc[u]
    BY <1>1, <1>3 DEF TypeOK, Goto
  <2>3. CASE j = t.job
    <3>1. /\ t \in TasksOf(j)
          /\ \/ active[j] # NoAttempt /\ active[j].seq = t.seq
             \/ current[j] # NoAttempt /\ current[j].seq = t.seq
      BY <1>3, <2>3 DEF TasksOf, ReassignedEntry, TableOf, IsEventsAttempt
    <3>2. /\ active[j].seq \in {0, t.seq} /\ current[j].seq \in {0, t.seq}
          /\ Tracked(j) /\ \A u \in TasksOf(j) : ~Carrying(u)
      BY <2>1, <3>1 DEF OneToken, Tracked, NoAttempt
    <3>3. ASSUME NEW u \in TasksOf(j), Replacing(u) PROVE  u = t
      <4>1. u.seq = t.seq
        <5>1. active[j].seq \in {0, u.seq} /\ current[j].seq \in {0, u.seq}
          BY <2>1, <3>3 DEF OneToken
        <5>2. t.seq # 0
          BY <1>1, TaskFields DEF Attempts
        <5> QED BY <3>1, <5>1, <5>2
      <4> QED BY <1>1, <2>3, <3>3, <4>1, TaskUnique DEF TasksOf, Replacing
    <3>4. \A u \in TasksOf(j) : ~(u.event = "JobRelayed" /\ pc[u] = "idle")
      BY <2>1, <3>2 DEF OneToken
    <3>5. \A u \in TasksOf(j) :
            /\ ~Carrying(u)'
            /\ Replacing(u)' => u = t \/ Replacing(u)
            /\ ~(u.event = "JobRelayed" /\ pc'[u] = "idle")
            /\ pc'[u] = "cancelCurrent" => pc[u] = "cancelCurrent"
      BY <2>2, <3>2, <3>4 DEF TasksOf, Carrying, Replacing, CarryingPcs, CancellingPcs
    <3>6. active'[j] = active[j] /\ current'[j] = current[j] /\ TasksOf(j)' = TasksOf(j)
      BY <1>1 DEF tables, TasksOf
    <3>7. ASSUME NEW u \in TasksOf(j), Replacing(u)'
          PROVE  /\ \A v \in TasksOf(j) : Replacing(v)' => v = u
                 /\ active[j].seq \in {0, u.seq} /\ current[j].seq \in {0, u.seq}
                 /\ pc'[u] = "cancelCurrent" => active[j] = NoAttempt
      BY <2>2, <3>1, <3>2, <3>3, <3>5, <3>7 DEF TasksOf
    <3> QED BY <2>1, <3>5, <3>6, <3>7 DEF OneToken
  <2>4. CASE j # t.job
    <3>1. \A u \in TasksOf(j) : pc'[u] = pc[u]
      BY <2>2, <2>4 DEF TasksOf
    <3> QED BY <1>1, <2>1, <3>1, TokenKept DEF Carrying, Replacing, tables
  <2> QED BY <2>3, <2>4
<1> QED BY <1>2, <1>3 DEF Lookup

\* A task that has cancelled its event's attempt starts the next one alone.
LEMMA TokenNextAttempt ==
  ASSUME OneAttemptInv, NEW t \in Task, pc' = [pc EXCEPT ![t] = "select"],
         t.event = "GatewayReassigned", pc[t] \in CancellingPcs,
         active'[t.job] = NoAttempt, current'[t.job] = NoAttempt,
         \A j \in JobIds : /\ active'[j] \in {active[j], NoAttempt}
                           /\ current'[j] \in {current[j], NoAttempt}
  PROVE  TokenInv'
<1>1. TypeOK /\ TokenInv
  BY DEF OneAttemptInv, TypeInv
<1> SUFFICES ASSUME NEW j \in JobIds PROVE OneToken(j)'
  BY DEF TokenInv
<1>2. OneToken(j)
  BY <1>1 DEF TokenInv
<1>3. \A u \in Task : pc'[u] = IF u = t THEN "select" ELSE pc[u]
  BY <1>1 DEF TypeOK
<1>4. CASE j = t.job
  <2>1. t \in TasksOf(j) /\ Replacing(t)
    BY <1>4 DEF TasksOf, Replacing
  <2>2. \A u \in TasksOf(j) : /\ ~Carrying(u) /\ (Replacing(u) => u = t)
                              /\ ~(u.event = "JobRelayed" /\ pc[u] = "idle")
    BY <1>2, <2>1 DEF OneToken
  <2>3. \A u \in TasksOf(j) : /\ ~Replacing(u)' /\ (Carrying(u)' => u = t)
                              /\ ~(u.event = "JobRelayed" /\ pc'[u] = "idle")
    BY <1>3, <2>2 DEF TasksOf, Carrying, Replacing, CancellingPcs
  <2> QED BY <1>4, <2>3 DEF OneToken, TasksOf, Tracked
<1>5. CASE j # t.job
  <2>1. \A u \in TasksOf(j) : pc'[u] = pc[u]
    BY <1>3, <1>5 DEF TasksOf
  <2> QED BY <1>2, <2>1, TokenKept DEF Carrying, Replacing
<1> QED BY <1>4, <1>5

LEMMA TokenCancel ==
  ASSUME OneAttemptInv, NEW t \in Task, CancelActive(t) \/ CancelCurrent(t) PROVE TokenInv'
<1>1. TypeOK /\ TokenInv /\ t.job \in JobIds /\ t \in TasksOf(t.job) /\ OneToken(t.job)
  BY TaskFields DEF OneAttemptInv, TypeInv, TokenInv, TasksOf
<1>2. pc[t] \in CancellingPcs
  BY DEF CancelActive, CancelCurrent, CancellingPcs
<1>3. \A j \in JobIds : /\ active'[j] \in {active[j], NoAttempt}
                        /\ current'[j] \in {current[j], NoAttempt}
  BY <1>1 DEF CancelActive, CancelCurrent, TypeOK
<1>4. CASE \E l \in {"cancelled", "exhausted"} : Goto(t, l)
  BY <1>1, <1>3, <1>4, TokenMove DEF Goto, CarryingPcs, CancellingPcs
<1>5. CASE CancelActive(t) /\ Goto(t, "cancelCurrent")
  <2>1. active'[t.job] = NoAttempt
    BY <1>1, <1>5 DEF CancelActive, TypeOK
  <2> QED BY <1>1, <1>2, <1>3, <1>5, <2>1, TokenMove DEF Goto, CarryingPcs
<1>6. CASE t.event \notin CancelEvents /\ AfterCancel(t) /\ Goto(t, "select")
  <2>1. t.event = "GatewayReassigned"
    BY <1>2, <1>6 DEF OneAttemptInv, TypeInv, HeldInv
  <2>2. active'[t.job] = NoAttempt /\ current'[t.job] = NoAttempt
    <3>1. Replacing(t) /\ pc'[t] = "select"
      BY <1>1, <1>2, <1>6, <2>1 DEF Replacing, Goto, TypeOK
    <3>2. CASE CancelActive(t)
      <4>1. active[t.job] # NoAttempt
        BY <1>1, <3>1, <3>2 DEF CancelActive, Goto, TypeOK
      <4> QED BY <1>1, <3>2, <4>1 DEF CancelActive, TypeOK, OneToken
    <3>3. CASE CancelCurrent(t)
      BY <1>1, <3>1, <3>3 DEF CancelCurrent, TypeOK, OneToken
    <3> QED BY <3>2, <3>3
  <2> QED BY <1>2, <1>3, <1>6, <2>1, <2>2, TokenNextAttempt DEF Goto
<1> QED BY <1>4, <1>5, <1>6 DEF CancelActive, CancelCurrent, AfterCancel

\* The other steps of a task move it away from choosing, or along it.
LEMMA TokenTask ==
  ASSUME OneAttemptInv, NEW t \in Task,
         \/ Select(t) \/ Send(t) \/ Timer(t) \/ Untrack(t)
         \/ Decode(t) \/ Reread(t) \/ RemoveJob(t) \/ Respond(t)
  PROVE  TokenInv'
<1>1. TypeOK /\ TokenInv /\ t.job \in JobIds
  BY TaskFields DEF OneAttemptInv, TypeInv
<1>2. CASE Select(t)
  <2>1. UNCHANGED tables /\ Carrying(t) /\ \E l \in {"dropped", "store", "waitlisted"} : Goto(t, l)
    BY <1>2 DEF Select, Carrying, CarryingPcs
  <2> QED BY <1>1, <2>1, TokenMove DEF Goto, CancellingPcs, tables
<1>3. CASE Send(t) \/ Timer(t)
  <2>1. /\ UNCHANGED tables
        /\ \E l \in {"queuedRelay", "queuedSlash", "panicked", "untrack", "slash"} : Goto(t, l)
    BY <1>3 DEF Send, Timer
  <2> QED BY <1>1, <2>1, TokenMove DEF Goto, CarryingPcs, CancellingPcs, tables
<1>4. CASE Untrack(t)
  <2>1. \A j \in JobIds : active'[j] = active[j] /\ current'[j] \in {current[j], NoAttempt}
    BY <1>1, <1>4 DEF Untrack, TypeOK
  <2> QED BY <1>1, <1>4, <2>1, TokenMove DEF Untrack, Goto, CarryingPcs, CancellingPcs
<1>5. CASE Decode(t) \/ Reread(t) \/ RemoveJob(t) \/ Respond(t)
  <2>1. \E l \in {"ignored", "reread", "remove", "respond", "queuedResponse"} : Goto(t, l)
    BY <1>5 DEF Decode, Reread, RemoveJob, Respond
  <2>2. \A j \in JobIds : /\ active'[j] \in {active[j], NoAttempt}
                          /\ current'[j] = current[j]
    BY <1>1, <1>5 DEF Decode, Reread, RemoveJob, Respond, TypeOK, tables
  <2> QED BY <1>1, <2>1, <2>2, TokenMove DEF Goto, CarryingPcs, CancellingPcs
<1> QED BY <1>2, <1>3, <1>4, <1>5

LEMMA TokenSender ==
  ASSUME OneAttemptInv, SenderStep PROVE TokenInv'
<1>1. TypeOK /\ TokenInv
  BY DEF OneAttemptInv, TypeInv
<1>2. CASE CommonChainTxn
  <2>1. Head(relayChan) \in Task /\ UNCHANGED tables
    BY <1>1, <1>2 DEF CommonChainTxn, TypeOK
  <2>2. \E l \in {"relaySubmitted", "slashSubmitted"} : Goto(Head(relayChan), l)
    BY <1>2 DEF CommonChainTxn
  <2> QED BY <1>1, <2>1, <2>2, TokenMove DEF Goto, CarryingPcs, CancellingPcs, tables
<1>3. CASE RequestChainTxn \/ RemoveResponseJob
  <2>1. Head(responseChan) \in Task /\ Head(responseChan).job \in JobIds
    BY <1>1, <1>3, TaskFields DEF RequestChainTxn, RemoveResponseJob, TypeOK
  <2>2. \E l \in {"responseSubmitted", "responded"} : Goto(Head(responseChan), l)
    BY <1>3 DEF RequestChainTxn, RemoveResponseJob
  <2>3. \A j \in JobIds : active'[j] \in {active[j], NoAttempt} /\ current'[j] = current[j]
    BY <1>1, <1>3, <2>1 DEF RequestChainTxn, RemoveResponseJob, TypeOK, tables
  <2> QED BY <1>1, <2>1, <2>2, <2>3, TokenMove DEF Goto, CarryingPcs, CancellingPcs
<1> QED BY <1>2, <1>3 DEF SenderStep

\* The jobs the callback releases were already being chosen for.
LEMMA TokenCallback ==
  ASSUME OneAttemptInv, Callback PROVE TokenInv'
<1>1. TypeOK /\ WaitlistInv /\ TokenInv /\ serviceCycle \in Cycles
  BY DEF OneAttemptInv, TypeInv, TypeOK, Callback
<1>2. \A u \in Task : pc'[u] = pc[u] \/ (pc[u] = "waitlisted" /\ pc'[u] = "select")
  <2> SUFFICES ASSUME NEW u \in Task, Listed(u, waitlist[serviceCycle])
               PROVE  pc[u] = "waitlisted"
    BY DEF Callback
  <2> QED BY <1>1 DEF Listed, WaitlistInv
<1> SUFFICES ASSUME NEW j \in JobIds PROVE OneToken(j)'
  BY DEF TokenInv
<1>3. OneToken(j)
  BY <1>1 DEF TokenInv
<1>4. \A u \in TasksOf(j) : pc'[u] = pc[u] \/ (pc[u] = "waitlisted" /\ pc'[u] = "select")
  BY <1>2 DEF TasksOf
<1> QED BY <1>3, <1>4, TokenKept
        DEF Callback, Carrying, Replacing, CarryingPcs, CancellingPcs, tables

LEMMA TokenNext == ExactlyOnce /\ OneAttemptInv /\ [Next]_vars => OneAttemptInv'
<1> SUFFICES ASSUME ExactlyOnce, OneAttemptInv, [Next]_vars PROVE TokenInv'
  BY TypeNext DEF OneAttemptInv
<1>1. TokenInv
  BY DEF OneAttemptInv
<1>2. ASSUME NEW t \in Task, Deliver(t) \/ TaskStep(t) PROVE TokenInv'
  BY <1>2, TokenDeliver, TokenTask, TokenStore, TokenLookup, TokenCancel DEF TaskStep
<1>3. CASE SenderStep
  BY <1>3, TokenSender
<1>4. CASE ServiceStep
  <2>1. CASE PickCycle \/ PublishState
    BY <1>1, <2>1, TokenStay DEF PickCycle, PublishState, tables, tasks
  <2> QED BY <1>4, <2>1, TokenCallback DEF ServiceStep
<1>5. CASE Environment
  BY <1>1, <1>5, TokenStay
  DEF Environment, Tick, PeerRelays, PeerReassigns, ExecutorsRespond, tables, tasks
<1>6. CASE UNCHANGED vars
  BY <1>1, <1>6, TokenStay DEF vars, tables, tasks
<1> QED BY <1>2, <1>3, <1>4, <1>5, <1>6 DEF Next

LEMMA TokenInit == Init => OneAttemptInv
<1> SUFFICES ASSUME Init PROVE TokenInv
  BY TypeInit DEF OneAttemptInv
<1> QED BY DEF Init, TokenInv, OneToken, TasksOf, Tracked, Carrying, Replacing, CarryingPcs,
               CancellingPcs

\* When every event is delivered once, a job is in one table, or chosen for by one
\* task, and never both: whatever the interleaving of its handlers.
THEOREM OneAttempt == ExactlyOnce => (Spec => []OneAttemptPerJob)
<1>1. OneAttemptInv => OneAttemptPerJob
  BY DEF OneAttemptInv, TokenInv, OneToken, OneAttemptPerJob
<1>2. ASSUME ExactlyOnce PROVE Spec => []OneAttemptPerJob
  <2>1. OneAttemptInv /\ [Next]_vars => OneAttemptInv'
    BY <1>2, TokenNext
  <2> QED BY <1>1, <2>1, TokenInit, PTL DEF Spec
<1> QED BY <1>2
-----------------------------------------------------------------------------
(* The waitlist, whatever is delivered.                                     *)

WakeupInv == NoLostWakeup /\ ServiceInv /\ StrandedOnlyAtTheEdge

LEMMA WakeupInit == Init => WakeupInv
BY DEF Init, WakeupInv, NoLostWakeup, ServiceInv, StrandedOnlyAtTheEdge, Cycles

LEMMA WakeupStay ==
  ASSUME WakeupInv, UNCHANGED <<waitlist, known, serviceCycle, servicePc, clock>>
  PROVE  WakeupInv'
BY DEF WakeupInv, NoLostWakeup, ServiceInv, StrandedOnlyAtTheEdge

\* A job joins a waitlist only while the state of its cycle is not published, so
\* the callback of that cycle is still to come, unless the service skipped it.
LEMMA WakeupSelect ==
  ASSUME TypeOK, WakeupInv, NEW t \in Task, Select(t) PROVE WakeupInv'
<1> DEFINE c == JobCycle[t.job]
<1>1. UNCHANGED <<known, serviceCycle, servicePc, clock>>
  BY DEF Select, service, environment
<1>2. CASE UNCHANGED waitlist
  BY <1>1, <1>2, WakeupStay
<1>3. CASE c \notin known /\ waitlist' = [waitlist EXCEPT ![c] = Append(@, t)]
  <2>1. \A d \in Cycles : d # c => waitlist'[d] = waitlist[d]
    BY <1>3 DEF TypeOK
  <2>2. NoLostWakeup'
    BY <1>1, <1>3, <2>1 DEF WakeupInv, NoLostWakeup, TypeOK
  <2>3. StrandedOnlyAtTheEdge'
    BY <1>1, <1>3, <2>1 DEF WakeupInv, ServiceInv, StrandedOnlyAtTheEdge
  <2>4. ServiceInv'
    BY <1>1 DEF WakeupInv, ServiceInv
  <2> QED BY <2>2, <2>3, <2>4 DEF WakeupInv
<1> QED BY <1>2, <1>3 DEF Select, Unpublished

LEMMA WakeupService ==
  ASSUME TypeOK, WakeupInv, ServiceStep PROVE WakeupInv'
<1>1. clock' = clock /\ clock \in Nat /\ StatesToMaintain \in Nat /\ serviceCycle \in Nat
  BY ConstantsAssumption
  DEF TypeOK, Cycles, ServiceStep, PickCycle, PublishState, Callback, environment
<1>2. CASE PickCycle
  <2>1. servicePc = "idle" /\ servicePc' = "generate" /\ UNCHANGED <<waitlist, known>>
    BY <1>2 DEF PickCycle, waiting
  <2>2. PICK now \in {clock, clock + 1} : serviceCycle' = SkipTo(serviceCycle, now)
    BY <1>2 DEF PickCycle, ServiceClocks
  <2>3. \A c \in Cycles : c < serviceCycle' =>
          c < serviceCycle \/ clock + 1 >= StatesToMaintain + c
    BY <1>1, <2>2 DEF SkipTo, Cycles
  <2>4. NoLostWakeup'
    BY <2>1 DEF WakeupInv, NoLostWakeup
  <2>5. ServiceInv' /\ StrandedOnlyAtTheEdge'
    BY <1>1, <2>1, <2>3 DEF WakeupInv, ServiceInv, StrandedOnlyAtTheEdge
  <2> QED BY <2>4, <2>5 DEF WakeupInv
<1>3. CASE PublishState
  BY <1>1, <1>3
  DEF PublishState, WakeupInv, NoLostWakeup, ServiceInv, StrandedOnlyAtTheEdge, waiting
<1>4. CASE Callback
  <2>1. /\ serviceCycle \in known /\ serviceCycle \in Cycles /\ servicePc' = "idle"
        /\ serviceCycle' = serviceCycle + 1 /\ known' = known
    BY <1>4 DEF WakeupInv, ServiceInv, TypeOK, Callback
  <2>2. waitlist'[serviceCycle] = <<>>
        /\ \A c \in Cycles : c # serviceCycle => waitlist'[c] = waitlist[c]
    BY <1>4, <2>1 DEF TypeOK, Callback
  <2>3. NoLostWakeup'
    BY <1>4, <2>1, <2>2 DEF WakeupInv, NoLostWakeup, TypeOK
  <2>4. \A c \in Cycles : c < serviceCycle' => c < serviceCycle \/ c = serviceCycle
    BY <1>1, <2>1 DEF Cycles
  <2>5. ServiceInv' /\ StrandedOnlyAtTheEdge'
    BY <1>1, <2>1, <2>2, <2>4 DEF WakeupInv, ServiceInv, StrandedOnlyAtTheEdge
  <2> QED BY <2>3, <2>5 DEF WakeupInv
<1> QED BY <1>2, <1>3, <1>4 DEF ServiceStep

LEMMA WakeupNext == TypeOK /\ WakeupInv /\ [Next]_vars => WakeupInv'
<1> SUFFICES ASSUME TypeOK, WakeupInv, [Next]_vars PROVE WakeupInv'
  OBVIOUS
<1>1. ASSUME NEW t \in Task, Deliver(t) \/ TaskStep(t) PROVE WakeupInv'
  <2>1. CASE Select(t)
    BY <2>1, WakeupSelect
  <2>2. CASE ~Select(t)
    BY <1>1, <2>2, WakeupStay
    DEF Deliver, TaskStep, Store, Send, Timer, Untrack, Lookup, CancelActive, CancelCurrent,
        Decode, Reread, RemoveJob, Respond, waiting, service, environment
  <2> QED BY <2>1, <2>2
<1>2. CASE SenderStep
  BY <1>2, WakeupStay
  DEF SenderStep, CommonChainTxn, RequestChainTxn, RemoveResponseJob, waiting, service, environment
<1>3. CASE Tick
  <2>1. clock \in Nat /\ StatesToMaintain \in Nat /\ clock' = clock + 1
    BY <1>3, ConstantsAssumption DEF TypeOK, Tick, Cycles
  <2> QED BY <1>3, <2>1
          DEF WakeupInv, NoLostWakeup, ServiceInv, StrandedOnlyAtTheEdge, Tick, Cycles, waiting, service
<1>4. CASE \E j \in JobIds : PeerRelays(j) \/ PeerReassigns(j) \/ ExecutorsRespond(j)
  BY <1>4, WakeupStay DEF PeerRelays, PeerReassigns, ExecutorsRespond, waiting, service, environment
<1>5. CASE UNCHANGED vars
  BY <1>5, WakeupStay DEF vars, waiting, service, environment
<1> QED BY <1>1, <1>2, <1>3, <1>4, <1>5, WakeupService DEF Next, Environment

LEMMA WakeupAlways == Spec => []WakeupInv
<1>1. TypeInv => TypeOK
  BY DEF TypeInv
<1> QED BY <1>1, TypeInit, TypeNext, WakeupInit, WakeupNext, PTL DEF Spec

\* Waiting tasks stay listed when the lists stay and nobody else begins to wait.
LEMMA ListedKept ==
  ASSUME WaitingIsListed, UNCHANGED waitlist,
         \A u \in Task : pc'[u] = "waitlisted" => pc[u] = "waitlisted"
  PROVE  WaitingIsListed'
BY DEF WaitingIsListed, Listed

LEMMA ListedMove ==
  ASSUME TypeOK, WaitingIsListed, UNCHANGED waitlist, NEW t \in Task, NEW l,
         pc' = [pc EXCEPT ![t] = l], l # "waitlisted"
  PROVE  WaitingIsListed'
<1>1. \A u \in Task : pc'[u] = "waitlisted" => pc[u] = "waitlisted"
  BY DEF TypeOK
<1> QED BY <1>1, ListedKept

\* A task that begins to wait puts itself on the list of its cycle.
LEMMA ListedSelect ==
  ASSUME TypeOK, WaitingIsListed, NEW t \in Task, Select(t) PROVE WaitingIsListed'
<1> DEFINE c == JobCycle[t.job]
<1>1. CASE UNCHANGED waitlist /\ (Goto(t, "dropped") \/ Goto(t, "store"))
  BY <1>1, ListedMove DEF Goto
<1>2. CASE Goto(t, "waitlisted") /\ waitlist' = [waitlist EXCEPT ![c] = Append(@, t)]
  <2> SUFFICES ASSUME NEW u \in Task, pc'[u] = "waitlisted"
               PROVE  Listed(u, waitlist'[JobCycle[u.job]])
    BY DEF WaitingIsListed, Listed
  <2>1. c \in Cycles /\ JobCycle[u.job] \in Cycles
    BY TaskFields, ConstantsAssumption
  <2>2. PICK list : list = waitlist[JobCycle[u.job]]
    OBVIOUS
  <2>3. list \in Seq(Task) /\ Len(list) \in Nat
    BY <2>1, <2>2 DEF TypeOK
  <2>4. waitlist'[JobCycle[u.job]] = IF JobCycle[u.job] = c THEN Append(list, t) ELSE list
    BY <1>2, <2>1, <2>2 DEF TypeOK
  <2>5. CASE u = t
    <3>1. waitlist'[JobCycle[u.job]] = Append(list, t)
      BY <2>4, <2>5
    <3>2. Append(list, t)[Len(list) + 1] = t /\ Len(list) + 1 \in 1..Len(Append(list, t))
      BY <2>3
    <3> QED BY <2>5, <3>1, <3>2 DEF Listed
  <2>6. CASE u # t
    <3>1. pc[u] = "waitlisted"
      BY <1>2, <2>6 DEF Goto, TypeOK
    <3>2. PICK i \in 1..Len(list) : list[i] = u
      BY <2>2, <3>1 DEF WaitingIsListed, Listed
    <3>3. Append(list, t)[i] = u /\ i \in 1..Len(Append(list, t))
      BY <2>3, <3>2
    <3> QED BY <2>4, <3>2, <3>3 DEF Listed
  <2> QED BY <2>5, <2>6
<1> QED BY <1>1, <1>2 DEF Select

\* The callback wakes every task of the list it empties.
LEMMA ListedCallback ==
  ASSUME TypeOK, WaitingIsListed, Callback PROVE WaitingIsListed'
<1>1. serviceCycle \in Cycles /\ waitlist' = [waitlist EXCEPT ![serviceCycle] = <<>>]
  BY DEF Callback, TypeOK
<1> SUFFICES ASSUME NEW u \in Task, pc'[u] = "waitlisted"
             PROVE  Listed(u, waitlist'[JobCycle[u.job]])
  BY DEF WaitingIsListed, Listed
<1>2. ~Listed(u, waitlist[serviceCycle]) /\ pc[u] = "waitlisted"
  BY DEF Callback
<1>3. Listed(u, waitlist[JobCycle[u.job]]) /\ JobCycle[u.job] # serviceCycle
  BY <1>2 DEF WaitingIsListed
<1>4. JobCycle[u.job] \in Cycles
  BY TaskFields, ConstantsAssumption
<1>5. waitlist'[JobCycle[u.job]] = waitlist[JobCycle[u.job]]
  BY <1>1, <1>3, <1>4 DEF TypeOK
<1> QED BY <1>3, <1>5

LEMMA ListedNext == TypeOK /\ WaitingIsListed /\ [Next]_vars => WaitingIsListed'
<1> SUFFICES ASSUME TypeOK, WaitingIsListed, [Next]_vars PROVE WaitingIsListed'
  OBVIOUS
<1>1. ASSUME NEW t \in Task, Deliver(t) PROVE WaitingIsListed'
  <2>1. EntryPc(t) # "waitlisted"
    BY DEF EntryPc
  <2> QED BY <1>1, <2>1, ListedMove DEF Deliver, Goto, waiting
<1>2. ASSUME NEW t \in Task, TaskStep(t) PROVE WaitingIsListed'
  <2>1. CASE Select(t)
    BY <2>1, ListedSelect
  <2>2. CASE Store(t) \/ Send(t) \/ Timer(t) \/ Untrack(t)
    <3>1. UNCHANGED waitlist /\ \E l : l # "waitlisted" /\ pc' = [pc EXCEPT ![t] = l]
      BY <2>2 DEF Store, Send, Timer, Untrack, Goto, waiting
    <3> QED BY <3>1, ListedMove
  <2>3. CASE Lookup(t) \/ CancelActive(t) \/ CancelCurrent(t)
    <3>1. UNCHANGED waitlist /\ \E l : l # "waitlisted" /\ pc' = [pc EXCEPT ![t] = l]
      BY <2>3 DEF Lookup, CancelActive, CancelCurrent, AfterCancel, Goto, waiting
    <3> QED BY <3>1, ListedMove
  <2>4. CASE Decode(t) \/ Reread(t) \/ RemoveJob(t) \/ Respond(t)
    <3>1. UNCHANGED waitlist /\ \E l : l # "waitlisted" /\ pc' = [pc EXCEPT ![t] = l]
      BY <2>4 DEF Decode, Reread, RemoveJob, Respond, Goto, waiting
    <3> QED BY <3>1, ListedMove
  <2> QED BY <1>2, <2>1, <2>2, <2>3, <2>4 DEF TaskStep
<1>3. CASE CommonChainTxn
  <2>1. Head(relayChan) \in Task /\ UNCHANGED waitlist
    BY <1>3 DEF CommonChainTxn, TypeOK, waiting
  <2>2. \E l \in {"relaySubmitted", "slashSubmitted"} : pc' = [pc EXCEPT ![Head(relayChan)] = l]
    BY <1>3 DEF CommonChainTxn, Goto
  <2> QED BY <2>1, <2>2, ListedMove
<1>4. CASE RequestChainTxn \/ RemoveResponseJob
  <2>1. Head(responseChan) \in Task /\ UNCHANGED waitlist
    BY <1>4 DEF RequestChainTxn, RemoveResponseJob, TypeOK, waiting
  <2>2. \E l \in {"responseSubmitted", "responded"} : pc' = [pc EXCEPT ![Head(responseChan)] = l]
    BY <1>4 DEF RequestChainTxn, RemoveResponseJob, Goto
  <2> QED BY <2>1, <2>2, ListedMove
<1>5. CASE PickCycle \/ PublishState
  BY <1>5, ListedKept DEF PickCycle, PublishState, waiting, tasks
<1>6. CASE Environment \/ UNCHANGED vars
  <2>1. UNCHANGED <<waitlist, pc>>
    BY <1>6 DEF Environment, Tick, PeerRelays, PeerReassigns, ExecutorsRespond, vars, waiting, tasks
  <2> QED BY <2>1, ListedKept
<1> QED BY <1>1, <1>2, <1>3, <1>4, <1>5, <1>6, ListedCallback DEF Next, SenderStep, ServiceStep

LEMMA ListedAlways == Spec => []WaitingIsListed
<1>1. TypeInv => TypeOK
  BY DEF TypeInv
<1>2. Init => WaitingIsListed
  BY DEF Init, WaitingIsListed
<1> QED BY <1>1, <1>2, TypeInit, TypeNext, ListedNext, PTL DEF Spec

\* Nobody is forgotten on the waitlist, except a job that is stranded where the two
\* clocks disagree about the oldest cycle.
THEOREM NoWakeupIsLost == Spec => []NobodyForgotten
<1>1. WakeupInv /\ WaitingIsListed => NobodyForgotten
  BY DEF WakeupInv, NobodyForgotten
<1> QED BY <1>1, WakeupAlways, ListedAlways, PTL
-----------------------------------------------------------------------------
(* Attempts and the contract, whatever is delivered.                        *)

NotAheadInv == OrderInv /\ AttemptNotAhead

LEMMA NotAheadInit == Init => NotAheadInv
BY ConstantsAssumption
DEF Init, NotAheadInv, OrderInv, AttemptNotAhead, TasksOf, NoAttempt, Attempts

\* The contract only moves on, and an event is emitted when it does.
LEMMA ContractStep ==
  ASSUME TypeOK, OrderInv, NEW j \in JobIds, NEW s, NEW g \in Gateways,
         RelayMined(j, s, g) \/ (s \in Attempts /\ ReassignMined(j, s, g))
  PROVE  /\ \A k \in JobIds : chain'[k].seq >= chain[k].seq
         /\ \A k \in JobIds : \A a \in Attempts :
              /\ reassigned[k][a] # NoGateway => reassigned'[k][a] # NoGateway
              /\ reassigned'[k][a] # NoGateway => a < chain'[k].seq
<1>1. \A k \in JobIds : chain[k].seq \in Nat /\ chain[k] \in ChainRecord
  BY ConstantsAssumption DEF TypeOK, ChainRecord
<1>2. CASE RelayMined(j, s, g)
  <2>1. \A k \in JobIds : chain'[k].seq = chain[k].seq
    <3>1. CASE AcceptsAttempt(j, s)
      <4>1. PICK st \in {"relayed", "unavailable"} :
              chain' = [chain EXCEPT ![j].status = st, ![j].by = g]
        BY <1>2, <3>1 DEF RelayMined
      <4>2. chain \in [JobIds -> ChainRecord]
        BY DEF TypeOK, ChainRecord
      <4> QED BY <4>1, <4>2 DEF ChainRecord
    <3>2. CASE ~AcceptsAttempt(j, s)
      BY <1>2, <3>2 DEF RelayMined
    <3> QED BY <3>1, <3>2
  <2> QED BY <1>1, <1>2, <2>1 DEF RelayMined, OrderInv, Attempts
<1>3. CASE s \in Attempts /\ ReassignMined(j, s, g) /\ AcceptsAttempt(j, s)
  <2>1. /\ chain' = [chain EXCEPT ![j].seq = s + 1] /\ chain[j].seq = s
        /\ reassigned' = [reassigned EXCEPT ![j][s] = g]
    BY <1>3 DEF ReassignMined, AcceptsAttempt
  <2>2. \A k \in JobIds : chain'[k].seq = IF k = j THEN s + 1 ELSE chain[k].seq
    BY <2>1 DEF TypeOK
  <2>3. \A k \in JobIds : \A a \in Attempts :
          reassigned'[k][a] = IF k = j /\ a = s THEN g ELSE reassigned[k][a]
    BY <1>3, <2>1 DEF TypeOK
  <2> QED BY <1>1, <1>3, <2>1, <2>2, <2>3, ConstantsAssumption DEF OrderInv, Attempts
<1>4. CASE ReassignMined(j, s, g) /\ ~AcceptsAttempt(j, s)
  BY <1>1, <1>4 DEF ReassignMined, contracts, OrderInv
<1> QED BY <1>2, <1>3, <1>4

\* A step of a task t keeps the order when what t holds, and what it stores, is not
\* ahead of the contract.
LEMMA NotAheadTask ==
  ASSUME TypeOK, NotAheadInv, NEW t \in Task, NEW l, UNCHANGED contracts,
         pc' = [pc EXCEPT ![t] = l],
         pc[t] = "idle" => Emitted(t),
         \A u \in Task : u # t => held'[u] = held[u],
         held'[t].seq <= chain[t.job].seq,
         \A j \in JobIds : active'[j] \in {active[j], NoAttempt, held[t]} \/ j # t.job,
         \A j \in JobIds : current'[j] \in {current[j], NoAttempt, held[t]} \/ j # t.job,
         \A j \in JobIds : j # t.job => active'[j] = active[j] /\ current'[j] = current[j]
  PROVE  NotAheadInv'
<1>1. chain' = chain /\ reassigned' = reassigned
  BY DEF contracts
<1>2. \A j \in JobIds : chain[j].seq \in Nat /\ 0 <= chain[j].seq
  BY ConstantsAssumption DEF TypeOK
<1>3. OrderInv'
  <2>1. \A u \in Task : pc'[u] # "idle" => pc[u] # "idle" \/ u = t
    BY DEF TypeOK
  <2>2. t.event = "GatewayReassigned" => reassigned[t.job][t.seq] # NoGateway
    BY DEF NotAheadInv, OrderInv, Emitted
  <2> QED BY <1>1, <2>1, <2>2 DEF NotAheadInv, OrderInv
<1>4. AttemptNotAhead'
  <2> SUFFICES ASSUME NEW j \in JobIds
               PROVE  /\ \A u \in TasksOf(j) : held'[u].seq <= chain[j].seq
                      /\ active'[j].seq <= chain[j].seq /\ current'[j].seq <= chain[j].seq
    BY <1>1 DEF AttemptNotAhead, TasksOf
  <2>1. /\ \A u \in TasksOf(j) : held[u].seq <= chain[j].seq
        /\ active[j].seq <= chain[j].seq /\ current[j].seq <= chain[j].seq
    BY DEF NotAheadInv, AttemptNotAhead
  <2>2. \A u \in TasksOf(j) : held'[u].seq <= chain[j].seq
    BY <2>1 DEF TasksOf
  <2>3. NoAttempt.seq <= chain[j].seq
    BY <1>2 DEF NoAttempt
  <2>4. j = t.job => held[t].seq <= chain[j].seq
    BY <2>1 DEF TasksOf
  <2> QED BY <2>1, <2>2, <2>3, <2>4
<1> QED BY <1>3, <1>4 DEF NotAheadInv

\* A step that moves on the contract, or nothing, keeps the order.
LEMMA NotAheadContract ==
  ASSUME TypeOK, NotAheadInv, UNCHANGED <<tables, held>>,
         \A u \in Task : pc'[u] # "idle" => pc[u] # "idle",
         \A j \in JobIds : chain[j].seq \in Nat /\ chain'[j].seq \in Nat,
         \A j \in JobIds : chain'[j].seq >= chain[j].seq,
         \A j \in JobIds : \A a \in Attempts :
           /\ reassigned[j][a] # NoGateway => reassigned'[j][a] # NoGateway
           /\ reassigned'[j][a] # NoGateway => a < chain'[j].seq
  PROVE  NotAheadInv'
<1>1. OrderInv'
  BY TaskFields DEF NotAheadInv, OrderInv
<1>2. AttemptNotAhead'
  <2> SUFFICES ASSUME NEW j \in JobIds
               PROVE  /\ \A u \in TasksOf(j) : held[u].seq <= chain'[j].seq
                      /\ active[j].seq <= chain'[j].seq /\ current[j].seq <= chain'[j].seq
    BY DEF AttemptNotAhead, TasksOf, tables
  <2>1. /\ \A u \in TasksOf(j) : held[u].seq <= chain[j].seq /\ held[u].seq \in Nat
        /\ active[j].seq <= chain[j].seq /\ current[j].seq <= chain[j].seq
        /\ active[j].seq \in Nat /\ current[j].seq \in Nat
    <3>1. active[j] \in Attempt /\ current[j] \in Attempt /\ \A u \in TasksOf(j) : held[u] \in Attempt
      BY StoredAttempts DEF TypeOK, TasksOf
    <3>2. \A a \in Attempt : a.seq \in Nat
      BY ConstantsAssumption DEF Attempt
    <3> QED BY <3>1, <3>2 DEF NotAheadInv, AttemptNotAhead
  <2> QED BY <2>1
<1> QED BY <1>1, <1>2 DEF NotAheadInv

\* The steps of a task: what it takes over is an entry or its own attempt, and it
\* begins the next attempt only after the contract did.
LEMMA NotAheadTaskStep ==
  ASSUME TypeInv, NotAheadInv, NEW t \in Task, Deliver(t) \/ TaskStep(t) PROVE NotAheadInv'
<1>0. TypeOK /\ HeldInv /\ t.job \in JobIds /\ t \in TasksOf(t.job)
  BY TaskFields DEF TypeInv, TasksOf
<1>1. /\ TypeOK /\ HeldInv /\ t.job \in JobIds /\ t \in TasksOf(t.job)
      /\ chain[t.job].seq \in Nat /\ chain[t.job].seq >= 1
  <2>1. chain[t.job].seq \in 1..(MaxGatewayRetries + 1)
    BY <1>0 DEF TypeOK
  <2> QED BY <1>0, <2>1, ConstantsAssumption
<1>2. /\ held[t].seq <= chain[t.job].seq
      /\ active[t.job].seq <= chain[t.job].seq /\ current[t.job].seq <= chain[t.job].seq
  BY <1>1 DEF NotAheadInv, AttemptNotAhead
<1>3. CASE Deliver(t)
  <2>1. held'[t].seq <= chain[t.job].seq /\ \A u \in Task : u # t => held'[u] = held[u]
    <3>1. held' = [held EXCEPT ![t] = IF t.event = "JobRelayed" THEN FirstAttempt ELSE held[t]]
      BY <1>3 DEF Deliver
    <3>2. held'[t] \in {held[t], FirstAttempt} /\ \A u \in Task : u # t => held'[u] = held[u]
      BY <1>1, <3>1 DEF TypeOK
    <3> QED BY <1>1, <1>2, <3>2 DEF FirstAttempt
  <2>2. Emitted(t) /\ UNCHANGED <<tables, contracts>> /\ pc' = [pc EXCEPT ![t] = EntryPc(t)]
    BY <1>3 DEF Deliver, Goto
  <2> QED BY <1>1, <2>1, <2>2, NotAheadTask DEF tables
<1>4. CASE Select(t)
  <2>1. held'[t].seq <= chain[t.job].seq /\ \A u \in Task : u # t => held'[u] = held[u]
    <3>1. held' = held \/ \E g : held' = [held EXCEPT ![t].gateway = g]
      BY <1>4 DEF Select
    <3>2. held \in [Task -> Attempt]
      BY <1>1 DEF TypeOK
    <3> QED BY <1>2, <3>1, <3>2 DEF Attempt
  <2>2. /\ pc[t] # "idle" /\ UNCHANGED <<tables, contracts>>
        /\ \E l \in {"dropped", "store", "waitlisted"} : pc' = [pc EXCEPT ![t] = l]
    BY <1>4 DEF Select, Goto
  <2> QED BY <1>1, <2>1, <2>2, NotAheadTask DEF tables
<1>5. CASE Store(t) \/ Send(t) \/ Timer(t) \/ Untrack(t)
  <2>1. /\ pc[t] # "idle" /\ UNCHANGED <<held, contracts>>
        /\ \E l : pc' = [pc EXCEPT ![t] = l]
    BY <1>5 DEF Store, Send, Timer, Untrack, Goto
  <2>2. \A j \in JobIds :
          /\ j # t.job => active'[j] = active[j] /\ current'[j] = current[j]
          /\ active'[j] \in {active[j], NoAttempt, held[t]}
          /\ current'[j] \in {current[j], NoAttempt, held[t]}
    BY <1>1, <1>5 DEF Store, Send, Timer, Untrack, TypeOK, tables
  <2> QED BY <1>1, <1>2, <2>1, <2>2, NotAheadTask
<1>6. CASE Lookup(t)
  <2>1. ReassignedEntry(t).seq <= chain[t.job].seq
    BY <1>2 DEF ReassignedEntry, TableOf
  <2>2. held'[t].seq <= chain[t.job].seq /\ \A u \in Task : u # t => held'[u] = held[u]
    BY <1>1, <1>2, <1>6, <2>1 DEF Lookup, TypeOK
  <2>3. /\ pc[t] # "idle" /\ UNCHANGED <<tables, contracts>>
        /\ \E l \in {"cancelActive", "ignored"} : pc' = [pc EXCEPT ![t] = l]
    BY <1>6 DEF Lookup, Goto
  <2> QED BY <1>1, <2>2, <2>3, NotAheadTask DEF tables
<1>7. CASE CancelActive(t) \/ CancelCurrent(t)
  <2>1. /\ pc[t] \in CancellingPcs /\ pc[t] # "idle" /\ UNCHANGED contracts
        /\ \E l : pc' = [pc EXCEPT ![t] = l]
    BY <1>7 DEF CancelActive, CancelCurrent, AfterCancel, Goto, CancellingPcs
  <2>2. t.event \notin CancelEvents =>
          t.event = "GatewayReassigned" /\ held[t].seq = t.seq /\ t.seq < chain[t.job].seq
    <3>1. t.event \notin CancelEvents => t.event = "GatewayReassigned" /\ held[t].seq = t.seq
      BY <1>1, <2>1 DEF HeldInv
    <3>2. t.event = "GatewayReassigned" => reassigned[t.job][t.seq] # NoGateway
      BY <2>1 DEF NotAheadInv, OrderInv
    <3> QED BY <1>1, <3>1, <3>2, TaskFields DEF NotAheadInv, OrderInv
  <2>3. /\ \A u \in Task : u # t => held'[u] = held[u]
        /\ held'[t] = held[t] \/ (t.event \notin CancelEvents /\ held'[t].seq = held[t].seq + 1)
    BY <1>1, <1>7 DEF CancelActive, CancelCurrent, AfterCancel, TypeOK
  <2>4. held'[t].seq <= chain[t.job].seq
    <3>1. held[t].seq \in Nat
      BY <1>1, ConstantsAssumption DEF TypeOK, Attempt
    <3> QED BY <1>1, <1>2, <2>2, <2>3, <3>1
  <2>5. \A j \in JobIds :
          /\ j # t.job => active'[j] = active[j] /\ current'[j] = current[j]
          /\ active'[j] \in {active[j], NoAttempt}
          /\ current'[j] \in {current[j], NoAttempt}
    BY <1>1, <1>7 DEF CancelActive, CancelCurrent, TypeOK
  <2> QED BY <1>1, <2>1, <2>3, <2>4, <2>5, NotAheadTask
<1>8. CASE Decode(t) \/ Reread(t) \/ RemoveJob(t) \/ Respond(t)
  <2>1. /\ pc[t] # "idle" /\ UNCHANGED <<current, contracts>>
        /\ \E l : pc' = [pc EXCEPT ![t] = l]
    BY <1>8 DEF Decode, Reread, RemoveJob, Respond, Goto, tables
  <2>2. /\ \A u \in Task : u # t => held'[u] = held[u]
        /\ held'[t] \in {held[t], active[t.job]}
    BY <1>1, <1>8 DEF Decode, Reread, RemoveJob, Respond, TypeOK
  <2>3. \A j \in JobIds : /\ j # t.job => active'[j] = active[j]
                          /\ active'[j] \in {active[j], NoAttempt}
    BY <1>1, <1>8 DEF Decode, Reread, RemoveJob, Respond, TypeOK, tables
  <2> QED BY <1>1, <1>2, <2>1, <2>2, <2>3, NotAheadTask
<1> QED BY <1>3, <1>4, <1>5, <1>6, <1>7, <1>8 DEF TaskStep

LEMMA NotAheadNext == TypeInv /\ NotAheadInv /\ [Next]_vars => NotAheadInv'
<1> SUFFICES ASSUME TypeInv, NotAheadInv, [Next]_vars PROVE NotAheadInv'
  OBVIOUS
<1>1. /\ TypeOK /\ TypeOK' /\ OrderInv
      /\ \A j \in JobIds : chain[j].seq \in Nat /\ chain'[j].seq \in Nat
  <2>1. TypeOK /\ TypeOK' /\ OrderInv
    BY TypeNext DEF TypeInv, NotAheadInv
  <2>2. \A n \in 1..(MaxGatewayRetries + 1) : n \in Nat
    BY ConstantsAssumption
  <2> QED BY <2>1, <2>2 DEF TypeOK
<1> DEFINE Moved ==
      /\ \A j \in JobIds : chain'[j].seq >= chain[j].seq
      /\ \A j \in JobIds : \A a \in Attempts :
           /\ reassigned[j][a] # NoGateway => reassigned'[j][a] # NoGateway
           /\ reassigned'[j][a] # NoGateway => a < chain'[j].seq
<1>2. UNCHANGED contracts => Moved
  BY <1>1 DEF contracts, OrderInv
<1>3. ASSUME Moved, UNCHANGED <<tables, held>>, \A u \in Task : pc'[u] # "idle" => pc[u] # "idle"
      PROVE  NotAheadInv'
  BY <1>1, <1>3, NotAheadContract
<1>4. CASE CommonChainTxn
  <2> DEFINE t == Head(relayChan)
  <2>1. t \in Task /\ t.job \in JobIds /\ pc[t] # "idle" /\ UNCHANGED <<tables, held>>
    BY <1>1, <1>4, TaskFields DEF CommonChainTxn, TypeOK
  <2>2. \A u \in Task : pc'[u] # "idle" => pc[u] # "idle"
    BY <1>1, <1>4, <2>1 DEF CommonChainTxn, Goto, TypeOK
  <2>3. Moved
    <3>1. CASE pc[t] = "queuedRelay" /\ RelayMined(t.job, held[t].seq, Self)
      BY <1>1, <2>1, <3>1, ContractStep DEF Gateways
    <3>2. CASE pc[t] = "queuedSlash" /\ ReassignMined(t.job, held[t].seq, held[t].gateway)
      <4>1. held[t].seq \in Attempts /\ held[t].gateway \in Gateways
        BY <2>1, <3>2 DEF TypeInv, HeldInv, ReportingPcs, Gateways
      <4> QED BY <1>1, <2>1, <3>2, <4>1, ContractStep
    <3> QED BY <1>2, <1>4, <3>1, <3>2 DEF CommonChainTxn
  <2> QED BY <1>3, <2>1, <2>2, <2>3
<1>5. CASE RequestChainTxn \/ RemoveResponseJob
  <2> DEFINE t == Head(responseChan)
  <2>1. /\ t \in Task /\ t.job \in JobIds /\ pc[t] # "idle" /\ UNCHANGED <<current, held, contracts>>
        /\ \E l : pc' = [pc EXCEPT ![t] = l]
    <3>1. t \in Task /\ t.job \in JobIds
      BY <1>1, <1>5, TaskFields DEF RequestChainTxn, RemoveResponseJob, TypeOK
    <3>2. CASE RequestChainTxn
      BY <3>1, <3>2 DEF RequestChainTxn, Goto, tables
    <3>3. CASE RemoveResponseJob
      BY <3>1, <3>3 DEF RemoveResponseJob, Goto
    <3> QED BY <1>5, <3>2, <3>3
  <2>2. \A j \in JobIds : /\ j # t.job => active'[j] = active[j]
                          /\ active'[j] \in {active[j], NoAttempt}
    BY <1>1, <1>5, <2>1 DEF RequestChainTxn, RemoveResponseJob, TypeOK, tables
  <2>3. held[t].seq <= chain[t.job].seq
    BY <2>1 DEF NotAheadInv, AttemptNotAhead, TasksOf
  <2> QED BY <1>1, <2>1, <2>2, <2>3, NotAheadTask
<1>6. CASE ServiceStep
  <2>1. CASE PickCycle \/ PublishState
    BY <1>2, <1>3, <2>1 DEF PickCycle, PublishState, tasks
  <2>2. CASE Callback
    <3>1. \A u \in Task : pc'[u] # "idle" => pc[u] # "idle"
      BY <1>1, <2>2 DEF Callback, Listed, TypeInv, WaitlistInv, TypeOK
    <3> QED BY <1>2, <1>3, <2>2, <3>1 DEF Callback
  <2> QED BY <1>6, <2>1, <2>2 DEF ServiceStep
<1>7. CASE Environment
  <2>1. UNCHANGED <<tables, tasks>>
    BY <1>7 DEF Environment, Tick, PeerRelays, PeerReassigns, ExecutorsRespond
  <2>2. Moved
    <3>1. CASE Tick
      BY <1>2, <3>1 DEF Tick
    <3>2. ASSUME NEW j \in JobIds, PeerRelays(j) \/ PeerReassigns(j) PROVE Moved
      <4>1. \E g \in Gateways :
              \/ RelayMined(j, chain[j].seq, g)
              \/ (chain[j].seq \in Attempts /\ ReassignMined(j, chain[j].seq, g))
        <5>1. PeerRelays(j) => \E p \in Peers : RelayMined(j, chain[j].seq, p)
          BY DEF PeerRelays
        <5>2. PeerReassigns(j) => /\ chain[j].seq \in Attempts
                                  /\ \E old \in Gateways : ReassignMined(j, chain[j].seq, old)
          BY DEF PeerReassigns
        <5> QED BY <3>2, <5>1, <5>2 DEF Gateways
      <4> QED BY <1>1, <4>1, ContractStep
    <3>3. ASSUME NEW j \in JobIds, ExecutorsRespond(j) PROVE Moved
      <4>1. \A k \in JobIds : chain'[k].seq = chain[k].seq
        <5>1. chain \in [JobIds -> ChainRecord]
          BY <1>1 DEF TypeOK, ChainRecord
        <5> QED BY <3>3, <5>1 DEF ExecutorsRespond, ChainRecord
      <4> QED BY <1>1, <3>3, <4>1 DEF ExecutorsRespond, OrderInv
    <3> QED BY <1>7, <3>1, <3>2, <3>3 DEF Environment
  <2> QED BY <1>3, <2>1, <2>2 DEF tasks
<1>8. CASE UNCHANGED vars
  BY <1>2, <1>3, <1>8 DEF vars, tasks
<1> QED BY <1>4, <1>5, <1>6, <1>7, <1>8, NotAheadTaskStep DEF Next, SenderStep

\* No attempt of a job runs ahead of the contract's sequence id.
THEOREM NeverAhead == Spec => []AttemptNotAhead
<1>1. NotAheadInv => AttemptNotAhead
  BY DEF NotAheadInv
<1> QED BY <1>1, TypeInit, TypeNext, NotAheadInit, NotAheadNext, PTL DEF Spec
-----------------------------------------------------------------------------
(* The reports of the slash timer and the contract, whatever is delivered.   *)

\* What a transaction does to the contract: it announces what it moves past, takes back
\* no announcement, and opens no job again.
LEMMA ReportStep ==
  ASSUME TypeOK, Announced, NEW j \in JobIds, NEW s, NEW g \in Gateways,
         RelayMined(j, s, g) \/ (s \in Attempts /\ ReassignMined(j, s, g))
  PROVE  /\ Announced'
         /\ \A k \in JobIds : chain[k].status # "open" => chain'[k].status # "open"
         /\ \A k \in JobIds : \A a \in Attempts :
              reassigned[k][a] # NoGateway => reassigned'[k][a] # NoGateway
<1>1. chain \in [JobIds -> ChainRecord] /\ \A k \in JobIds : chain[k].seq \in Nat
  BY ConstantsAssumption DEF TypeOK, ChainRecord
<1>2. CASE RelayMined(j, s, g) /\ AcceptsAttempt(j, s)
  <2>1. PICK st \in {"relayed", "unavailable"} :
          chain' = [chain EXCEPT ![j].status = st, ![j].by = g]
    BY <1>2 DEF RelayMined
  <2>2. \A k \in JobIds : chain'[k].seq = chain[k].seq /\ chain'[k].status \in {chain[k].status, st}
    BY <1>1, <2>1 DEF ChainRecord
  <2>3. reassigned' = reassigned
    BY <1>2 DEF RelayMined
  <2> QED BY <2>1, <2>2, <2>3 DEF Announced
<1>3. CASE s \in Attempts /\ ReassignMined(j, s, g) /\ AcceptsAttempt(j, s)
  <2>1. /\ chain' = [chain EXCEPT ![j].seq = s + 1] /\ chain[j].seq = s
        /\ reassigned' = [reassigned EXCEPT ![j][s] = g]
    BY <1>3 DEF ReassignMined, AcceptsAttempt
  <2>2. \A k \in JobIds : /\ chain'[k].seq = IF k = j THEN s + 1 ELSE chain[k].seq
                          /\ chain'[k].status = chain[k].status
    BY <1>1, <2>1 DEF ChainRecord
  <2>3. \A k \in JobIds : \A a \in Attempts :
          reassigned'[k][a] = IF k = j /\ a = s THEN g ELSE reassigned[k][a]
    BY <1>3, <2>1 DEF TypeOK
  <2>4. g # NoGateway
    BY ConstantsAssumption
  <2>5. Announced'
    <3> SUFFICES ASSUME NEW k \in JobIds, NEW a \in Attempts, a < chain'[k].seq
                 PROVE  reassigned'[k][a] # NoGateway
      BY DEF Announced
    <3>1. s \in Nat /\ a \in Nat
      BY <1>3 DEF Attempts
    <3>2. (k = j /\ a = s) \/ a < chain[k].seq
      BY <1>1, <2>1, <2>2, <3>1
    <3> QED BY <2>3, <2>4, <3>2 DEF Announced
  <2> QED BY <2>2, <2>3, <2>4, <2>5
<1>4. CASE UNCHANGED contracts
  BY <1>4 DEF contracts, Announced
<1> QED BY <1>2, <1>3, <1>4 DEF RelayMined, ReassignMined, contracts

\* No report is mined, and the contract moves on or stays.
LEMMA ReportKept ==
  ASSUME HeldInv, ReportInv, Announced',
         \A u \in Task : pc'[u] = "slashSubmitted" =>
                           pc[u] = "slashSubmitted" /\ held'[u] = held[u],
         \A k \in JobIds : chain[k].status # "open" => chain'[k].status # "open",
         \A k \in JobIds : \A a \in Attempts :
           reassigned[k][a] # NoGateway => reassigned'[k][a] # NoGateway
  PROVE  ReportInv'
<1>1. ASSUME ~RpcFaults, NEW u \in Task, pc'[u] = "slashSubmitted" PROVE ReportSettled(u)'
  <2>1. pc[u] = "slashSubmitted" /\ held'[u] = held[u] /\ ReportSettled(u)
    BY <1>1 DEF ReportInv, ReportsSettled
  <2>2. held[u].seq \in Attempts /\ u.job \in JobIds
    BY <2>1, TaskFields DEF HeldInv, ReportingPcs
  <2> QED BY <1>1, <2>1, <2>2 DEF ReportSettled
<1> QED BY <1>1 DEF ReportInv, ReportsSettled

\* A step of one task that leaves the contract alone.
LEMMA ReportMove ==
  ASSUME TypeInv, ReportInv, UNCHANGED contracts, NEW t \in Task, NEW l,
         pc' = [pc EXCEPT ![t] = l], l # "slashSubmitted",
         \A u \in Task : u # t => held'[u] = held[u]
  PROVE  ReportInv'
<1>1. \A u \in Task : pc'[u] = "slashSubmitted" => u # t /\ pc[u] = "slashSubmitted"
  BY DEF TypeInv, TypeOK
<1>2. Announced'
  BY DEF ReportInv, Announced, contracts
<1> QED BY <1>1, <1>2, ReportKept DEF TypeInv, contracts

\* A report that is mined has moved the contract on, or comes after it moved on.
LEMMA ReportMined ==
  ASSUME TypeInv, NotAheadInv, ReportInv, NEW t \in Task, pc[t] = "queuedSlash",
         ReassignMined(t.job, held[t].seq, held[t].gateway),
         pc' = [pc EXCEPT ![t] = "slashSubmitted"], held' = held
  PROVE  ReportInv'
<1>1. /\ TypeOK /\ HeldInv /\ t.job \in JobIds /\ held[t].seq \in Attempts
      /\ held[t].gateway \in Gateways /\ held[t].gateway # NoGateway
  BY TaskFields, ConstantsAssumption DEF TypeInv, HeldInv, ReportingPcs, Gateways
<1>2. /\ Announced'
      /\ \A k \in JobIds : chain[k].status # "open" => chain'[k].status # "open"
      /\ \A k \in JobIds : \A a \in Attempts :
           reassigned[k][a] # NoGateway => reassigned'[k][a] # NoGateway
  BY <1>1, ReportStep DEF ReportInv
<1>3. reassigned'[t.job][held[t].seq] # NoGateway \/ chain'[t.job].status # "open"
  <2>1. CASE AcceptsAttempt(t.job, held[t].seq)
    BY <1>1, <2>1 DEF ReassignMined, TypeOK
  <2>2. CASE chain[t.job].status # "open"
    BY <1>1, <1>2, <2>2
  <2>3. CASE chain[t.job].seq # held[t].seq
    <3>1. held[t].seq <= chain[t.job].seq
      BY <1>1 DEF NotAheadInv, AttemptNotAhead, TasksOf
    <3>2. held[t].seq \in Nat /\ chain[t.job].seq \in Nat
      <4>1. chain[t.job].seq \in 1..(MaxGatewayRetries + 1)
        BY <1>1 DEF TypeOK
      <4> QED BY <1>1, <4>1, ConstantsAssumption DEF Attempts
    <3>3. held[t].seq < chain[t.job].seq
      BY <2>3, <3>1, <3>2
    <3> QED BY <1>1, <1>2, <3>3 DEF ReportInv, Announced
  <2> QED BY <2>1, <2>2, <2>3 DEF AcceptsAttempt
<1>4. ASSUME ~RpcFaults, NEW u \in Task, pc'[u] = "slashSubmitted" PROVE ReportSettled(u)'
  <2>1. CASE u = t
    BY <1>3, <1>4, <2>1 DEF ReportSettled
  <2>2. CASE u # t
    <3>1. pc[u] = "slashSubmitted" /\ ReportSettled(u)
      BY <1>1, <1>4, <2>2 DEF ReportInv, ReportsSettled, TypeOK
    <3>2. held[u].seq \in Attempts /\ u.job \in JobIds
      BY <1>1, <3>1, TaskFields DEF HeldInv, ReportingPcs
    <3> QED BY <1>2, <1>4, <3>1, <3>2 DEF ReportSettled
  <2> QED BY <2>1, <2>2
<1> QED BY <1>2, <1>4 DEF ReportInv, ReportsSettled

LEMMA ReportSender ==
  ASSUME TypeInv, NotAheadInv, ReportInv, CommonChainTxn PROVE ReportInv'
<1> DEFINE t == Head(relayChan)
<1>1. TypeOK /\ HeldInv /\ t \in Task /\ t.job \in JobIds /\ held' = held
  BY TaskFields DEF TypeInv, TypeOK, CommonChainTxn
<1>2. CASE pc[t] = "queuedRelay"
  <2>1. pc' = [pc EXCEPT ![t] = "relaySubmitted"]
    BY <1>2 DEF CommonChainTxn, Goto
  <2>2. CASE UNCHANGED contracts
    BY <1>1, <2>1, <2>2, ReportMove
  <2>3. CASE RelayMined(t.job, held[t].seq, Self)
    <3>1. \A u \in Task : pc'[u] = "slashSubmitted" => pc[u] = "slashSubmitted"
      BY <1>1, <2>1 DEF TypeOK
    <3>2. /\ Announced'
          /\ \A k \in JobIds : chain[k].status # "open" => chain'[k].status # "open"
          /\ \A k \in JobIds : \A a \in Attempts :
               reassigned[k][a] # NoGateway => reassigned'[k][a] # NoGateway
      BY <1>1, <2>3, ReportStep DEF ReportInv, Gateways
    <3> QED BY <1>1, <3>1, <3>2, ReportKept
  <2> QED BY <1>2, <2>2, <2>3 DEF CommonChainTxn
<1>3. CASE pc[t] = "queuedSlash"
  <2>1. pc' = [pc EXCEPT ![t] = "slashSubmitted"]
    BY <1>3 DEF CommonChainTxn, Goto
  <2>2. CASE ReassignMined(t.job, held[t].seq, held[t].gateway)
    BY <1>1, <1>3, <2>1, <2>2, ReportMined
  <2>3. CASE RpcFaults /\ UNCHANGED contracts
    BY <2>3 DEF ReportInv, Announced, ReportsSettled, contracts
  <2> QED BY <1>3, <2>2, <2>3 DEF CommonChainTxn
<1> QED BY <1>2, <1>3 DEF CommonChainTxn

LEMMA ReportTask ==
  ASSUME TypeInv, ReportInv, NEW t \in Task, Deliver(t) \/ TaskStep(t) PROVE ReportInv'
<1>1. UNCHANGED contracts
  BY DEF Deliver, TaskStep, Select, Store, Send, Timer, Untrack, Lookup, CancelActive,
         CancelCurrent, Decode, Reread, RemoveJob, Respond
<1>2. \A u \in Task : u # t => held'[u] = held[u]
  BY DEF TypeInv, TypeOK, Deliver, TaskStep, Select, Store, Send, Timer, Untrack, Lookup,
         CancelActive, CancelCurrent, AfterCancel, Decode, Reread, RemoveJob, Respond
<1>3. \E l : l # "slashSubmitted" /\ pc' = [pc EXCEPT ![t] = l]
  <2>1. CASE Deliver(t)
    <3>1. EntryPc(t) # "slashSubmitted"
      BY DEF EntryPc
    <3> QED BY <2>1, <3>1 DEF Deliver, Goto
  <2>2. CASE Select(t) \/ Store(t) \/ Timer(t) \/ Untrack(t) \/ Lookup(t)
    BY <2>2 DEF Select, Store, Timer, Untrack, Lookup, Goto
  <2>3. CASE CancelActive(t) \/ CancelCurrent(t)
    BY <2>3 DEF CancelActive, CancelCurrent, AfterCancel, Goto
  <2>4. CASE Send(t) \/ Decode(t) \/ Reread(t) \/ RemoveJob(t) \/ Respond(t)
    BY <2>4 DEF Send, Decode, Reread, RemoveJob, Respond, Goto
  <2> QED BY <2>1, <2>2, <2>3, <2>4 DEF TaskStep
<1> QED BY <1>1, <1>2, <1>3, ReportMove

LEMMA ReportNext ==
  ASSUME TypeInv, NotAheadInv, ReportInv, [Next]_vars PROVE ReportInv'
<1>1. TypeOK /\ HeldInv
  BY DEF TypeInv
<1>2. CASE RequestChainTxn \/ RemoveResponseJob
  <2>1. Head(responseChan) \in Task /\ UNCHANGED <<held, contracts>>
    BY <1>1, <1>2 DEF RequestChainTxn, RemoveResponseJob, TypeOK
  <2>2. \E l \in {"responseSubmitted", "responded"} : pc' = [pc EXCEPT ![Head(responseChan)] = l]
    BY <1>2 DEF RequestChainTxn, RemoveResponseJob, Goto
  <2> QED BY <2>1, <2>2, ReportMove
<1>3. CASE ServiceStep
  <2>1. UNCHANGED <<held, contracts>>
    BY <1>3 DEF ServiceStep, PickCycle, PublishState, Callback, tasks
  <2>2. \A u \in Task : pc'[u] = "slashSubmitted" => pc[u] = "slashSubmitted"
    BY <1>3 DEF ServiceStep, PickCycle, PublishState, Callback, tasks
  <2>3. Announced'
    BY <2>1 DEF ReportInv, Announced, contracts
  <2> QED BY <1>1, <2>1, <2>2, <2>3, ReportKept DEF contracts
<1>4. CASE Environment \/ UNCHANGED vars
  <2>1. UNCHANGED <<held, pc>>
    BY <1>4 DEF Environment, Tick, PeerRelays, PeerReassigns, ExecutorsRespond, vars, tasks
  <2>2. /\ Announced'
        /\ \A k \in JobIds : chain[k].status # "open" => chain'[k].status # "open"
        /\ \A k \in JobIds : \A a \in Attempts :
             reassigned[k][a] # NoGateway => reassigned'[k][a] # NoGateway
    <3>1. CASE UNCHANGED contracts
      BY <3>1 DEF ReportInv, Announced, contracts
    <3>2. ASSUME NEW j \in JobIds, PeerRelays(j)
          PROVE  \E g \in Gateways : RelayMined(j, chain[j].seq, g)
      BY <3>2 DEF PeerRelays, Gateways
    <3>3. ASSUME NEW j \in JobIds, PeerReassigns(j)
          PROVE  \E g \in Gateways : chain[j].seq \in Attempts /\ ReassignMined(j, chain[j].seq, g)
      BY <3>3 DEF PeerReassigns
    <3>4. CASE \E j \in JobIds : PeerRelays(j) \/ PeerReassigns(j)
      BY <1>1, <3>2, <3>3, <3>4, ReportStep DEF ReportInv
    <3>5. CASE \E j \in JobIds : ExecutorsRespond(j)
      <4>1. PICK j \in JobIds : ExecutorsRespond(j)
        BY <3>5
      <4>2. /\ chain' = [chain EXCEPT ![j].status = "responded"] /\ reassigned' = reassigned
            /\ chain \in [JobIds -> ChainRecord]
        BY <1>1, <4>1 DEF ExecutorsRespond, TypeOK, ChainRecord
      <4>3. \A k \in JobIds : /\ chain'[k].seq = chain[k].seq
                              /\ chain'[k].status \in {chain[k].status, "responded"}
        BY <4>2 DEF ChainRecord
      <4> QED BY <4>2, <4>3 DEF ReportInv, Announced
    <3> QED BY <1>4, <3>1, <3>4, <3>5 DEF Environment, Tick, vars
  <2> QED BY <1>1, <2>1, <2>2, ReportKept
<1> QED BY <1>2, <1>3, <1>4, ReportSender, ReportTask DEF Next, SenderStep

LEMMA ReportAlways == Spec => [](TypeInv /\ NotAheadInv /\ ReportInv)
<1>1. Init => ReportInv
  BY ConstantsAssumption DEF Init, ReportInv, Announced, ReportsSettled, Attempts
<1>2. TypeInv /\ NotAheadInv /\ ReportInv /\ [Next]_vars => ReportInv'
  BY ReportNext
<1> QED BY <1>1, <1>2, TypeInit, TypeNext, NotAheadInit, NotAheadNext, PTL DEF Spec
-----------------------------------------------------------------------------
(* The timers, whatever is delivered, when no timer panics.                 *)

\* Entries stay watched when they are only removed and their watchers stay.
LEMMA WatchKept ==
  ASSUME EntriesTasked,
         \A j \in JobIds : current'[j] \in {current[j], NoAttempt},
         \A u \in Task : pc[u] \in ReportingPcs =>
           \/ (pc'[u] \in ReportingPcs /\ held'[u] = held[u])
           \/ current'[u.job] = NoAttempt
  PROVE  EntriesTasked'
BY DEF EntriesTasked, TasksOf, NoPanics, NoAttempt

\* A step of a task that does not end its timer.
LEMMA WatchTask ==
  ASSUME TypeOK, EntriesTasked, NEW t \in Task, NEW l,
         pc' = [pc EXCEPT ![t] = l],
         pc[t] \notin ReportingPcs \/ (l \in ReportingPcs /\ held'[t] = held[t]),
         \A u \in Task : u # t => held'[u] = held[u],
         \A j \in JobIds : current'[j] \in {current[j], NoAttempt}
  PROVE  EntriesTasked'
<1>1. \A u \in Task : pc'[u] = IF u = t THEN l ELSE pc[u]
  BY DEF TypeOK
<1>2. \A u \in Task : pc[u] \in ReportingPcs => pc'[u] \in ReportingPcs /\ held'[u] = held[u]
  BY <1>1
<1> QED BY <1>2, WatchKept

LEMMA WatchTaskStep ==
  ASSUME NoPanics, TypeInv, EntriesTasked, NEW t \in Task, Deliver(t) \/ TaskStep(t)
  PROVE  EntriesTasked'
<1>1. TypeOK /\ HeldInv /\ t.job \in JobIds /\ t \in TasksOf(t.job)
  BY TaskFields DEF TypeInv, TasksOf
<1>2. CASE Deliver(t) \/ Select(t) \/ Lookup(t)
  <2>1. /\ pc[t] \notin ReportingPcs /\ UNCHANGED current
        /\ \E l : pc' = [pc EXCEPT ![t] = l]
    BY <1>2 DEF Deliver, Select, Lookup, Goto, ReportingPcs, tables
  <2>2. \A u \in Task : u # t => held'[u] = held[u]
    BY <1>1, <1>2 DEF Deliver, Select, Lookup, TypeOK
  <2> QED BY <1>1, <2>1, <2>2, WatchTask
<1>3. CASE Store(t)
  <2>1. CASE held[t].gateway = Self
    <3>1. pc[t] \notin ReportingPcs /\ UNCHANGED <<current, held>> /\ pc' = [pc EXCEPT ![t] = "send"]
      BY <1>3, <2>1 DEF Store, Goto, ReportingPcs
    <3> QED BY <1>1, <3>1, WatchTask
  <2>2. CASE held[t].gateway # Self
    <3>1. /\ current' = [current EXCEPT ![t.job] = held[t]] /\ held' = held
          /\ pc' = [pc EXCEPT ![t] = "timer"] /\ pc[t] = "store"
      BY <1>3, <2>2 DEF Store, Goto
    <3>2. \A u \in Task : pc'[u] = IF u = t THEN "timer" ELSE pc[u]
      BY <1>1, <3>1 DEF TypeOK
    <3>3. \A j \in JobIds : current'[j] = IF j = t.job THEN held[t] ELSE current[j]
      BY <1>1, <3>1 DEF TypeOK
    <3> SUFFICES ASSUME NEW j \in JobIds, current'[j] # NoAttempt
                 PROVE  \E u \in TasksOf(j) : held'[u] = current'[j] /\ pc'[u] \in ReportingPcs
      BY DEF EntriesTasked, TasksOf, NoAttempt
    <3>4. CASE j = t.job
      BY <1>1, <3>1, <3>2, <3>3, <3>4 DEF ReportingPcs
    <3>5. CASE j # t.job
      <4>1. PICK u \in TasksOf(j) : held[u] = current[j] /\ pc[u] \in ReportingPcs
        BY <3>3, <3>5 DEF EntriesTasked
      <4>2. u # t /\ u \in Task
        BY <3>5, <4>1 DEF TasksOf
      <4> QED BY <3>1, <3>2, <3>3, <3>5, <4>1, <4>2
    <3> QED BY <3>4, <3>5
  <2> QED BY <2>1, <2>2
<1>4. CASE Send(t)
  <2>1. UNCHANGED <<current, held>> /\ pc[t] \in {"send", "slash"}
    BY <1>4 DEF Send, tables
  <2>2. pc' = [pc EXCEPT ![t] = IF pc[t] = "send" THEN "queuedRelay" ELSE "queuedSlash"]
    BY <1>4 DEF Send, Goto
  <2>3. CASE pc[t] = "send"
    <3>1. pc[t] \notin ReportingPcs /\ pc' = [pc EXCEPT ![t] = "queuedRelay"]
      BY <2>2, <2>3 DEF ReportingPcs
    <3> QED BY <1>1, <2>1, <3>1, WatchTask
  <2>4. CASE pc[t] = "slash"
    <3>1. pc' = [pc EXCEPT ![t] = "queuedSlash"] /\ "queuedSlash" \in ReportingPcs
      BY <2>2, <2>4 DEF ReportingPcs
    <3> QED BY <1>1, <2>1, <3>1, WatchTask
  <2> QED BY <2>1, <2>3, <2>4
<1>5. CASE Timer(t)
  <2>1. ~LogPanics(t.job)
    <3>1. t.job \in Nat /\ U64Limit \in Nat
      BY <1>1, ConstantsAssumption
    <3>2. t.job < U64Limit
      BY <1>1 DEF NoPanics
    <3>3. ~(t.job >= U64Limit)
      BY <3>1, <3>2
    <3> QED BY <3>3, Zenon DEF LogPanics
  <2>2. UNCHANGED <<current, held>> /\ \E l \in {"untrack", "slash"} : pc' = [pc EXCEPT ![t] = l]
    BY <1>5, <2>1 DEF Timer, Goto, NoPanics, tables
  <2> QED BY <1>1, <2>2, WatchTask DEF ReportingPcs
<1>6. CASE Untrack(t)
  <2>1. \A j \in JobIds : current'[j] = IF j = t.job THEN NoAttempt ELSE current[j]
    BY <1>1, <1>6 DEF Untrack, TypeOK
  <2>2. \A u \in Task : u # t => pc'[u] = pc[u] /\ held'[u] = held[u]
    BY <1>1, <1>6 DEF Untrack, Goto, TypeOK
  <2> QED BY <1>1, <2>1, <2>2, WatchKept
<1>7. CASE CancelActive(t) \/ CancelCurrent(t)
  <2>1. pc[t] \notin ReportingPcs /\ \E l : pc' = [pc EXCEPT ![t] = l]
    BY <1>7 DEF CancelActive, CancelCurrent, AfterCancel, Goto, ReportingPcs
  <2>2. \A u \in Task : u # t => held'[u] = held[u]
    BY <1>1, <1>7 DEF CancelActive, CancelCurrent, AfterCancel, TypeOK
  <2>3. \A j \in JobIds : current'[j] \in {current[j], NoAttempt}
    BY <1>1, <1>7 DEF CancelActive, CancelCurrent, TypeOK
  <2> QED BY <1>1, <2>1, <2>2, <2>3, WatchTask
<1>8. CASE Decode(t) \/ Reread(t) \/ RemoveJob(t) \/ Respond(t)
  <2>1. /\ pc[t] \notin ReportingPcs /\ UNCHANGED current
        /\ \E l : pc' = [pc EXCEPT ![t] = l]
    BY <1>8 DEF Decode, Reread, RemoveJob, Respond, Goto, ReportingPcs, tables
  <2>2. \A u \in Task : u # t => held'[u] = held[u]
    BY <1>1, <1>8 DEF Decode, Reread, RemoveJob, Respond, TypeOK
  <2> QED BY <1>1, <2>1, <2>2, WatchTask
<1> QED BY <1>2, <1>3, <1>4, <1>5, <1>6, <1>7, <1>8 DEF TaskStep

LEMMA WatchNext ==
  ASSUME NoPanics, TypeInv, EntriesTasked, [Next]_vars PROVE EntriesTasked'
<1>1. TypeOK
  BY DEF TypeInv
<1>2. CASE CommonChainTxn
  <2>1. Head(relayChan) \in Task /\ UNCHANGED <<current, held>>
    BY <1>1, <1>2 DEF CommonChainTxn, TypeOK, tables
  <2>2. \/ /\ pc[Head(relayChan)] = "queuedRelay"
           /\ pc' = [pc EXCEPT ![Head(relayChan)] = "relaySubmitted"]
        \/ pc' = [pc EXCEPT ![Head(relayChan)] = "slashSubmitted"]
    BY <1>2 DEF CommonChainTxn, Goto
  <2> QED BY <1>1, <2>1, <2>2, WatchTask DEF ReportingPcs
<1>3. CASE RequestChainTxn
  <2>1. /\ Head(responseChan) \in Task /\ UNCHANGED <<current, held>>
        /\ pc[Head(responseChan)] \notin ReportingPcs
    BY <1>1, <1>3 DEF RequestChainTxn, TypeOK, tables, ReportingPcs
  <2>2. pc' = [pc EXCEPT ![Head(responseChan)] = "responseSubmitted"]
    BY <1>3 DEF RequestChainTxn, Goto
  <2> QED BY <1>1, <2>1, <2>2, WatchTask
<1>6. CASE RemoveResponseJob
  <2>1. /\ Head(responseChan) \in Task /\ UNCHANGED <<current, held>>
        /\ pc[Head(responseChan)] \notin ReportingPcs
    BY <1>1, <1>6 DEF RemoveResponseJob, TypeOK, ReportingPcs
  <2>2. pc' = [pc EXCEPT ![Head(responseChan)] = "responded"]
    BY <1>6 DEF RemoveResponseJob, Goto
  <2> QED BY <1>1, <2>1, <2>2, WatchTask
<1>4. CASE ServiceStep
  <2>1. UNCHANGED <<current, held>>
    BY <1>4 DEF ServiceStep, PickCycle, PublishState, Callback, tables, tasks
  <2>2. \A u \in Task : pc[u] \in ReportingPcs => pc'[u] = pc[u]
    <3>1. CASE PickCycle \/ PublishState
      BY <3>1 DEF PickCycle, PublishState, tasks
    <3>2. CASE Callback
      <4>1. serviceCycle \in Cycles
        BY <1>1, <3>2 DEF Callback, TypeOK
      <4>2. \A u \in Task : Listed(u, waitlist[serviceCycle]) => pc[u] = "waitlisted"
        BY <4>1 DEF TypeInv, WaitlistInv, Listed
      <4>3. \A u \in Task : ~Listed(u, waitlist[serviceCycle]) => pc'[u] = pc[u]
        BY <3>2 DEF Callback
      <4> QED BY <4>2, <4>3 DEF ReportingPcs
    <3> QED BY <1>4, <3>1, <3>2 DEF ServiceStep
  <2> QED BY <2>1, <2>2, WatchKept
<1>5. CASE Environment \/ UNCHANGED vars
  <2>1. UNCHANGED <<current, held, pc>>
    BY <1>5 DEF Environment, Tick, PeerRelays, PeerReassigns, ExecutorsRespond, vars, tables, tasks
  <2> QED BY <2>1, WatchKept
<1>7. ASSUME NEW t \in Task, Deliver(t) \/ TaskStep(t) PROVE EntriesTasked'
  BY <1>7, WatchTaskStep
<1> QED BY <1>2, <1>3, <1>4, <1>5, <1>6, <1>7 DEF Next, SenderStep

\* Without panics an entry of current_jobs has its timer, or a reassignment that takes it
\* out, or was left behind by a report that came too late; whatever is delivered, in
\* whatever order.
THEOREM EntriesWatched == Spec => []TrackedMeansWatched
<1>1. Init => EntriesTasked
  BY DEF Init, EntriesTasked
<1>2. TypeInv /\ EntriesTasked /\ [Next]_vars => EntriesTasked'
  <2>1. CASE NoPanics
    BY <2>1, WatchNext
  <2>2. CASE ~NoPanics
    BY <2>2 DEF EntriesTasked, NoPanics
  <2> QED BY <2>1, <2>2
<1>3. EntriesTasked /\ ReportInv => TrackedMeansWatched
  <2> SUFFICES ASSUME EntriesTasked, ReportInv, NEW j \in JobIds,
                      NoPanics, current[j] # NoAttempt
               PROVE  \E t \in TasksOf(j) :
                        held[t] = current[j] /\ (pc[t] \in WatchingPcs \/ ReportSettled(t))
    BY DEF TrackedMeansWatched
  <2>1. PICK t \in TasksOf(j) : held[t] = current[j] /\ pc[t] \in ReportingPcs
    BY DEF EntriesTasked
  <2>2. CASE pc[t] = "slashSubmitted"
    BY <2>1, <2>2 DEF ReportInv, ReportsSettled, NoPanics, TasksOf
  <2>3. CASE pc[t] # "slashSubmitted"
    BY <2>1, <2>3 DEF ReportingPcs, WatchingPcs
  <2> QED BY <2>2, <2>3
<1> QED BY <1>1, <1>2, <1>3, TypeInit, TypeNext, ReportAlways, PTL DEF Spec
-----------------------------------------------------------------------------
(* A job that is gone, whatever is delivered.                               *)

\* A point that no task of a job that is gone can be at.
Reviving(t, l) ==
  l \in CarryingPcs \union {"idle"} \/ (t.event = "GatewayReassigned" /\ l \in CancellingPcs)

\* A step of one task that leaves the job out of the tables.
LEMMA GoneTask ==
  ASSUME TypeOK, NEW j \in JobIds, Gone(j), NEW t \in Task, NEW l,
         pc' = [pc EXCEPT ![t] = l], t.job = j => ~Reviving(t, l),
         active'[j] = NoAttempt, current'[j] = NoAttempt
  PROVE  Gone(j)'
<1>1. \A u \in Task : pc'[u] = IF u = t THEN l ELSE pc[u]
  BY DEF TypeOK
<1> QED BY <1>1 DEF Gone, Tracked, TasksOf, Carrying, Replacing, Reviving

\* A step that moves no task of the job.
LEMMA GoneSame ==
  ASSUME NEW j \in JobIds, Gone(j), \A u \in TasksOf(j) : pc'[u] = pc[u],
         active'[j] = NoAttempt, current'[j] = NoAttempt
  PROVE  Gone(j)'
BY DEF Gone, Tracked, TasksOf, Carrying, Replacing

\* A task of another job does not touch the entries of this one.
LEMMA GoneOther ==
  ASSUME TypeOK, NEW j \in JobIds, Gone(j), NEW t \in Task, t.job # j,
         Deliver(t) \/ TaskStep(t)
  PROVE  Gone(j)'
<1>1. active[j] = NoAttempt /\ current[j] = NoAttempt
  BY DEF Gone, Tracked
<1>2. active'[j] = active[j] /\ current'[j] = current[j]
  BY DEF Deliver, TaskStep, Select, Store, Send, Timer, Untrack, Lookup, CancelActive,
         CancelCurrent, Decode, Reread, RemoveJob, Respond, tables, TypeOK
<1>3. \E l : pc' = [pc EXCEPT ![t] = l]
  BY DEF Deliver, TaskStep, Select, Store, Send, Timer, Untrack, Lookup, CancelActive,
         CancelCurrent, AfterCancel, Decode, Reread, RemoveJob, Respond, Goto
<1> QED BY <1>1, <1>2, <1>3, GoneTask

\* A task of the job finds no entry, and ends without one.
LEMMA GoneOwn ==
  ASSUME TypeInv, NEW t \in Task, t.job \in JobIds, Gone(t.job), Deliver(t) \/ TaskStep(t)
  PROVE  Gone(t.job)'
<1>1. /\ TypeOK /\ HeldInv /\ active[t.job] = NoAttempt /\ current[t.job] = NoAttempt
      /\ pc[t] \notin CarryingPcs
      /\ t.event = "GatewayReassigned" => pc[t] \notin CancellingPcs
      /\ t.event = "JobRelayed" => pc[t] # "idle"
  BY DEF TypeInv, Gone, Tracked, TasksOf, Carrying, Replacing
<1>2. CASE Deliver(t)
  <2>1. t.event # "JobRelayed"
    BY <1>1, <1>2 DEF Deliver
  <2>2. ~Reviving(t, EntryPc(t))
    BY <2>1, TaskFields DEF EntryPc, Reviving, CarryingPcs, CancellingPcs
  <2> QED BY <1>1, <1>2, <2>2, GoneTask DEF Deliver, Goto, tables
<1>3. CASE Select(t) \/ Store(t)
  BY <1>1, <1>3 DEF Select, Store, CarryingPcs
<1>4. CASE Send(t) \/ Timer(t) \/ Decode(t) \/ Reread(t) \/ Respond(t)
  <2>1. UNCHANGED <<active, current>>
    BY <1>4 DEF Send, Timer, Decode, Reread, Respond, tables
  <2>2. \E l \in {"queuedRelay", "queuedSlash", "panicked", "untrack", "slash", "ignored",
                  "reread", "remove", "queuedResponse"} : pc' = [pc EXCEPT ![t] = l]
    BY <1>4 DEF Send, Timer, Decode, Reread, Respond, Goto
  <2>3. \A l \in {"queuedRelay", "queuedSlash", "panicked", "untrack", "slash", "ignored",
                  "reread", "remove", "queuedResponse"} : ~Reviving(t, l)
    BY DEF Reviving, CarryingPcs, CancellingPcs
  <2> QED BY <1>1, <2>1, <2>2, <2>3, GoneTask
<1>5. CASE Untrack(t)
  <2>1. pc' = [pc EXCEPT ![t] = "untracked"]
    BY <1>5 DEF Untrack, Goto
  <2>2. active'[t.job] = NoAttempt /\ current'[t.job] = NoAttempt
    BY <1>1, <1>5 DEF Untrack, TypeOK
  <2> QED BY <1>1, <2>1, <2>2, GoneTask DEF Reviving, CarryingPcs, CancellingPcs
<1>6. CASE RemoveJob(t)
  <2>1. pc' = [pc EXCEPT ![t] = "respond"]
    BY <1>6 DEF RemoveJob, Goto
  <2>2. active'[t.job] = NoAttempt /\ current'[t.job] = NoAttempt
    BY <1>1, <1>6 DEF RemoveJob, TypeOK
  <2> QED BY <1>1, <2>1, <2>2, GoneTask DEF Reviving, CarryingPcs, CancellingPcs
<1>7. CASE Lookup(t)
  <2>1. ReassignedEntry(t) = NoAttempt
    BY <1>1 DEF ReassignedEntry, TableOf
  <2>2. pc' = [pc EXCEPT ![t] = "ignored"] /\ UNCHANGED <<active, current>>
    BY <1>7, <2>1 DEF Lookup, Goto, tables
  <2> QED BY <1>1, <2>2, GoneTask DEF Reviving, CarryingPcs, CancellingPcs
<1>8. CASE CancelActive(t) \/ CancelCurrent(t)
  <2>1. pc[t] \in CancellingPcs
    BY <1>8 DEF CancelActive, CancelCurrent, CancellingPcs
  <2>2. t.event \in CancelEvents /\ t.event # "GatewayReassigned"
    BY <1>1, <2>1 DEF HeldInv
  <2>3. \E l \in {"cancelled", "cancelCurrent"} : pc' = [pc EXCEPT ![t] = l]
    BY <1>8, <2>2 DEF CancelActive, CancelCurrent, AfterCancel, Goto
  <2>4. active'[t.job] = NoAttempt /\ current'[t.job] = NoAttempt
    BY <1>1, <1>8 DEF CancelActive, CancelCurrent, TypeOK
  <2>5. \A l \in {"cancelled", "cancelCurrent"} : ~Reviving(t, l)
    BY <2>2 DEF Reviving, CarryingPcs
  <2> QED BY <1>1, <2>3, <2>4, <2>5, GoneTask
<1> QED BY <1>2, <1>3, <1>4, <1>5, <1>6, <1>7, <1>8 DEF TaskStep

LEMMA GoneNext ==
  ASSUME TypeInv, NEW j \in JobIds, Gone(j), [Next]_vars PROVE Gone(j)'
<1>1. TypeOK /\ active[j] = NoAttempt /\ current[j] = NoAttempt
  BY DEF TypeInv, Gone, Tracked
<1>2. CASE CommonChainTxn
  <2>1. Head(relayChan) \in Task /\ UNCHANGED <<active, current>>
    BY <1>1, <1>2 DEF CommonChainTxn, TypeOK, tables
  <2>2. \E l \in {"relaySubmitted", "slashSubmitted"} :
          pc' = [pc EXCEPT ![Head(relayChan)] = l]
    BY <1>2 DEF CommonChainTxn, Goto
  <2> QED BY <1>1, <2>1, <2>2, GoneTask DEF Reviving, CarryingPcs, CancellingPcs
<1>3. CASE RequestChainTxn
  <2>1. Head(responseChan) \in Task /\ UNCHANGED <<active, current>>
    BY <1>1, <1>3 DEF RequestChainTxn, TypeOK, tables
  <2>2. pc' = [pc EXCEPT ![Head(responseChan)] = "responseSubmitted"]
    BY <1>3 DEF RequestChainTxn, Goto
  <2> QED BY <1>1, <2>1, <2>2, GoneTask DEF Reviving, CarryingPcs, CancellingPcs
<1>4. CASE RemoveResponseJob
  <2>1. Head(responseChan) \in Task /\ UNCHANGED current
    BY <1>1, <1>4 DEF RemoveResponseJob, TypeOK
  <2>2. pc' = [pc EXCEPT ![Head(responseChan)] = "responded"] /\ active'[j] = NoAttempt
    BY <1>1, <1>4 DEF RemoveResponseJob, Goto, TypeOK
  <2> QED BY <1>1, <2>1, <2>2, GoneTask DEF Reviving, CarryingPcs, CancellingPcs
<1>5. CASE ServiceStep
  <2>1. UNCHANGED <<active, current>>
    BY <1>5 DEF ServiceStep, PickCycle, PublishState, Callback, tables
  <2>2. \A u \in TasksOf(j) : pc'[u] = pc[u]
    <3>1. CASE PickCycle \/ PublishState
      BY <3>1 DEF PickCycle, PublishState, tasks
    <3>2. CASE Callback
      <4>1. serviceCycle \in Cycles
        BY <1>1, <3>2 DEF Callback, TypeOK
      <4>2. \A u \in Task : Listed(u, waitlist[serviceCycle]) => pc[u] = "waitlisted"
        BY <4>1 DEF TypeInv, WaitlistInv, Listed
      <4>3. \A u \in TasksOf(j) : u \in Task /\ pc[u] # "waitlisted"
        BY DEF Gone, TasksOf, Carrying, CarryingPcs
      <4> QED BY <3>2, <4>2, <4>3 DEF Callback
    <3> QED BY <1>5, <3>1, <3>2 DEF ServiceStep
  <2> QED BY <1>1, <2>1, <2>2, GoneSame
<1>6. CASE Environment \/ UNCHANGED vars
  <2>1. UNCHANGED <<active, current, pc>>
    BY <1>6 DEF Environment, Tick, PeerRelays, PeerReassigns, ExecutorsRespond, vars, tables, tasks
  <2> QED BY <1>1, <2>1, GoneSame
<1>7. ASSUME NEW t \in Task, Deliver(t) \/ TaskStep(t) PROVE Gone(j)'
  <2>1. CASE t.job = j
    BY <1>7, <2>1, GoneOwn
  <2>2. CASE t.job # j
    BY <1>1, <1>7, <2>2, GoneOther
  <2> QED BY <2>1, <2>2
<1> QED BY <1>2, <1>3, <1>4, <1>5, <1>6, <1>7 DEF Next, SenderStep

\* Once a job is gone, no late or repeated event brings it back.
THEOREM GoneStaysGone == Spec => GoneForGood
<1>1. TypeInv /\ [Next]_vars => [\A j \in JobIds : Gone(j) => Gone(j)']_vars
  BY GoneNext
<1> QED BY <1>1, TypeInit, TypeNext, PTL DEF Spec, GoneForGood
-----------------------------------------------------------------------------
(* The record of a job, when every event is delivered once.                 *)

LEMMA SeqType ==
  ASSUME TypeOK, NEW t \in Task
  PROVE  held[t].seq \in 0..MaxGatewayRetries /\ held[t].seq \in Nat
<1>1. held[t] \in Attempt
  BY DEF TypeOK
<1>2. held[t].seq \in 0..MaxGatewayRetries
  BY <1>1 DEF Attempt
<1> QED BY <1>2, ConstantsAssumption

LEMMA TopUnique ==
  ASSUME TypeOK, NEW j \in JobIds, NEW m, NEW n, Top(j, m), Top(j, n)
  PROVE  m = n
<1>1. PICK t \in TasksOf(j) : held[t].seq = m
  BY DEF Top
<1>2. PICK u \in TasksOf(j) : held[u].seq = n
  BY DEF Top
<1>3. m <= n /\ n <= m
  BY <1>1, <1>2 DEF Top
<1>4. m \in Nat /\ n \in Nat
  BY <1>1, <1>2, SeqType DEF TasksOf
<1> QED BY <1>3, <1>4

\* A step in which the tasks of the job keep their attempts, or take over the last one.
LEMMA TopKept ==
  ASSUME TypeOK, NEW j \in JobIds, NEW n, Top(j, n),
         \A u \in TasksOf(j) :
           held'[u].seq = held[u].seq \/ (held[u].seq = 0 /\ Top(j, held'[u].seq))
  PROVE  Top(j, n)'
<1>1. \A u \in TasksOf(j) : held'[u].seq = held[u].seq \/ (held[u].seq = 0 /\ held'[u].seq = n)
  BY TopUnique
<1>2. PICK t \in TasksOf(j) : held[t].seq = n
  BY DEF Top
<1>3. held'[t].seq = n
  BY <1>1, <1>2
<1>4. \A u \in TasksOf(j) : held'[u].seq <= n
  <2>1. n \in Nat
    BY <1>2, SeqType DEF TasksOf
  <2>2. \A u \in TasksOf(j) : held[u].seq <= n
    BY DEF Top
  <2>3. n <= n
    BY <2>1
  <2> QED BY <1>1, <2>2, <2>3
<1>5. TasksOf(j)' = TasksOf(j)
  BY DEF TasksOf
<1> QED BY <1>3, <1>4, <1>5 DEF Top

\* Such a step, when it brings only the last attempt into play.
LEMMA LastKept ==
  ASSUME TypeOK, NEW j \in JobIds, LastAttempt(j),
         \A u \in TasksOf(j) :
           /\ held'[u].seq = held[u].seq \/ (held[u].seq = 0 /\ Top(j, held'[u].seq))
           /\ Carrying(u)' \/ Replacing(u)' =>
                Carrying(u) \/ Replacing(u) \/ Top(j, held'[u].seq)
           /\ pc'[u] = "idle" => pc[u] = "idle",
         active'[j] \in {active[j], NoAttempt} \/ Top(j, active'[j].seq),
         current'[j] \in {current[j], NoAttempt} \/ Top(j, current'[j].seq)
  PROVE  LastAttempt(j)'
<1>1. \A n : Top(j, n) => Top(j, n)'
  BY TopKept
<1>2. ASSUME NEW u \in TasksOf(j), Carrying(u)' \/ Replacing(u)' PROVE Top(j, held'[u].seq)
  <2>1. CASE Carrying(u) \/ Replacing(u)
    BY <2>1 DEF LastAttempt
  <2> QED BY <1>2, <2>1
<1>3. active'[j] # NoAttempt => Top(j, active'[j].seq)
  BY DEF LastAttempt
<1>4. current'[j] # NoAttempt => Top(j, current'[j].seq)
  BY DEF LastAttempt
<1>5. \A u \in TasksOf(j) : u.event = "JobRelayed" /\ pc'[u] = "idle" => Top(j, 0)
  BY DEF LastAttempt
<1>6. TasksOf(j)' = TasksOf(j)
  BY DEF TasksOf
<1>7. \A u \in TasksOf(j) : Carrying(u)' \/ Replacing(u)' => Top(j, held[u].seq)'
  <2> SUFFICES ASSUME NEW u \in TasksOf(j), Carrying(u)' \/ Replacing(u)'
               PROVE  Top(j, held[u].seq)'
    OBVIOUS
  <2>1. PICK n : n = held'[u].seq
    OBVIOUS
  <2>2. Top(j, n)'
    BY <1>1, <1>2, <2>1
  <2> QED BY <2>1, <2>2
<1>8. (active[j] # NoAttempt => Top(j, active[j].seq))'
  <2>1. PICK n : n = active'[j].seq
    OBVIOUS
  <2>2. active'[j] # NoAttempt => Top(j, n)'
    BY <1>1, <1>3, <2>1
  <2> QED BY <2>1, <2>2
<1>9. (current[j] # NoAttempt => Top(j, current[j].seq))'
  <2>1. PICK n : n = current'[j].seq
    OBVIOUS
  <2>2. current'[j] # NoAttempt => Top(j, n)'
    BY <1>1, <1>4, <2>1
  <2> QED BY <2>1, <2>2
<1>10. \A u \in TasksOf(j) : u.event = "JobRelayed" /\ pc'[u] = "idle" => Top(j, 0)'
  BY <1>1, <1>5
<1> QED BY <1>6, <1>7, <1>8, <1>9, <1>10 DEF LastAttempt

\* What a step does to the record of a job: nothing, a next attempt, or the end of the
\* choice or of the entry.
Choosing(j) == \E t \in TasksOf(j) : Carrying(t)
TopStays(j) == \A n : Top(j, n) => Top(j, n)'
RecordSame(j) ==
  /\ TopStays(j) /\ (Choosing(j)' <=> Choosing(j))
  /\ active'[j] = active[j] /\ current'[j] = current[j]
RecordBegins(j) ==
  /\ \E n \in Nat : Top(j, n) /\ Top(j, n + 1)' /\ n < MaxGatewayRetries
  /\ ~Choosing(j) /\ Choosing(j)'
RecordEnds(j) ==
  /\ TopStays(j) /\ (Choosing(j)' => Choosing(j))
  /\ ~Choosing(j) => /\ active'[j] \in {active[j], NoAttempt}
                     /\ current'[j] \in {current[j], NoAttempt}
RecordStep(j) ==
  /\ RecordBegins(j) \/ RecordEnds(j)
  /\ \A k \in JobIds \ {j} : RecordSame(k)
RecordNext == (\E j \in JobIds : RecordStep(j)) \/ \A j \in JobIds : RecordSame(j)

\* A step that moves no task of a job and leaves its entries alone.
LEMMA OtherJob ==
  ASSUME TypeOK, NEW j \in JobIds, LastAttempt(j),
         \A u \in TasksOf(j) : /\ held'[u] = held[u] /\ (pc'[u] = "idle" => pc[u] = "idle")
                               /\ Carrying(u)' <=> Carrying(u)
                               /\ Replacing(u)' <=> Replacing(u),
         active'[j] = active[j], current'[j] = current[j]
  PROVE  LastAttempt(j)' /\ RecordSame(j)
<1>1. LastAttempt(j)'
  BY LastKept
<1>2. TopStays(j)
  BY TopKept DEF TopStays
<1>3. Choosing(j)' <=> Choosing(j)
  BY DEF Choosing, TasksOf
<1> QED BY <1>1, <1>2, <1>3 DEF RecordSame

\* Where a step of one task leaves the others.
LEMMA TaskMoves ==
  ASSUME TypeOK, NEW t \in Task, NEW l, NEW h,
         pc' = [pc EXCEPT ![t] = l], held' = [held EXCEPT ![t] = h]
  PROVE  /\ pc'[t] = l /\ held'[t] = h
         /\ \A u \in Task : u # t => pc'[u] = pc[u] /\ held'[u] = held[u]
BY DEF TypeOK

LEMMA OtherJobs ==
  ASSUME TypeOK, BookInv, NEW t \in Task,
         \A u \in Task : u # t => pc'[u] = pc[u] /\ held'[u] = held[u],
         NEW j \in JobIds, j # t.job, active'[j] = active[j], current'[j] = current[j]
  PROVE  LastAttempt(j)' /\ RecordSame(j)
<1>1. \A u \in TasksOf(j) : u \in Task /\ u # t
  BY DEF TasksOf
<1>2. \A u \in TasksOf(j) : pc'[u] = pc[u] /\ held'[u] = held[u]
  BY <1>1
<1> QED BY <1>2, OtherJob DEF BookInv, Carrying, Replacing

\* A step of one task that begins no attempt.
LEMMA QuietTask ==
  ASSUME TypeOK, BookInv, NEW t \in Task, NEW l, NEW h,
         pc' = [pc EXCEPT ![t] = l], held' = [held EXCEPT ![t] = h],
         h.seq = held[t].seq \/ (held[t].seq = 0 /\ Top(t.job, h.seq)),
         l # "idle", l \in {"lookup", "decode", "reread"} => h.seq = 0,
         l \in CarryingPcs => Carrying(t),
         l \in CancellingPcs /\ t.event = "GatewayReassigned" =>
           pc[t] \in CancellingPcs \/ Top(t.job, h.seq),
         \A j \in JobIds \ {t.job} : active'[j] = active[j] /\ current'[j] = current[j],
         \/ active'[t.job] \in {active[t.job], NoAttempt}
         \/ Carrying(t) /\ Top(t.job, active'[t.job].seq),
         \/ current'[t.job] \in {current[t.job], NoAttempt}
         \/ Carrying(t) /\ Top(t.job, current'[t.job].seq)
  PROVE  BookInv' /\ RecordNext
<1> DEFINE j == t.job
<1>1. /\ pc'[t] = l /\ held'[t] = h
      /\ \A u \in Task : u # t => pc'[u] = pc[u] /\ held'[u] = held[u]
  BY TaskMoves
<1>2. j \in JobIds /\ t \in TasksOf(j) /\ \A u \in TasksOf(j) : u \in Task
  BY TaskFields DEF TasksOf
<1>3. ASSUME NEW u \in TasksOf(j)
      PROVE  /\ held'[u].seq = held[u].seq \/ (held[u].seq = 0 /\ Top(j, held'[u].seq))
             /\ Carrying(u)' => Carrying(u)
             /\ Replacing(u)' => Replacing(u) \/ Top(j, held'[u].seq)
             /\ pc'[u] = "idle" => pc[u] = "idle"
  <2>1. CASE u = t
    <3>1. Carrying(t)' => Carrying(t)
      BY <1>1 DEF Carrying
    <3>2. Replacing(t)' => Replacing(t) \/ Top(j, h.seq)
      BY <1>1 DEF Replacing
    <3> HIDE DEF j
    <3> QED BY <1>1, <2>1, <3>1, <3>2 DEF j
  <2>2. CASE u # t
    BY <1>1, <1>2, <2>2 DEF Carrying, Replacing
  <2> QED BY <2>1, <2>2
<1>4. LastAttempt(j)
  BY <1>2 DEF BookInv
<1>5. LastAttempt(j)'
  BY <1>2, <1>3, <1>4, LastKept
<1>6. TopStays(j)
  BY <1>2, <1>3, TopKept DEF TopStays
<1>7. (Choosing(j)' => Choosing(j)) /\ (Carrying(t) => Choosing(j))
  BY <1>2, <1>3 DEF Choosing, TasksOf
<1>8. RecordEnds(j)
  BY <1>6, <1>7 DEF RecordEnds
<1>9. ASSUME NEW k \in JobIds, k # j PROVE LastAttempt(k)' /\ RecordSame(k)
  BY <1>1, <1>9, OtherJobs
<1>10. ASSUME NEW u \in Task PROVE Fresh(u)'
  <2>1. CASE u = t
    BY <1>1, <2>1 DEF Fresh
  <2>2. CASE u # t
    BY <1>1, <2>2 DEF Fresh, BookInv
  <2> QED BY <2>1, <2>2
<1> HIDE DEF j
<1>11. BookInv'
  BY <1>5, <1>9, <1>10 DEF BookInv
<1>12. RecordStep(j)
  BY <1>8, <1>9 DEF RecordStep
<1> QED BY <1>2, <1>11, <1>12 DEF RecordNext

\* A step of one task that begins the next attempt of its job.
LEMMA BeginTask ==
  ASSUME TypeOK, BookInv, NEW t \in Task, NEW h, NEW n \in Nat,
         pc' = [pc EXCEPT ![t] = "select"], held' = [held EXCEPT ![t] = h],
         Top(t.job, n), h.seq = n + 1, n < MaxGatewayRetries,
         \A u \in TasksOf(t.job) : /\ ~Carrying(u) /\ (Replacing(u) => u = t)
                                   /\ u.event = "JobRelayed" /\ pc[u] = "idle" => u = t,
         \A j \in JobIds \ {t.job} : active'[j] = active[j] /\ current'[j] = current[j],
         active'[t.job] = NoAttempt, current'[t.job] = NoAttempt
  PROVE  BookInv' /\ RecordNext
<1> DEFINE j == t.job
<1>1. /\ pc'[t] = "select" /\ held'[t] = h
      /\ \A u \in Task : u # t => pc'[u] = pc[u] /\ held'[u] = held[u]
  BY TaskMoves
<1>2. j \in JobIds /\ t \in TasksOf(j) /\ \A u \in TasksOf(j) : u \in Task
  BY TaskFields DEF TasksOf
<1>3. TasksOf(j)' = TasksOf(j)
  BY DEF TasksOf
<1>4. PICK m \in Nat : m = n + 1
  OBVIOUS
<1>5. Top(j, m)'
  <2>1. ASSUME NEW u \in TasksOf(j) PROVE held'[u].seq <= m
    <3>1. CASE u = t
      BY <1>1, <1>4, <3>1
    <3>2. CASE u # t
      <4>1. held'[u].seq = held[u].seq /\ held[u].seq <= n /\ held[u].seq \in Nat
        BY <1>1, <1>2, <3>2, SeqType DEF Top
      <4> QED BY <1>4, <4>1
    <3> QED BY <3>1, <3>2
  <2>2. held'[t].seq = m
    BY <1>1, <1>4
  <2> QED BY <1>2, <1>3, <2>1, <2>2 DEF Top
<1>6. ASSUME NEW u \in TasksOf(j)
      PROVE  /\ Carrying(u)' \/ Replacing(u)' => u = t
             /\ ~(u.event = "JobRelayed" /\ pc'[u] = "idle")
  <2>1. CASE u = t
    BY <1>1, <2>1
  <2>2. CASE u # t
    BY <1>1, <1>2, <2>2 DEF Carrying, Replacing
  <2> QED BY <2>1, <2>2
<1>7. LastAttempt(j)'
  <2>1. held'[t].seq = m
    BY <1>1, <1>4
  <2>2. \A u \in TasksOf(j) : Carrying(u)' \/ Replacing(u)' => Top(j, held[u].seq)'
    BY <1>5, <1>6, <2>1
  <2> QED BY <1>3, <1>6, <2>2 DEF LastAttempt
<1>8. ~Choosing(j) /\ Choosing(j)'
  <2>1. Carrying(t)'
    BY <1>1 DEF Carrying, CarryingPcs
  <2> QED BY <1>2, <1>3, <2>1 DEF Choosing
<1>9. RecordBegins(j)
  <2> HIDE DEF j
  <2>1. Top(j, n)
    BY DEF j
  <2>2. Top(j, n + 1)'
    BY <1>4, <1>5
  <2> QED BY <1>8, <2>1, <2>2 DEF RecordBegins
<1>10. ASSUME NEW k \in JobIds, k # j PROVE LastAttempt(k)' /\ RecordSame(k)
  BY <1>1, <1>10, OtherJobs
<1>11. ASSUME NEW u \in Task PROVE Fresh(u)'
  <2>1. CASE u = t
    BY <1>1, <2>1 DEF Fresh
  <2>2. CASE u # t
    BY <1>1, <2>2 DEF Fresh, BookInv
  <2> QED BY <2>1, <2>2
<1> HIDE DEF j
<1>12. BookInv'
  BY <1>7, <1>10, <1>11 DEF BookInv
<1>13. RecordStep(j)
  BY <1>9, <1>10 DEF RecordStep
<1> QED BY <1>2, <1>12, <1>13 DEF RecordNext

\* A task that keeps its attempt, and where the entries of its job only go away.
LEMMA MovingTask ==
  ASSUME TypeOK, BookInv, NEW t \in Task, NEW l,
         pc' = [pc EXCEPT ![t] = l], held' = held,
         l # "idle", l \in {"lookup", "decode", "reread"} => held[t].seq = 0,
         l \in CarryingPcs => Carrying(t),
         l \in CancellingPcs /\ t.event = "GatewayReassigned" => pc[t] \in CancellingPcs,
         \A j \in JobIds : /\ active'[j] \in {active[j], NoAttempt}
                           /\ current'[j] \in {current[j], NoAttempt}
                           /\ j # t.job => active'[j] = active[j] /\ current'[j] = current[j]
  PROVE  BookInv' /\ RecordNext
<1>1. held' = [held EXCEPT ![t] = held[t]]
  BY DEF TypeOK
<1>2. t.job \in JobIds
  BY TaskFields
<1> QED BY <1>1, <1>2, QuietTask

LEMMA BookDeliver ==
  ASSUME ExactlyOnce, OneAttemptInv, BookInv, NEW t \in Task, Deliver(t)
  PROVE  BookInv' /\ RecordNext
<1>1. TypeOK /\ TokenInv /\ t.job \in JobIds /\ t \in TasksOf(t.job)
  BY TaskFields DEF OneAttemptInv, TypeInv, TasksOf
<1>2. pc[t] = "idle" /\ UNCHANGED <<active, current>> /\ pc' = [pc EXCEPT ![t] = EntryPc(t)]
  BY DEF Deliver, Goto, tables
<1>3. CASE t.event # "JobRelayed"
  <2>1. /\ EntryPc(t) \in {"lookup", "decode", "cancelActive"}
        /\ EntryPc(t) = "cancelActive" => t.event # "GatewayReassigned"
    BY <1>3 DEF EntryPc
  <2>2. held' = held
    BY <1>1, <1>3 DEF Deliver, TypeOK
  <2>3. held[t].seq = 0
    BY <1>2 DEF BookInv, Fresh
  <2>4. PICK l : l = EntryPc(t)
    OBVIOUS
  <2>5. l # "idle" /\ l \notin CarryingPcs /\ (l \in CancellingPcs => t.event # "GatewayReassigned")
    BY <2>1, <2>4 DEF CarryingPcs, CancellingPcs
  <2> QED BY <1>1, <1>2, <2>2, <2>3, <2>4, <2>5, MovingTask
<1>4. CASE t.event = "JobRelayed"
  <2>1. EntryPc(t) = "select"
    BY <1>4 DEF EntryPc
  <2>2. held' = [held EXCEPT ![t] = FirstAttempt] /\ FirstAttempt.seq = 0 + 1
    BY <1>4 DEF Deliver, FirstAttempt
  <2>3. Top(t.job, 0)
    BY <1>1, <1>2, <1>4 DEF BookInv, LastAttempt
  <2>4. OneToken(t.job)
    BY <1>1 DEF TokenInv
  <2>5. ~Tracked(t.job) /\ \A u \in TasksOf(t.job) : ~Carrying(u) /\ ~Replacing(u)
    BY <1>1, <1>2, <1>4, <2>4 DEF OneToken
  <2>6. \A u \in TasksOf(t.job) : u.event = "JobRelayed" => u = t
    BY <1>4, TaskUnique DEF TasksOf
  <2>7. 0 \in Nat /\ 0 < MaxGatewayRetries
    BY ConstantsAssumption
  <2>8. active'[t.job] = NoAttempt /\ current'[t.job] = NoAttempt
    BY <1>2, <2>5 DEF Tracked
  <2>9. \A j \in JobIds : active'[j] = active[j] /\ current'[j] = current[j]
    BY <1>2
  <2>10. \A u \in TasksOf(t.job) : /\ ~Carrying(u) /\ (Replacing(u) => u = t)
                                   /\ u.event = "JobRelayed" /\ pc[u] = "idle" => u = t
    BY <2>5, <2>6
  <2>11. pc' = [pc EXCEPT ![t] = "select"]
    BY <1>2, <2>1
  <2> QED BY <1>1, <2>2, <2>3, <2>7, <2>8, <2>9, <2>10, <2>11, BeginTask
<1> QED BY <1>3, <1>4

LEMMA BookSelect ==
  ASSUME TypeOK, BookInv, NEW t \in Task, Select(t) PROVE BookInv' /\ RecordNext
<1>1. Carrying(t) /\ UNCHANGED <<active, current>> /\ t.job \in JobIds
  BY TaskFields DEF Select, Carrying, CarryingPcs, tables
<1>2. PICK l \in {"dropped", "store", "waitlisted"} : pc' = [pc EXCEPT ![t] = l]
  BY DEF Select, Goto
<1>3. l # "idle" /\ l \notin {"lookup", "decode", "reread"} /\ l \notin CancellingPcs
  BY DEF CancellingPcs
<1>4. CASE held' = held
  BY <1>1, <1>2, <1>3, <1>4, MovingTask
<1>5. ASSUME NEW g, held' = [held EXCEPT ![t].gateway = g] PROVE BookInv' /\ RecordNext
  <2>1. PICK h : h = [held[t] EXCEPT !.gateway = g]
    OBVIOUS
  <2>2. held' = [held EXCEPT ![t] = h]
    BY <1>5, <2>1 DEF TypeOK
  <2>3. held[t] \in Attempt
    BY DEF TypeOK
  <2>4. h.seq = held[t].seq
    BY <2>1, <2>3 DEF Attempt
  <2> QED BY <1>1, <1>2, <1>3, <2>2, <2>4, QuietTask
<1> QED BY <1>4, <1>5 DEF Select

LEMMA BookStore ==
  ASSUME TypeOK, BookInv, NEW t \in Task, Store(t) PROVE BookInv' /\ RecordNext
<1>1. Carrying(t) /\ t.job \in JobIds /\ t \in TasksOf(t.job) /\ held' = held
  BY TaskFields DEF Store, Carrying, CarryingPcs, TasksOf
<1>2. Top(t.job, held[t].seq)
  BY <1>1 DEF BookInv, LastAttempt
<1>3. PICK l \in {"send", "timer"} : pc' = [pc EXCEPT ![t] = l]
  BY DEF Store, Goto
<1>4. /\ l # "idle" /\ l \notin {"lookup", "decode", "reread"} /\ l \notin CancellingPcs
      /\ l \notin CarryingPcs
  BY DEF CancellingPcs, CarryingPcs
<1>5. \A j \in JobIds \ {t.job} : active'[j] = active[j] /\ current'[j] = current[j]
  BY DEF Store, TypeOK
<1>6. active'[t.job] \in {active[t.job], held[t]} /\ current'[t.job] \in {current[t.job], held[t]}
  BY <1>1 DEF Store, TypeOK
<1>7. held' = [held EXCEPT ![t] = held[t]]
  BY <1>1 DEF TypeOK
<1>8. /\ active'[t.job] = active[t.job] \/ Top(t.job, active'[t.job].seq)
      /\ current'[t.job] = current[t.job] \/ Top(t.job, current'[t.job].seq)
  BY <1>2, <1>6
<1> QED BY <1>1, <1>3, <1>4, <1>5, <1>7, <1>8, QuietTask

\* The entry that a reassignment finds holds the last attempt.
LEMMA BookLookup ==
  ASSUME TypeInv, BookInv, NEW t \in Task, Lookup(t) PROVE BookInv' /\ RecordNext
<1>1. TypeOK /\ pc[t] = "lookup" /\ UNCHANGED <<active, current>> /\ t.job \in JobIds
  BY TaskFields DEF Lookup, tables, TypeInv
<1>2. CASE held' = held /\ Goto(t, "ignored")
  BY <1>1, <1>2, MovingTask DEF Goto, CarryingPcs, CancellingPcs
<1>3. CASE /\ ReassignedEntry(t) # NoAttempt
           /\ held' = [held EXCEPT ![t] = ReassignedEntry(t)] /\ Goto(t, "cancelActive")
  <2>1. PICK h : h = ReassignedEntry(t)
    OBVIOUS
  <2>2. h # NoAttempt /\ (h = active[t.job] \/ h = current[t.job])
    BY <1>3, <2>1 DEF ReassignedEntry, TableOf
  <2>3. Top(t.job, h.seq)
    BY <1>1, <2>2 DEF BookInv, LastAttempt
  <2>4. held[t].seq = 0
    BY <1>1 DEF BookInv, Fresh
  <2>5. pc' = [pc EXCEPT ![t] = "cancelActive"] /\ held' = [held EXCEPT ![t] = h]
    BY <1>3, <2>1 DEF Goto
  <2>6. "cancelActive" \notin CarryingPcs
    BY DEF CarryingPcs
  <2> QED BY <1>1, <2>3, <2>4, <2>5, <2>6, QuietTask
<1> QED BY <1>2, <1>3 DEF Lookup

\* A cancellation ends the attempt, or begins the one after the last.
LEMMA BookCancel ==
  ASSUME OneAttemptInv, BookInv, NEW t \in Task, CancelActive(t) \/ CancelCurrent(t)
  PROVE  BookInv' /\ RecordNext
<1>1. TypeOK /\ TokenInv /\ t.job \in JobIds /\ t \in TasksOf(t.job) /\ OneToken(t.job)
  BY TaskFields DEF OneAttemptInv, TypeInv, TokenInv, TasksOf
<1>2. pc[t] \in CancellingPcs
  BY DEF CancelActive, CancelCurrent, CancellingPcs
<1>3. \A j \in JobIds : /\ active'[j] \in {active[j], NoAttempt}
                        /\ current'[j] \in {current[j], NoAttempt}
                        /\ j # t.job => active'[j] = active[j] /\ current'[j] = current[j]
  BY <1>1 DEF CancelActive, CancelCurrent, TypeOK
<1>4. ASSUME NEW l \in {"cancelled", "exhausted", "cancelCurrent"}, Goto(t, l), held' = held
      PROVE  BookInv' /\ RecordNext
  <2>1. l # "idle" /\ l \notin {"lookup", "decode", "reread"} /\ l \notin CarryingPcs
    BY DEF CarryingPcs
  <2> QED BY <1>1, <1>2, <1>3, <1>4, <2>1, MovingTask DEF Goto
<1>5. CASE /\ t.event \notin CancelEvents /\ Goto(t, "select")
           /\ ~(held[t].seq + 1 > MaxGatewayRetries)
           /\ held' = [held EXCEPT ![t] = [seq |-> held[t].seq + 1, gateway |-> NoGateway]]
  <2>1. t.event = "GatewayReassigned"
    BY <1>2, <1>5 DEF OneAttemptInv, TypeInv, HeldInv
  <2>2. Replacing(t)
    BY <1>2, <2>1 DEF Replacing
  <2>3. \A u \in TasksOf(t.job) : /\ ~Carrying(u) /\ (Replacing(u) => u = t)
                                  /\ ~(u.event = "JobRelayed" /\ pc[u] = "idle")
    BY <1>1, <2>2 DEF OneToken
  <2>4. Top(t.job, held[t].seq)
    BY <1>1, <2>2 DEF BookInv, LastAttempt
  <2>5. active'[t.job] = NoAttempt /\ current'[t.job] = NoAttempt
    <3>1. pc'[t] = "select"
      BY <1>1, <1>5 DEF Goto, TypeOK
    <3>2. CASE CancelActive(t)
      <4>1. active[t.job] # NoAttempt
        BY <1>1, <3>1, <3>2 DEF CancelActive, Goto, TypeOK
      <4> QED BY <1>1, <3>2, <4>1 DEF CancelActive, TypeOK, OneToken
    <3>3. CASE CancelCurrent(t)
      BY <1>1, <2>2, <3>3 DEF CancelCurrent, TypeOK, OneToken
    <3> QED BY <3>2, <3>3
  <2>6. held[t].seq \in Nat /\ held[t].seq < MaxGatewayRetries
    BY <1>1, <1>5, SeqType, ConstantsAssumption
  <2>7. PICK n \in Nat : n = held[t].seq
    BY <2>6
  <2>0. PICK h : h = [seq |-> n + 1, gateway |-> NoGateway]
    OBVIOUS
  <2>8. h.seq = n + 1 /\ held' = [held EXCEPT ![t] = h] /\ pc' = [pc EXCEPT ![t] = "select"]
    BY <1>5, <2>7, <2>0 DEF Goto
  <2>9. Top(t.job, n) /\ n < MaxGatewayRetries
    BY <2>4, <2>6, <2>7
  <2> QED BY <1>1, <1>3, <2>3, <2>5, <2>8, <2>9, BeginTask
<1> QED BY <1>4, <1>5 DEF CancelActive, CancelCurrent, AfterCancel

\* The answer to a job rereads the last attempt from the table.
LEMMA BookReread ==
  ASSUME TypeOK, BookInv, NEW t \in Task, Reread(t) PROVE BookInv' /\ RecordNext
<1>1. pc[t] = "reread" /\ UNCHANGED <<active, current>> /\ t.job \in JobIds
  BY TaskFields DEF Reread, tables
<1>2. PICK h : h = active[t.job]
  OBVIOUS
<1>3. held' = [held EXCEPT ![t] = h]
  BY <1>2 DEF Reread
<1>4. held[t].seq = 0
  BY <1>1 DEF BookInv, Fresh
<1>5. h.seq = held[t].seq \/ Top(t.job, h.seq)
  <2>1. CASE h = NoAttempt
    BY <1>4, <2>1 DEF NoAttempt
  <2>2. CASE h # NoAttempt
    BY <1>1, <1>2, <2>2 DEF BookInv, LastAttempt
  <2> QED BY <2>1, <2>2
<1>6. PICK l \in {"ignored", "remove"} : pc' = [pc EXCEPT ![t] = l]
  BY DEF Reread, Goto
<1>7. /\ l # "idle" /\ l \notin {"lookup", "decode", "reread"} /\ l \notin CancellingPcs
      /\ l \notin CarryingPcs
  BY DEF CancellingPcs, CarryingPcs
<1> QED BY <1>1, <1>3, <1>4, <1>5, <1>6, <1>7, QuietTask

\* The other steps keep the attempts; only Untrack and RemoveJob take an entry away.
LEMMA BookTask ==
  ASSUME TypeOK, BookInv, NEW t \in Task,
         Send(t) \/ Timer(t) \/ Untrack(t) \/ Decode(t) \/ RemoveJob(t) \/ Respond(t)
  PROVE  BookInv' /\ RecordNext
<1>1. held' = held
  BY DEF Send, Timer, Untrack, Decode, RemoveJob, Respond
<1>2. CASE Send(t) \/ Timer(t)
  <2>1. UNCHANGED <<active, current>>
    BY <1>2 DEF Send, Timer, tables
  <2>2. PICK l \in {"queuedRelay", "queuedSlash", "panicked", "untrack", "slash"} :
          pc' = [pc EXCEPT ![t] = l]
    BY <1>2 DEF Send, Timer, Goto
  <2>3. /\ l # "idle" /\ l \notin {"lookup", "decode", "reread"} /\ l \notin CancellingPcs
        /\ l \notin CarryingPcs
    BY DEF CancellingPcs, CarryingPcs
  <2> QED BY <1>1, <2>1, <2>2, <2>3, MovingTask
<1>3. CASE Untrack(t) \/ RemoveJob(t)
  <2>1. \A j \in JobIds : /\ active'[j] \in {active[j], NoAttempt}
                          /\ current'[j] \in {current[j], NoAttempt}
                          /\ j # t.job => active'[j] = active[j] /\ current'[j] = current[j]
    BY <1>3 DEF Untrack, RemoveJob, TypeOK
  <2>2. PICK l \in {"untracked", "respond"} : pc' = [pc EXCEPT ![t] = l]
    BY <1>3 DEF Untrack, RemoveJob, Goto
  <2>3. /\ l # "idle" /\ l \notin {"lookup", "decode", "reread"} /\ l \notin CancellingPcs
        /\ l \notin CarryingPcs
    BY DEF CancellingPcs, CarryingPcs
  <2> QED BY <1>1, <2>1, <2>2, <2>3, MovingTask
<1>4. CASE Decode(t) \/ Respond(t)
  <2>1. UNCHANGED <<active, current>>
    BY <1>4 DEF Decode, Respond, tables
  <2>2. PICK l \in {"ignored", "reread", "queuedResponse"} :
          pc' = [pc EXCEPT ![t] = l] /\ (l = "reread" => pc[t] = "decode")
    BY <1>4 DEF Decode, Respond, Goto
  <2>3. /\ l # "idle" /\ l \notin {"lookup", "decode"} /\ l \notin CancellingPcs
        /\ l \notin CarryingPcs
    BY DEF CancellingPcs, CarryingPcs
  <2>4. l = "reread" => held[t].seq = 0
    BY <2>2 DEF BookInv, Fresh
  <2> QED BY <1>1, <2>1, <2>2, <2>3, <2>4, MovingTask
<1> QED BY <1>2, <1>3, <1>4

LEMMA BookSender ==
  ASSUME TypeOK, BookInv, SenderStep PROVE BookInv' /\ RecordNext
<1>1. CASE CommonChainTxn
  <2>1. PICK t \in Task : t = Head(relayChan)
    BY <1>1 DEF CommonChainTxn, TypeOK
  <2>2. UNCHANGED <<active, current>> /\ held' = held
    BY <1>1 DEF CommonChainTxn, tables
  <2>3. PICK l \in {"relaySubmitted", "slashSubmitted"} : pc' = [pc EXCEPT ![t] = l]
    BY <1>1, <2>1 DEF CommonChainTxn, Goto
  <2>4. /\ l # "idle" /\ l \notin {"lookup", "decode", "reread"} /\ l \notin CancellingPcs
        /\ l \notin CarryingPcs
    BY DEF CancellingPcs, CarryingPcs
  <2> QED BY <2>2, <2>3, <2>4, MovingTask
<1>2. CASE RequestChainTxn
  <2>1. PICK t \in Task : t = Head(responseChan)
    BY <1>2 DEF RequestChainTxn, TypeOK
  <2>2. UNCHANGED <<active, current>> /\ held' = held
    BY <1>2 DEF RequestChainTxn, tables
  <2>3. pc' = [pc EXCEPT ![t] = "responseSubmitted"]
    BY <1>2, <2>1 DEF RequestChainTxn, Goto
  <2>4. "responseSubmitted" \notin CancellingPcs /\ "responseSubmitted" \notin CarryingPcs
    BY DEF CancellingPcs, CarryingPcs
  <2> QED BY <2>2, <2>3, <2>4, MovingTask
<1>3. CASE RemoveResponseJob
  <2>1. PICK t \in Task : t = Head(responseChan)
    BY <1>3 DEF RemoveResponseJob, TypeOK
  <2>2. UNCHANGED current /\ held' = held /\ active' = [active EXCEPT ![t.job] = NoAttempt]
    BY <1>3, <2>1 DEF RemoveResponseJob
  <2>3. pc' = [pc EXCEPT ![t] = "responded"]
    BY <1>3, <2>1 DEF RemoveResponseJob, Goto
  <2>4. "responded" \notin CancellingPcs /\ "responded" \notin CarryingPcs
    BY DEF CancellingPcs, CarryingPcs
  <2>5. \A j \in JobIds : /\ active'[j] \in {active[j], NoAttempt}
                          /\ current'[j] \in {current[j], NoAttempt}
                          /\ j # t.job => active'[j] = active[j] /\ current'[j] = current[j]
    BY <2>2 DEF TypeOK
  <2> QED BY <2>2, <2>3, <2>4, <2>5, MovingTask
<1> QED BY <1>1, <1>2, <1>3 DEF SenderStep

\* The callback moves waiting tasks, which are choosing before and after it.
LEMMA BookElsewhere ==
  ASSUME TypeInv, BookInv, ServiceStep \/ Environment \/ UNCHANGED vars
  PROVE  BookInv' /\ RecordNext
<1>1. TypeOK /\ UNCHANGED <<active, current, held>>
  BY DEF ServiceStep, PickCycle, PublishState, Callback, Environment, Tick, PeerRelays,
         PeerReassigns, ExecutorsRespond, vars, tables, tasks, TypeInv
<1>2. \A u \in Task : pc'[u] = pc[u] \/ (pc[u] = "waitlisted" /\ pc'[u] = "select")
  <2>1. CASE Callback
    <3>1. serviceCycle \in Cycles
      BY <1>1, <2>1 DEF Callback, TypeOK
    <3>2. \A u \in Task : Listed(u, waitlist[serviceCycle]) => pc[u] = "waitlisted"
      BY <3>1 DEF TypeInv, WaitlistInv, Listed
    <3> QED BY <2>1, <3>2 DEF Callback
  <2>2. CASE PickCycle \/ PublishState
    BY <2>2 DEF PickCycle, PublishState, tasks
  <2>3. CASE Environment \/ UNCHANGED vars
    BY <2>3 DEF Environment, Tick, PeerRelays, PeerReassigns, ExecutorsRespond, vars, tasks
  <2> QED BY <2>1, <2>2, <2>3 DEF ServiceStep
<1>3. ASSUME NEW u \in Task
      PROVE  /\ pc'[u] = "idle" => pc[u] = "idle"
             /\ Carrying(u)' <=> Carrying(u)
             /\ Replacing(u)' <=> Replacing(u)
             /\ pc'[u] \in {"idle", "lookup", "decode", "reread"} => pc'[u] = pc[u]
  BY <1>2 DEF Carrying, Replacing, CarryingPcs, CancellingPcs
<1>4. ASSUME NEW j \in JobIds PROVE LastAttempt(j)' /\ RecordSame(j)
  <2>1. \A u \in TasksOf(j) : u \in Task
    BY DEF TasksOf
  <2>2. \A u \in TasksOf(j) : /\ held'[u] = held[u] /\ (pc'[u] = "idle" => pc[u] = "idle")
                              /\ Carrying(u)' <=> Carrying(u)
                              /\ Replacing(u)' <=> Replacing(u)
    BY <1>1, <1>3, <2>1
  <2>3. LastAttempt(j)
    BY DEF BookInv
  <2> QED BY <1>1, <2>2, <2>3, OtherJob
<1>5. ASSUME NEW u \in Task PROVE Fresh(u)'
  BY <1>1, <1>3 DEF Fresh, BookInv
<1> QED BY <1>4, <1>5 DEF BookInv, RecordNext

LEMMA BookNext ==
  ASSUME ExactlyOnce, OneAttemptInv, BookInv, [Next]_vars PROVE BookInv' /\ RecordNext
<1>1. TypeInv /\ TypeOK
  BY DEF OneAttemptInv, TypeInv
<1>2. ASSUME NEW t \in Task, Deliver(t) \/ TaskStep(t) PROVE BookInv' /\ RecordNext
  <2>1. CASE Deliver(t)
    BY <2>1, BookDeliver
  <2>2. CASE Select(t) \/ Store(t)
    BY <1>1, <2>2, BookSelect, BookStore
  <2>3. CASE Lookup(t)
    BY <1>1, <2>3, BookLookup
  <2>4. CASE CancelActive(t) \/ CancelCurrent(t)
    BY <2>4, BookCancel
  <2>5. CASE Reread(t)
    BY <1>1, <2>5, BookReread
  <2>6. CASE Send(t) \/ Timer(t) \/ Untrack(t) \/ Decode(t) \/ RemoveJob(t) \/ Respond(t)
    BY <1>1, <2>6, BookTask
  <2> QED BY <1>2, <2>1, <2>2, <2>3, <2>4, <2>5, <2>6 DEF TaskStep
<1>3. CASE SenderStep
  BY <1>1, <1>3, BookSender
<1>4. CASE ServiceStep \/ Environment \/ UNCHANGED vars
  BY <1>1, <1>4, BookElsewhere
<1> QED BY <1>2, <1>3, <1>4 DEF Next

LEMMA BookInit == Init => BookInv
<1> SUFFICES ASSUME Init PROVE BookInv
  OBVIOUS
<1>1. \A t \in Task : held[t].seq = 0 /\ ~Carrying(t) /\ ~Replacing(t)
  <2>1. "idle" \notin CarryingPcs \union CancellingPcs
    BY DEF CarryingPcs, CancellingPcs
  <2> QED BY <2>1 DEF Init, NoAttempt, Carrying, Replacing
<1>2. ASSUME NEW j \in JobIds PROVE Top(j, 0)
  <2>1. PICK c \in RequestCopies : TRUE
    BY ConstantsAssumption
  <2>2. [event |-> "JobRelayed", job |-> j, seq |-> 0, copy |-> c] \in TasksOf(j)
    BY DEF TasksOf, Task, RequestTask
  <2>3. \A t \in TasksOf(j) : t \in Task
    BY DEF TasksOf
  <2> QED BY <1>1, <2>2, <2>3 DEF Top
<1>3. \A j \in JobIds : active[j] = NoAttempt /\ current[j] = NoAttempt
  BY DEF Init
<1>4. \A j \in JobIds : \A t \in TasksOf(j) : ~Carrying(t) /\ ~Replacing(t)
  BY <1>1 DEF TasksOf
<1> QED BY <1>1, <1>2, <1>3, <1>4 DEF BookInv, LastAttempt, Fresh

\* What the mapping gives for a job: the number of its last attempt, and who has it.
BookFacts ==
  /\ BookAttempt = [j \in JobIds |-> BookAttempt[j]]
  /\ BookHolder = [j \in JobIds |-> BookHolder[j]]
  /\ \A j \in JobIds :
       /\ active[j] = NoAttempt \/ current[j] = NoAttempt
       /\ \E n \in Nat : Top(j, n)
       /\ \A n \in Nat : Top(j, n) => BookAttempt[j] = n
       /\ Choosing(j) => BookHolder[j] = "choosing"
       /\ ~Choosing(j) /\ active[j] # NoAttempt => BookHolder[j] = "mine"
       /\ ~Choosing(j) /\ active[j] = NoAttempt /\ current[j] # NoAttempt
            => BookHolder[j] = "watched"
       /\ ~Choosing(j) /\ ~Tracked(j) => BookHolder[j] = "none"

LEMMA LastExists ==
  ASSUME TypeOK, NEW j \in JobIds
  PROVE  \E n \in Nat : Top(j, n)
<1>1. MaxGatewayRetries \in Nat
  BY ConstantsAssumption
<1>2. HeldSeqs(j) \in SUBSET (0..MaxGatewayRetries)
  BY SeqType DEF HeldSeqs, TasksOf
<1>3. HeldSeqs(j) # {}
  <2>1. PICK c \in RequestCopies : TRUE
    BY ConstantsAssumption
  <2>2. [event |-> "JobRelayed", job |-> j, seq |-> 0, copy |-> c] \in TasksOf(j)
    BY DEF TasksOf, Task, RequestTask
  <2> QED BY <2>2 DEF HeldSeqs
<1>4. PICK n \in HeldSeqs(j) : \A k \in HeldSeqs(j) : k <= n
  BY <1>1, <1>2, <1>3, Greatest
<1>5. Top(j, n)
  BY <1>4 DEF HeldSeqs, Top
<1> QED BY <1>1, <1>2, <1>5

LEMMA LastIs ==
  ASSUME TypeOK, NEW j \in JobIds, NEW n \in Nat, Top(j, n)
  PROVE  BookAttempt[j] = n
<1> DEFINE IsLast(m) == \A k \in HeldSeqs(j) : k <= m
<1>1. n \in HeldSeqs(j) /\ IsLast(n)
  BY DEF Top, HeldSeqs
<1>2. PICK m : m = CHOOSE k \in HeldSeqs(j) : IsLast(k)
  OBVIOUS
<1>3. m \in HeldSeqs(j) /\ IsLast(m)
  BY <1>1, <1>2
<1>4. Top(j, m)
  BY <1>3 DEF Top, HeldSeqs
<1>5. m = n
  BY <1>4, TopUnique
<1> QED BY <1>2, <1>5 DEF BookAttempt

LEMMA MappingFacts == OneAttemptInv => BookFacts
<1> SUFFICES ASSUME OneAttemptInv PROVE BookFacts
  OBVIOUS
<1>1. TypeOK /\ TokenInv
  BY DEF OneAttemptInv, TypeInv
<1>2. BookAttempt = [j \in JobIds |-> BookAttempt[j]]
  BY DEF BookAttempt
<1>3. BookHolder = [j \in JobIds |-> BookHolder[j]]
  BY DEF BookHolder
<1>4. ASSUME NEW j \in JobIds
      PROVE  /\ active[j] = NoAttempt \/ current[j] = NoAttempt
             /\ Choosing(j) => BookHolder[j] = "choosing"
             /\ ~Choosing(j) /\ active[j] # NoAttempt => BookHolder[j] = "mine"
             /\ ~Choosing(j) /\ active[j] = NoAttempt /\ current[j] # NoAttempt
                  => BookHolder[j] = "watched"
             /\ ~Choosing(j) /\ ~Tracked(j) => BookHolder[j] = "none"
  <2> DEFINE C == Choosing(j)
             A == active[j] # NoAttempt
             B == current[j] # NoAttempt
  <2>1. BookHolder[j] = CASE C -> "choosing" [] A -> "mine" [] B -> "watched" [] OTHER -> "none"
    BY DEF BookHolder, Choosing
  <2>2. (C => ~A /\ ~B) /\ ~(A /\ B)
    BY <1>1 DEF TokenInv, OneToken, Choosing, Tracked
  <2>3. Tracked(j) <=> A \/ B
    BY DEF Tracked
  <2>4. active[j] = NoAttempt <=> ~A
    OBVIOUS
  <2> HIDE DEF C, A, B
  <2>5. CASE C
    BY <2>1, <2>2, <2>3, <2>5 DEF C, A, B
  <2>6. CASE A
    BY <2>1, <2>2, <2>3, <2>6 DEF C, A, B
  <2>7. CASE B
    BY <2>1, <2>2, <2>3, <2>7 DEF C, A, B
  <2>8. CASE ~A /\ ~B /\ ~C
    BY <2>1, <2>2, <2>3, <2>8 DEF C, A, B
  <2> QED BY <2>5, <2>6, <2>7, <2>8
<1> QED BY <1>1, <1>2, <1>3, <1>4, LastExists, LastIs DEF BookFacts

LEMMA ChangedAt ==
  ASSUME NEW S, NEW f, NEW g, f = [x \in S |-> f[x]], g = [x \in S |-> g[x]],
         NEW j \in S, \A k \in S \ {j} : g[k] = f[k]
  PROVE  g = [f EXCEPT ![j] = g[j]]
OBVIOUS

LEMMA ChangedNowhere ==
  ASSUME NEW S, NEW f, NEW g, f = [x \in S |-> f[x]], g = [x \in S |-> g[x]],
         \A k \in S : g[k] = f[k]
  PROVE  g = f
OBVIOUS

\* A step that does not touch a job's record leaves the book's page for it alone.
LEMMA SamePage ==
  ASSUME BookFacts, BookFacts', NEW j \in JobIds, RecordSame(j)
  PROVE  BookAttempt'[j] = BookAttempt[j] /\ BookHolder'[j] = BookHolder[j]
<1>1. PICK n \in Nat : Top(j, n)
  BY DEF BookFacts
<1>2. Top(j, n)'
  BY <1>1 DEF RecordSame, TopStays
<1>3. BookAttempt[j] = n /\ BookAttempt'[j] = n
  BY <1>1, <1>2 DEF BookFacts
<1>4. Tracked(j)' <=> Tracked(j)
  BY DEF RecordSame, Tracked
<1>5. BookHolder'[j] = BookHolder[j]
  <2>1. CASE Choosing(j)
    BY <2>1 DEF BookFacts, RecordSame
  <2>2. CASE ~Choosing(j) /\ active[j] # NoAttempt
    BY <2>2 DEF BookFacts, RecordSame
  <2>3. CASE ~Choosing(j) /\ active[j] = NoAttempt /\ current[j] # NoAttempt
    BY <2>3 DEF BookFacts, RecordSame
  <2>4. CASE ~Choosing(j) /\ ~Tracked(j)
    BY <1>4, <2>4 DEF BookFacts, RecordSame
  <2> QED BY <2>1, <2>2, <2>3, <2>4 DEF Tracked
<1> QED BY <1>3, <1>5

LEMMA BeginsPage ==
  ASSUME BookFacts, BookFacts', NEW j \in JobIds, RecordBegins(j)
  PROVE  /\ BookHolder[j] # "choosing" /\ BookHolder'[j] = "choosing"
         /\ BookAttempt[j] < MaxGatewayRetries /\ BookAttempt'[j] = BookAttempt[j] + 1
<1>1. PICK n \in Nat : Top(j, n) /\ Top(j, n + 1)' /\ n < MaxGatewayRetries
  BY DEF RecordBegins
<1>2. PICK m \in Nat : m = n + 1
  OBVIOUS
<1>3. Top(j, m)'
  BY <1>1, <1>2
<1>4. BookAttempt[j] = n /\ BookAttempt'[j] = m
  BY <1>1, <1>3 DEF BookFacts
<1>5. ~Choosing(j) /\ Choosing(j)'
  BY DEF RecordBegins
<1>6. BookHolder'[j] = "choosing"
  BY <1>5 DEF BookFacts
<1>7. BookHolder[j] \in {"mine", "watched", "none"}
  BY <1>5 DEF BookFacts, Tracked
<1> QED BY <1>1, <1>2, <1>4, <1>6, <1>7

\* The end of a choice or of an entry changes only the holder, as the book allows.
LEMMA EndsPage ==
  ASSUME BookFacts, BookFacts', NEW j \in JobIds, RecordEnds(j)
  PROVE  /\ BookAttempt'[j] = BookAttempt[j]
         /\ \/ BookHolder'[j] = BookHolder[j]
            \/ BookHolder[j] = "choosing" /\ BookHolder'[j] \in {"mine", "watched", "none"}
            \/ BookHolder[j] \in {"mine", "watched"} /\ BookHolder'[j] = "none"
<1>1. PICK n \in Nat : Top(j, n)
  BY DEF BookFacts
<1>2. Top(j, n)'
  BY <1>1 DEF RecordEnds, TopStays
<1>3. BookAttempt[j] = n /\ BookAttempt'[j] = n
  BY <1>1, <1>2 DEF BookFacts
<1>4. CASE Choosing(j)
  <2>1. BookHolder[j] = "choosing"
    BY <1>4 DEF BookFacts
  <2>2. BookHolder'[j] \in {"choosing", "mine", "watched", "none"}
    BY DEF BookFacts, Tracked
  <2> QED BY <1>3, <2>1, <2>2
<1>5. CASE ~Choosing(j)
  <2>1. ~Choosing(j)' /\ active'[j] \in {active[j], NoAttempt}
        /\ current'[j] \in {current[j], NoAttempt}
    BY <1>5 DEF RecordEnds
  <2>2. CASE active[j] # NoAttempt
    <3>1. BookHolder[j] = "mine"
      BY <1>5, <2>2 DEF BookFacts
    <3>2. current'[j] = NoAttempt
      BY <2>1, <2>2 DEF BookFacts
    <3>3. BookHolder'[j] = BookHolder[j] \/ BookHolder'[j] = "none"
      BY <2>1, <3>1, <3>2 DEF BookFacts, Tracked
    <3>4. BookHolder[j] \in {"mine", "watched"}
      BY <3>1
    <3> QED BY <1>3, <3>3, <3>4
  <2>3. CASE active[j] = NoAttempt /\ current[j] # NoAttempt
    <3>1. BookHolder[j] = "watched"
      BY <1>5, <2>3 DEF BookFacts
    <3>2. BookHolder'[j] = BookHolder[j] \/ BookHolder'[j] = "none"
      BY <2>1, <2>3, <3>1 DEF BookFacts, Tracked
    <3>3. BookHolder[j] \in {"mine", "watched"}
      BY <3>1
    <3> QED BY <1>3, <3>2, <3>3
  <2>4. CASE ~Tracked(j)
    <3>1. BookHolder[j] = "none"
      BY <1>5, <2>4 DEF BookFacts
    <3>2. BookHolder'[j] = "none"
      BY <2>1, <2>4 DEF BookFacts, Tracked
    <3> QED BY <1>3, <3>1, <3>2
  <2> QED BY <2>2, <2>3, <2>4 DEF Tracked
<1> QED BY <1>4, <1>5

\* The record of the jobs moves as JobBook says.
LEMMA BookStep ==
  ASSUME BookFacts, BookFacts', RecordNext
  PROVE  [Book!Next]_(Book!bookVars)
<1>1. /\ BookAttempt = [j \in JobIds |-> BookAttempt[j]]
      /\ BookAttempt' = [j \in JobIds |-> BookAttempt'[j]]
      /\ BookHolder = [j \in JobIds |-> BookHolder[j]]
      /\ BookHolder' = [j \in JobIds |-> BookHolder'[j]]
  BY DEF BookFacts
<1>2. CASE \A j \in JobIds : RecordSame(j)
  <2>1. \A j \in JobIds : BookAttempt'[j] = BookAttempt[j] /\ BookHolder'[j] = BookHolder[j]
    BY <1>2, SamePage
  <2>2. BookAttempt' = BookAttempt
    BY <1>1, <2>1, ChangedNowhere
  <2>3. BookHolder' = BookHolder
    BY <1>1, <2>1, ChangedNowhere
  <2> QED BY <2>2, <2>3 DEF Book!bookVars
<1>3. ASSUME NEW j \in JobIds, RecordStep(j) PROVE [Book!Next]_(Book!bookVars)
  <2>1. \A k \in JobIds \ {j} :
          BookAttempt'[k] = BookAttempt[k] /\ BookHolder'[k] = BookHolder[k]
    BY <1>3, SamePage DEF RecordStep
  <2>2. BookAttempt' = [BookAttempt EXCEPT ![j] = BookAttempt'[j]]
    BY <1>1, <2>1, ChangedAt
  <2>3. BookHolder' = [BookHolder EXCEPT ![j] = BookHolder'[j]]
    BY <1>1, <2>1, ChangedAt
  <2>4. CASE RecordBegins(j)
    <3>1. /\ BookHolder[j] # "choosing" /\ BookHolder'[j] = "choosing"
          /\ BookAttempt[j] < MaxGatewayRetries /\ BookAttempt'[j] = BookAttempt[j] + 1
      BY <2>4, BeginsPage
    <3>2. Book!Begin(j)
      BY <2>2, <2>3, <3>1 DEF Book!Begin
    <3> QED BY <3>2 DEF Book!Next
  <2>5. CASE RecordEnds(j)
    <3>1. /\ BookAttempt'[j] = BookAttempt[j]
          /\ \/ BookHolder'[j] = BookHolder[j]
             \/ BookHolder[j] = "choosing" /\ BookHolder'[j] \in {"mine", "watched", "none"}
             \/ BookHolder[j] \in {"mine", "watched"} /\ BookHolder'[j] = "none"
      BY <2>5, EndsPage
    <3>2. BookAttempt' = BookAttempt
      BY <1>1, <2>1, <3>1, ChangedNowhere
    <3>3. CASE BookHolder'[j] = BookHolder[j]
      <4>1. BookHolder' = BookHolder
        BY <1>1, <2>1, <3>3, ChangedNowhere
      <4> QED BY <3>2, <4>1 DEF Book!bookVars
    <3>4. CASE BookHolder[j] = "choosing" /\ BookHolder'[j] \in {"mine", "watched", "none"}
      <4>1. Book!Settle(j)
        BY <2>3, <3>2, <3>4 DEF Book!Settle
      <4> QED BY <4>1 DEF Book!Next
    <3>5. CASE BookHolder[j] \in {"mine", "watched"} /\ BookHolder'[j] = "none"
      <4>1. Book!Leave(j)
        BY <2>3, <3>2, <3>5 DEF Book!Leave
      <4> QED BY <4>1 DEF Book!Next
    <3> QED BY <3>1, <3>3, <3>4, <3>5
  <2> QED BY <1>3, <2>4, <2>5 DEF RecordStep
<1> QED BY <1>2, <1>3 DEF RecordNext

LEMMA BookStart == Init => Book!Init
<1> SUFFICES ASSUME Init PROVE Book!Init
  OBVIOUS
<1>1. OneAttemptInv /\ BookInv
  BY TokenInit, BookInit
<1>2. BookFacts
  BY <1>1, MappingFacts
<1>3. ASSUME NEW j \in JobIds PROVE BookAttempt[j] = 0 /\ BookHolder[j] = "none"
  <2>1. PICK n \in Nat : Top(j, n)
    BY <1>2 DEF BookFacts
  <2>2. \A t \in TasksOf(j) : held[t].seq = 0 /\ ~Carrying(t)
    <3>1. "idle" \notin CarryingPcs
      BY DEF CarryingPcs
    <3> QED BY <3>1 DEF Init, NoAttempt, Carrying, TasksOf
  <2>3. n = 0
    BY <2>1, <2>2 DEF Top
  <2>4. ~Choosing(j) /\ ~Tracked(j)
    BY <2>2 DEF Choosing, Tracked, Init
  <2> QED BY <1>2, <2>1, <2>3, <2>4 DEF BookFacts
<1> QED BY <1>2, <1>3 DEF BookFacts, Book!Init

\* The unordered tasks, the two tables and the waitlist keep one record per job, of
\* attempts numbered from 1 without a gap and one at a time, when every event is
\* delivered once (job_relayed_handler, gateway_reassigned_handler, cancel_job_with_job_id).
THEOREM RecordIsKept == ExactlyOnce => (Spec => ImplementsBook)
<1>1. ExactlyOnce /\ OneAttemptInv /\ BookInv /\ [Next]_vars
        => OneAttemptInv' /\ BookInv' /\ RecordNext
  BY TokenNext, BookNext
<1>2. OneAttemptInv' => BookFacts'
  BY MappingFacts, PTL
<1>3. OneAttemptInv => BookFacts
  BY MappingFacts
<1>4. ExactlyOnce /\ OneAttemptInv /\ BookInv /\ [Next]_vars => [Book!Next]_(Book!bookVars)
  BY <1>1, <1>2, <1>3, BookStep
<1>5. Init => OneAttemptInv /\ BookInv
  BY TokenInit, BookInit
<1>6. ASSUME ExactlyOnce PROVE Spec => ImplementsBook
  <2>1. OneAttemptInv /\ BookInv /\ [Next]_vars => OneAttemptInv' /\ BookInv'
    BY <1>1, <1>6
  <2>2. OneAttemptInv /\ BookInv /\ [Next]_vars => [Book!Next]_(Book!bookVars)
    BY <1>4, <1>6
  <2> QED BY <1>5, <2>1, <2>2, BookStart, PTL DEF Spec, ImplementsBook, Book!Spec
<1> QED BY <1>6
-----------------------------------------------------------------------------
(* Entries and the contract, when every event is delivered once.            *)

\* A step that leaves a task where it is.
LEMMA PastStays ==
  ASSUME TypeInv, PastInv, [Next]_vars, NEW t \in Task, pc'[t] = pc[t],
         held'[t].seq = held[t].seq
  PROVE  PastAttempt(t)'
<1>1. Gone(t.job) => Gone(t.job)'
  BY GoneNext, TaskFields
<1> QED BY <1>1 DEF PastInv, PastAttempt

\* A step of one task that keeps its attempt.
LEMMA PastMove ==
  ASSUME TypeInv, PastInv, [Next]_vars, NEW t \in Task, NEW l,
         pc' = [pc EXCEPT ![t] = l],
         \A u \in Task : u # t => held'[u] = held[u],
         \/ t.event # "GatewayReassigned"
         \/ l \in {"idle", "lookup", "ignored"} \union CancellingPcs
         \/ l # "exhausted" /\ held'[t].seq = t.seq + 1
         \/ l = "exhausted" /\ Gone(t.job)'
         \/ /\ pc[t] \notin {"idle", "lookup", "ignored", "exhausted"} \union CancellingPcs
            /\ l # "exhausted" /\ held'[t].seq = held[t].seq
  PROVE  PastInv'
<1>1. \A u \in Task : pc'[u] = IF u = t THEN l ELSE pc[u]
  BY DEF TypeInv, TypeOK
<1>2. ASSUME NEW u \in Task, u # t PROVE PastAttempt(u)'
  BY <1>1, <1>2, PastStays
<1>3. PastAttempt(t)'
  BY <1>1 DEF PastInv, PastAttempt
<1> QED BY <1>2, <1>3 DEF PastInv

\* A job that is out of retries is gone.
LEMMA ExhaustedGone ==
  ASSUME OneAttemptInv, NEW t \in Task, t.event = "GatewayReassigned",
         CancelActive(t) \/ CancelCurrent(t), pc' = [pc EXCEPT ![t] = "exhausted"]
  PROVE  Gone(t.job)'
<1>1. /\ TypeOK /\ t.job \in JobIds /\ t \in TasksOf(t.job) /\ OneToken(t.job)
      /\ \A u \in Task : pc'[u] = IF u = t THEN "exhausted" ELSE pc[u]
  BY TaskFields DEF OneAttemptInv, TypeInv, TypeOK, TokenInv, TasksOf
<1>2. pc[t] \in CancellingPcs /\ Replacing(t)
  BY DEF CancelActive, CancelCurrent, CancellingPcs, Replacing
<1>3. \A u \in TasksOf(t.job) :
        /\ ~Carrying(u) /\ (Replacing(u) => u = t)
        /\ u.event = "JobRelayed" => pc[u] # "idle"
  BY <1>1, <1>2 DEF OneToken
<1>4. active'[t.job] = NoAttempt /\ current'[t.job] = NoAttempt
  <2>1. CASE CancelActive(t)
    <3>1. active[t.job] # NoAttempt
      BY <1>1, <2>1 DEF CancelActive, Goto, TypeOK
    <3> QED BY <1>1, <2>1, <3>1 DEF CancelActive, OneToken, TypeOK
  <2>2. CASE CancelCurrent(t)
    BY <1>1, <1>2, <2>2 DEF CancelCurrent, OneToken, TypeOK
  <2> QED BY <2>1, <2>2
<1>5. \A u \in TasksOf(t.job) :
        /\ ~Carrying(u)' /\ ~Replacing(u)'
        /\ u.event = "JobRelayed" => pc'[u] # "idle"
  BY <1>1, <1>3 DEF TasksOf, Carrying, Replacing, CarryingPcs, CancellingPcs
<1> QED BY <1>4, <1>5 DEF Gone, Tracked, TasksOf

LEMMA PastCancel ==
  ASSUME OneAttemptInv, PastInv, [Next]_vars, NEW t \in Task, CancelActive(t) \/ CancelCurrent(t)
  PROVE  PastInv'
<1>1. TypeInv /\ TypeOK /\ HeldInv /\ pc[t] \in CancellingPcs
  BY DEF OneAttemptInv, TypeInv, CancelActive, CancelCurrent, CancellingPcs
<1>2. \A u \in Task : u # t => held'[u] = held[u]
  BY <1>1 DEF CancelActive, CancelCurrent, AfterCancel, TypeOK
<1>3. PICK l : pc' = [pc EXCEPT ![t] = l]
  BY DEF CancelActive, CancelCurrent, AfterCancel, Goto
<1>4. CASE t.event # "GatewayReassigned"
  BY <1>1, <1>2, <1>3, <1>4, PastMove
<1>5. CASE t.event = "GatewayReassigned"
  <2>1. held[t].seq = t.seq /\ t.event \notin CancelEvents
    BY <1>1, <1>5 DEF HeldInv, CancelEvents
  <2>2. CASE Goto(t, "cancelCurrent")
    BY <1>1, <1>2, <2>2, PastMove DEF Goto, CancellingPcs
  <2>3. CASE AfterCancel(t)
    <3>1. CASE Goto(t, "exhausted")
      BY <1>1, <1>2, <1>5, <3>1, ExhaustedGone, PastMove DEF Goto
    <3>2. CASE Goto(t, "select") /\ held'[t].seq = t.seq + 1
      BY <1>1, <1>2, <3>2, PastMove DEF Goto
    <3>3. held' = [held EXCEPT ![t] = [seq |-> held[t].seq + 1, gateway |-> NoGateway]]
            => held'[t].seq = t.seq + 1
      BY <1>1, <2>1 DEF TypeOK
    <3> QED BY <2>1, <2>3, <3>1, <3>2, <3>3 DEF AfterCancel
  <2> QED BY <2>2, <2>3 DEF CancelActive, CancelCurrent
<1> QED BY <1>4, <1>5

LEMMA PastTask ==
  ASSUME OneAttemptInv, BookInv, PastInv, [Next]_vars, NEW t \in Task, Deliver(t) \/ TaskStep(t)
  PROVE  PastInv'
<1>1. TypeInv /\ TypeOK
  BY DEF OneAttemptInv, TypeInv
<1>2. CASE Deliver(t)
  <2>1. t.event = "GatewayReassigned" => EntryPc(t) = "lookup"
    BY DEF EntryPc
  <2>2. \A u \in Task : u # t => held'[u] = held[u]
    BY <1>1, <1>2 DEF Deliver, TypeOK
  <2> QED BY <1>1, <1>2, <2>1, <2>2, PastMove DEF Deliver, Goto
<1>3. CASE Select(t)
  <2>1. /\ \A u \in Task : u # t => held'[u] = held[u]
        /\ held'[t].seq = held[t].seq /\ pc[t] = "select"
    <3>1. held' = held \/ \E g : held' = [held EXCEPT ![t].gateway = g]
      BY <1>3 DEF Select
    <3>2. held \in [Task -> Attempt]
      BY <1>1 DEF TypeOK
    <3> QED BY <1>3, <3>1, <3>2 DEF Select, Attempt
  <2>2. \E l \in {"dropped", "store", "waitlisted"} : pc' = [pc EXCEPT ![t] = l]
    BY <1>3 DEF Select, Goto
  <2> QED BY <1>1, <2>1, <2>2, PastMove DEF CancellingPcs
<1>4. CASE Store(t) \/ Send(t) \/ Timer(t) \/ Untrack(t)
  <2>1. UNCHANGED held /\ pc[t] \in {"store", "send", "slash", "timer", "untrack"}
    BY <1>4 DEF Store, Send, Timer, Untrack
  <2>2. \E l : l # "exhausted" /\ pc' = [pc EXCEPT ![t] = l]
    BY <1>4 DEF Store, Send, Timer, Untrack, Goto
  <2> QED BY <1>1, <2>1, <2>2, PastMove DEF CancellingPcs
<1>5. CASE Lookup(t)
  <2>1. \A u \in Task : u # t => held'[u] = held[u]
    BY <1>1, <1>5 DEF Lookup, TypeOK
  <2>2. \E l \in {"cancelActive", "ignored"} : pc' = [pc EXCEPT ![t] = l]
    BY <1>5 DEF Lookup, Goto
  <2> QED BY <1>1, <2>1, <2>2, PastMove DEF CancellingPcs
<1>6. CASE Decode(t) \/ RemoveJob(t) \/ Respond(t)
  <2>1. UNCHANGED held /\ pc[t] \in {"decode", "remove", "respond"}
    BY <1>6 DEF Decode, RemoveJob, Respond
  <2>2. \E l : l # "exhausted" /\ pc' = [pc EXCEPT ![t] = l]
    BY <1>6 DEF Decode, RemoveJob, Respond, Goto
  <2> QED BY <1>1, <2>1, <2>2, PastMove DEF CancellingPcs
<1>7. CASE Reread(t)
  <2>1. held[t].seq = 0 /\ pc[t] = "reread"
    BY <1>7 DEF Reread, BookInv, Fresh
  <2>2. t.event # "GatewayReassigned"
    <3>1. t.event = "GatewayReassigned" => held[t].seq = t.seq + 1 /\ t.seq \in Attempts
      BY <2>1, TaskFields DEF PastInv, PastAttempt, CancellingPcs
    <3> QED BY <2>1, <3>1 DEF Attempts
  <2>3. \A u \in Task : u # t => held'[u] = held[u]
    BY <1>1, <1>7 DEF Reread, TypeOK
  <2> QED BY <1>1, <1>7, <2>2, <2>3, PastMove DEF Reread, Goto
<1> QED BY <1>2, <1>3, <1>4, <1>5, <1>6, <1>7, PastCancel DEF TaskStep

LEMMA PastNext ==
  ASSUME OneAttemptInv, BookInv, PastInv, [Next]_vars PROVE PastInv'
<1>1. TypeInv /\ TypeOK /\ WaitlistInv
  BY DEF OneAttemptInv, TypeInv
<1>2. CASE CommonChainTxn
  <2> DEFINE t == Head(relayChan)
  <2>1. t \in Task /\ UNCHANGED held /\ pc[t] \in {"queuedRelay", "queuedSlash"}
    BY <1>1, <1>2 DEF CommonChainTxn, TypeOK
  <2>2. \E l \in {"relaySubmitted", "slashSubmitted"} : pc' = [pc EXCEPT ![t] = l]
    BY <1>2 DEF CommonChainTxn, Goto
  <2> QED BY <1>1, <2>1, <2>2, PastMove DEF CancellingPcs
<1>3. CASE RequestChainTxn \/ RemoveResponseJob
  <2> DEFINE t == Head(responseChan)
  <2>1. t \in Task /\ UNCHANGED held /\ pc[t] \in {"queuedResponse", "responseSubmitted"}
    BY <1>1, <1>3 DEF RequestChainTxn, RemoveResponseJob, TypeOK
  <2>2. \E l \in {"responseSubmitted", "responded"} : pc' = [pc EXCEPT ![t] = l]
    BY <1>3 DEF RequestChainTxn, RemoveResponseJob, Goto
  <2> QED BY <1>1, <2>1, <2>2, PastMove DEF CancellingPcs
<1>4. CASE Callback
  <2> SUFFICES ASSUME NEW u \in Task PROVE PastAttempt(u)'
    BY DEF PastInv
  <2>1. serviceCycle \in Cycles /\ held' = held
    BY <1>1, <1>4 DEF Callback, TypeOK
  <2>2. CASE Listed(u, waitlist[serviceCycle])
    <3>1. pc[u] = "waitlisted" /\ pc'[u] = "select"
      BY <1>1, <1>4, <2>1, <2>2 DEF Callback, WaitlistInv, Listed
    <3> QED BY <2>1, <3>1 DEF PastInv, PastAttempt, CancellingPcs
  <2>3. CASE ~Listed(u, waitlist[serviceCycle])
    BY <1>1, <1>4, <2>1, <2>3, PastStays DEF Callback
  <2> QED BY <2>2, <2>3
<1>5. CASE PickCycle \/ PublishState \/ Environment \/ UNCHANGED vars
  <2>1. UNCHANGED <<pc, held>>
    BY <1>5 DEF PickCycle, PublishState, Environment, Tick, PeerRelays, PeerReassigns,
                ExecutorsRespond, vars, tasks
  <2>2. \A u \in Task : PastAttempt(u)'
    BY <1>1, <2>1, PastStays
  <2> QED BY <2>2 DEF PastInv
<1> QED BY <1>2, <1>3, <1>4, <1>5, PastTask DEF Next, SenderStep, ServiceStep

\* The entry of an attempt that the contract has moved past is still to be replaced, or
\* the event was dropped.
LEMMA StaleEntry ==
  ASSUME OneAttemptInv, BookInv, PastInv, NotAheadInv, ReportInv, NEW j \in JobIds,
         Settled(j), NEW entry \in {active[j], current[j]} \ {NoAttempt},
         entry.seq # chain[j].seq
  PROVE  Overtook(j, entry.seq)
<1>1. TypeOK
  BY DEF OneAttemptInv, TypeInv
<1>2. entry.seq \in Attempts
  BY <1>1, StoredAttempts
<1>3. entry.seq < chain[j].seq
  <2>1. entry.seq <= chain[j].seq
    BY DEF NotAheadInv, AttemptNotAhead
  <2>2. entry.seq \in Nat /\ chain[j].seq \in Nat
    BY <1>1, <1>2, ConstantsAssumption DEF TypeOK, Attempts
  <2> QED BY <2>1, <2>2
<1>4. PICK copy \in CommonCopies : TRUE
  BY ConstantsAssumption
<1>5. PICK t : t = [event |-> "GatewayReassigned", job |-> j, seq |-> entry.seq, copy |-> copy]
  OBVIOUS
<1>6. /\ t \in Task /\ t \in TasksOf(j) /\ t.event = "GatewayReassigned"
      /\ t.seq = entry.seq /\ t.job = j
  BY <1>2, <1>5 DEF Task, ReassignedTask, TasksOf
<1>7. Emitted(t)
  BY <1>2, <1>3, <1>6 DEF Emitted, ReportInv, Announced
<1>8. pc[t] \in FinishedPcs
  BY <1>6, <1>7 DEF Settled
<1>9. CASE pc[t] # "ignored"
  <2>1. pc[t] \notin {"idle", "lookup", "ignored"} \union CancellingPcs
    BY <1>8, <1>9 DEF FinishedPcs, CancellingPcs
  <2>2. Tracked(j) /\ Top(j, entry.seq)
    BY DEF Tracked, BookInv, LastAttempt
  <2>3. held[t].seq = t.seq + 1
    BY <1>6, <2>1, <2>2 DEF PastInv, PastAttempt, Gone
  <2>4. held[t].seq <= entry.seq
    BY <1>6, <2>2 DEF Top
  <2> QED BY <1>2, <1>6, <2>3, <2>4 DEF Attempts
<1> QED BY <1>6, <1>9 DEF Overtook

\* When every event is delivered once, the tables and the contract agree once a job's
\* events are handled, except for an entry whose GatewayReassigned event came before it.
THEOREM StaleEntriesOvertaken == ExactlyOnce => (Spec => []StaleOnlyIfOvertaken)
<1>1. Init => PastInv
  BY DEF Init, PastInv, PastAttempt
<1>2. OneAttemptInv /\ BookInv /\ PastInv /\ NotAheadInv /\ ReportInv => StaleOnlyIfOvertaken
  BY StaleEntry DEF StaleOnlyIfOvertaken
<1>3. ASSUME ExactlyOnce PROVE Spec => []StaleOnlyIfOvertaken
  <2>1. OneAttemptInv /\ BookInv /\ [Next]_vars => OneAttemptInv' /\ BookInv'
    BY <1>3, TokenNext, BookNext
  <2>2. OneAttemptInv /\ BookInv /\ PastInv /\ [Next]_vars => PastInv'
    BY PastNext
  <2> QED BY <1>1, <1>2, <2>1, <2>2, TokenInit, BookInit, ReportAlways, PTL DEF Spec
<1> QED BY <1>3
-----------------------------------------------------------------------------
(* The epoch service of this module and the contract that EpochService keeps. *)

Service == INSTANCE ServiceContract

\* The steps of the epoch service that the jobs reckon with are those of ServiceContract,
\* up to the bound on the cycles: no more, so that the contract says all the jobs see of
\* the service, and no less, so that what is proved of the jobs holds with any service
\* that keeps it, as EpochService does (gateway_epoch_state_service and its callback).  No
\* other step touches what the contract is about.
THEOREM JobsReckonWithTheContract ==
  /\ PickCycle <=>
       Service!Pick /\ serviceCycle' <= LastCycle
         /\ UNCHANGED <<tables, waiting, chans, tasks, selection, contracts>>
  /\ PublishState <=>
       (Service!Publish \/ Service!Panic)
         /\ UNCHANGED <<tables, waiting, chans, tasks, selection, contracts>>
  /\ Callback <=>
       Service!CallBack
         /\ released' = [released EXCEPT ![serviceCycle] = waitlist[serviceCycle]]
         /\ waitlist' = [waitlist EXCEPT ![serviceCycle] = <<>>]
         /\ pc' = [t \in Task |-> IF Listed(t, waitlist[serviceCycle]) THEN "select" ELSE pc[t]]
         /\ UNCHANGED <<tables, chans, held, selection, contracts>>
  /\ Tick <=>
       Service!Tick /\ clock < LastCycle
         /\ UNCHANGED <<tables, waiting, chans, tasks, selection, contracts>>
  /\ [Next]_vars => [Service!Next]_(Service!contractVars)
<1>1. PickCycle <=>
        Service!Pick /\ serviceCycle' <= LastCycle
          /\ UNCHANGED <<tables, waiting, chans, tasks, selection, contracts>>
  <2>1. \A c, now : SkipTo(c, now) = Service!NotTooOld(c, now)
    BY DEF SkipTo, Service!NotTooOld
  <2> QED BY <2>1 DEF PickCycle, Service!Pick, ServiceClocks, Service!Clocks, environment
<1>2. PublishState <=>
        (Service!Publish \/ Service!Panic)
          /\ UNCHANGED <<tables, waiting, chans, tasks, selection, contracts>>
  BY DEF PublishState, Reached, Service!Publish, Service!Panic, environment
<1>3. Callback <=>
        Service!CallBack
          /\ released' = [released EXCEPT ![serviceCycle] = waitlist[serviceCycle]]
          /\ waitlist' = [waitlist EXCEPT ![serviceCycle] = <<>>]
          /\ pc' = [t \in Task |-> IF Listed(t, waitlist[serviceCycle]) THEN "select" ELSE pc[t]]
          /\ UNCHANGED <<tables, chans, held, selection, contracts>>
  BY DEF Callback, Service!CallBack, environment
<1>4. Tick <=>
        Service!Tick /\ clock < LastCycle
          /\ UNCHANGED <<tables, waiting, chans, tasks, selection, contracts>>
  BY DEF Tick, Service!Tick, service
<1>5. [Next]_vars => [Service!Next]_(Service!contractVars)
  <2>1. ASSUME NEW t \in Task, Deliver(t) \/ TaskStep(t) PROVE UNCHANGED <<service, clock>>
    BY <2>1 DEF Deliver, TaskStep, Select, Store, Send, Timer, Untrack, Lookup, CancelActive,
                CancelCurrent, Decode, Reread, RemoveJob, Respond, environment
  <2>2. ASSUME SenderStep PROVE UNCHANGED <<service, clock>>
    BY <2>2 DEF SenderStep, CommonChainTxn, RequestChainTxn, RemoveResponseJob, environment
  <2>3. ASSUME Environment PROVE Service!Tick \/ UNCHANGED <<service, clock>>
    BY <1>4, <2>3 DEF Environment, PeerRelays, PeerReassigns, ExecutorsRespond, environment
  <2>4. ASSUME ServiceStep PROVE Service!Next
    BY <1>1, <1>2, <1>3, <2>4 DEF ServiceStep, Service!Next
  <2>5. ASSUME UNCHANGED vars PROVE UNCHANGED <<service, clock>>
    BY <2>5 DEF vars, environment
  <2>6. UNCHANGED <<service, clock>> => UNCHANGED Service!contractVars
    BY DEF service, Service!contractVars
  <2> QED BY <2>1, <2>2, <2>3, <2>4, <2>5, <2>6 DEF Next, Service!Next
<1> QED BY <1>1, <1>2, <1>3, <1>4, <1>5
=============================================================================
