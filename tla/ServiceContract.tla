---------------------------- MODULE ServiceContract ----------------------------
(***************************************************************************)
(* What the epoch state service promises to the jobs, without chains or    *)
(* cycle states: it takes the cycles in order, skips those that are almost *)
(* too old, publishes a cycle not before it has begun, and then, in a step *)
(* of its own, calls its waitlist back.                                    *)
(***************************************************************************)
EXTENDS Integers

CONSTANTS StatesToMaintain, LastCycle, RpcFaults

VARIABLES
  clock,         \* the cycle by the clock of the jobs
  known,         \* the cycles published so far
  serviceCycle,  \* the cycle the service is at
  servicePc      \* idle, generating a state, about to call back, or dead

contractVars == <<clock, known, serviceCycle, servicePc>>

\* The clock of the service has no offset, so it may be one cycle ahead.
Clocks == {clock, clock + 1}

NotTooOld(c, now) == IF now >= StatesToMaintain + c THEN now - StatesToMaintain + 1 ELSE c

Init ==
  /\ clock \in 1..LastCycle
  /\ known = {}
  /\ \E now \in Clocks : serviceCycle = NotTooOld(1, now)
  /\ servicePc = "idle"

Tick == clock' = clock + 1 /\ UNCHANGED <<known, serviceCycle, servicePc>>

Pick ==
  /\ servicePc = "idle"
  /\ \E now \in Clocks : serviceCycle' = NotTooOld(serviceCycle, now)
  /\ servicePc' = "generate"
  /\ UNCHANGED <<clock, known>>

Publish ==
  /\ servicePc = "generate"
  /\ serviceCycle <= clock + 1 \/ RpcFaults
  /\ known' = known \union {serviceCycle}
  /\ servicePc' = "callback"
  /\ UNCHANGED <<clock, serviceCycle>>

Panic ==
  /\ RpcFaults
  /\ servicePc = "generate"
  /\ servicePc' = "panicked"
  /\ UNCHANGED <<clock, known, serviceCycle>>

CallBack ==
  /\ servicePc = "callback"
  /\ servicePc' = "idle"
  /\ serviceCycle' = serviceCycle + 1
  /\ UNCHANGED <<clock, known>>

Next == Tick \/ Pick \/ Publish \/ Panic \/ CallBack

Spec == Init /\ [][Next]_contractVars
=============================================================================
