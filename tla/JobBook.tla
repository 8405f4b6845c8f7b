------------------------------- MODULE JobBook -------------------------------
(***************************************************************************)
(* What a gateway promises about each job, without tasks, tables, channels *)
(* or cycles: attempts are numbered from 1, one at a time and without a    *)
(* gap; an attempt is first chosen for, and is then this gateway's own,    *)
(* watched at another gateway, or given up.                                *)
(***************************************************************************)
EXTENDS Naturals

CONSTANTS JobIds, MaxGatewayRetries

VARIABLES
  attempt,  \* the number of the last attempt begun for the job, 0 before the first
  holder    \* who has the job: it is being chosen, mine, watched, or nobody

bookVars == <<attempt, holder>>

Init ==
  /\ attempt = [j \in JobIds |-> 0]
  /\ holder = [j \in JobIds |-> "none"]

\* The next attempt replaces the previous one, which is over or is dropped here.
Begin(j) ==
  /\ holder[j] # "choosing"
  /\ attempt[j] < MaxGatewayRetries
  /\ attempt' = [attempt EXCEPT ![j] = @ + 1]
  /\ holder' = [holder EXCEPT ![j] = "choosing"]

Settle(j) ==
  /\ holder[j] = "choosing"
  /\ \E h \in {"mine", "watched", "none"} : holder' = [holder EXCEPT ![j] = h]
  /\ UNCHANGED attempt

Leave(j) ==
  /\ holder[j] \in {"mine", "watched"}
  /\ holder' = [holder EXCEPT ![j] = "none"]
  /\ UNCHANGED attempt

Next == \E j \in JobIds : Begin(j) \/ Settle(j) \/ Leave(j)

Spec == Init /\ [][Next]_bookVars
=============================================================================
