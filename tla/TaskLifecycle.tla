--------------------------- MODULE TaskLifecycle ---------------------------
(***************************************************************************)
(* What the harness promises about one submitted task, without leases,     *)
(* clocks, retries, evidence stores or Control processes:                  *)
(*                                                                         *)
(*   absent --Submit--> open --Execute--> executed --Decide--> (outcome)   *)
(*                        \--Abandon--> ended                              *)
(*                                                                         *)
(* A task is executed once, by one attempt; only an executed task gets an  *)
(* outcome; the outcome is about that attempt and is given once.           *)
(***************************************************************************)
CONSTANTS Jobs, Lineage, Outcomes, NoValue,
          About(_)     \* the attempt an outcome is about

VARIABLES phase,    \* [Jobs -> phase of the task]
          lineage,  \* the attempt that executed the task, or NoValue
          outcome   \* the verdict on it, or NoValue

vars == <<phase, lineage, outcome>>

Init ==
  /\ phase = [j \in Jobs |-> "absent"]
  /\ lineage = [j \in Jobs |-> NoValue]
  /\ outcome = [j \in Jobs |-> NoValue]

Submit(j) ==
  /\ phase[j] = "absent"
  /\ phase' = [phase EXCEPT ![j] = "open"]
  /\ UNCHANGED <<lineage, outcome>>

Execute(j, a) ==
  /\ phase[j] = "open"
  /\ phase' = [phase EXCEPT ![j] = "executed"]
  /\ lineage' = [lineage EXCEPT ![j] = a]
  /\ UNCHANGED outcome

Abandon(j) ==
  /\ phase[j] = "open"
  /\ phase' = [phase EXCEPT ![j] = "ended"]
  /\ UNCHANGED <<lineage, outcome>>

Decide(j, o) ==
  /\ phase[j] = "executed"
  /\ outcome[j] = NoValue
  /\ About(o) = lineage[j]
  /\ outcome' = [outcome EXCEPT ![j] = o]
  /\ UNCHANGED <<phase, lineage>>

Next ==
  \E j \in Jobs :
    \/ Submit(j)
    \/ Abandon(j)
    \/ \E a \in Lineage : Execute(j, a)
    \/ \E o \in Outcomes : Decide(j, o)

Spec == Init /\ [][Next]_vars
=============================================================================
