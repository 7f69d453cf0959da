---- MODULE MCAgentRun ----
(* An Agent run on three workspace states, with two verification commands that *)
(* check a criterion each, or the same one.                                    *)
EXTENDS AgentRun, TLC

CONSTANTS h1, h2, h3, t1, t2

OneEach == <<{"c1"}, {"c2"}>>
Shared == <<{"c1"}, {"c1"}>>
====
