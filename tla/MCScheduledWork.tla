-------------------------- MODULE MCScheduledWork --------------------------
(* What workers of Dream do by the clock, one kind at a time: the triggers *)
(* of Chat tasks, or the runs of a Notion connector.  They share no row.   *)
EXTENDS MCScheduledTriggers, NotionSync

VARIABLE part  \* which of them moves

workVars == <<part, vars, notionVars>>

WorkInit ==
  /\ Init /\ NotionInit
  /\ part \in {"triggers", "notion"}
  /\ part = "triggers" => ~ inherited

WorkNext ==
  /\ \/ part = "triggers" /\ Next /\ UNCHANGED notionVars
     \/ part = "notion" /\ NotionNext /\ UNCHANGED vars
  /\ UNCHANGED part

\* In the part that does not move nothing is ever enabled.
WorkSpec == WorkInit /\ [][WorkNext]_workVars /\ Fairness /\ NotionFairness
=============================================================================
