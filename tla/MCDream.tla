------------------------------ MODULE MCDream ------------------------------
(* The background work of Dream, one kind at a time: launches that create   *)
(* runs, or answers to runs that were launched, which meet in the rows of   *)
(* the runs only, or a Reflections task, which shares no row with them.     *)
EXTENDS DreamLaunch, StoryConfirmation, ReflectionTasks, TLC

CONSTANTS g1, r1, r2, c1, c2, c3, x1, x2, k1, k2, p1, p2, d1, d2, s1, s2

VARIABLE part  \* which of them moves

MCGoalOf == [k \in Keys |-> g1]
MCRunOf  == [c \in Commands |-> IF c = c3 THEN r2 ELSE r1]

vars == <<part, runVars, launchVars, confirmVars, reflectionVars>>

\* The rows of a table and the claims of a dispatch are used in one order: which id
\* is generated for which does not matter.
InOrder ==
  /\ run[r2].status # "none" => run[r1].status # "none"
  /\ preflight[p2].status # "none" => preflight[p1].status # "none"
  /\ turn[d2] # NoTurn => turn[d1] # NoTurn

\* Two launches that went well: a preflight, a run and an accepted turn each.  The
\* requests that are left shared the preflight of the first.
Launched ==
  LET Source(r) == IF r = r1 THEN k1 ELSE k2
  IN  /\ preflight = [p \in Preflights |-> [status |-> "passed", goal |-> g1, lapsed |-> FALSE,
                                           run |-> IF p = p1 THEN r1 ELSE r2]]
      /\ request   = [q \in Requests |-> [pf |-> p1, owner |-> FALSE, receipt |-> "passed"]]
      /\ stage     = [q \in Requests |-> "done"]
      /\ origin    = [r \in Runs |-> [key |-> Source(r), source |-> Source(r),
                                      retryOf |-> None, goal |-> g1]]
      /\ envelope  = [k \in Keys |-> [state |-> "dispatched", claim |-> None, fresh |-> FALSE]]
      /\ turn      = [d \in LaunchClaims |-> [run |-> IF d = d1 THEN r1 ELSE r2,
                                              state |-> "accepted"]]
      /\ latest    = [k \in Keys |-> IF k = k1 THEN d1 ELSE d2]

\* While launches move, their runs start and end, but make no output: what the output
\* does to a run is left to the answers.
LaunchPart ==
  \/ LaunchNext
  \/ (\E r \in Runs : Activate(r) \/ Fail(r) \/ Cancel(r)) /\ UNCHANGED launchVars

NoReflection == reflection.status = "none"

Init ==
  /\ ReflectionInit /\ ConfirmInit
  /\ \/ part = "launch" /\ NoReflection /\ RunInit /\ LaunchInit
     \/ part = "confirmation" /\ NoReflection /\ RunsQueued /\ Launched
     \/ part = "reflection" /\ RunInit /\ LaunchInit

Next ==
  /\ \/ part = "launch" /\ LaunchPart /\ UNCHANGED <<confirmVars, reflectionVars>>
     \/ part = "confirmation" /\ ConfirmStep /\ UNCHANGED <<launchVars, reflectionVars>>
     \/ part = "reflection" /\ ReflectionNext /\ UNCHANGED <<runVars, launchVars, confirmVars>>
  /\ UNCHANGED part

Spec == Init /\ [][Next]_vars

\* The two answers of one run, the keys of the launches, and the claims of the answers,
\* or the requests of the launches, are interchangeable.
Symmetry == Permutations({x1, x2}) \cup Permutations({c1, c2}) \cup Permutations({k1, k2})
=============================================================================
