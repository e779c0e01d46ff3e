---------------------------- MODULE WorkflowRuns ----------------------------
(***************************************************************************)
(* The row of a workflow run and its history: every change of status is a  *)
(* compare-and-set on the status and its version, in one transaction with  *)
(* the transition it appends.  The commands that move a run come from the  *)
(* launch (DreamLaunch), from the confirmation of its output               *)
(* (StoryConfirmation) and from here: activation, output, failure,         *)
(* cancellation.                                                           *)
(***************************************************************************)
EXTENDS Naturals, Sequences, FiniteSets

CONSTANTS
  Runs,
  None      \* null, of the modules that extend this one

VARIABLES
  run,      \* workflow_runs: status, status_version, has it an agent session
  history   \* workflow_run_transitions, by transition_seq

runVars == <<run, history>>

NoRun == [status |-> "none", version |-> 0, session |-> FALSE]

\* The order in which a run that meets no failure passes its statuses.
Lifecycle   == <<"preflight", "queued", "running", "output_validating", "pending_review", "confirmed">>
Place(s)    == CHOOSE i \in DOMAIN Lifecycle : Lifecycle[i] = s
Nonterminal == {Lifecycle[i] : i \in DOMAIN Lifecycle}
Statuses    == Nonterminal \cup {"failed", "cancelled"}
Created     == {r \in Runs : run[r].status # "none"}

\* The run passes the statuses of path, one transition for each.
Passes(r, path, session) ==
  LET row   == run[r]
      Step(i) == [seq |-> row.version + i, to |-> path[i],
                  from |-> IF i = 1 THEN row.status ELSE path[i - 1]]
  IN  /\ run' = [run EXCEPT ![r] = [status |-> path[Len(path)],
                                    version |-> row.version + Len(path), session |-> session]]
      /\ history' = [history EXCEPT ![r] = @ \o [i \in 1 .. Len(path) |-> Step(i)]]

\* A run is set to its target at once, with one transition.
PathToMutant(r, target) == <<target>>

\* What lies between the status of the run and target, target included.
PathTo(r, target) == SubSeq(Lifecycle, Place(run[r].status) + 1, Place(target))
Between(r, from, to) ==
  run[r].status \in {Lifecycle[i] : i \in Place(from) .. Place(to)}

RunInit ==
  /\ run = [r \in Runs |-> NoRun]
  /\ history = [r \in Runs |-> <<>>]

\* The row is inserted in preflight and queued by the same transaction.
Queue(r) ==
  /\ run[r].status = "none"
  /\ Passes(r, <<"preflight", "queued">>, FALSE)

\* Receipt, session, status and transition of a run that is queued.  A run that
\* is running or later replays its session and changes nothing.
Activate(r) ==
  /\ run[r].status = "queued" /\ ~run[r].session
  /\ Passes(r, <<"running">>, TRUE)

\* The stages of the output are there: one transaction, one or two transitions.
OutputReady(r) ==
  /\ Between(r, "running", "output_validating")
  /\ Passes(r, PathTo(r, "pending_review"), run[r].session)

\* A confirmed run can still fail: its release comes after the confirmation.
Fail(r) ==
  /\ run[r].status \in Nonterminal
  /\ Passes(r, <<"failed">>, run[r].session)

Cancel(r) ==
  /\ run[r].status \in Nonterminal
  /\ Passes(r, <<"cancelled">>, run[r].session)

RunNext == \E r \in Runs : Activate(r) \/ OutputReady(r) \/ Fail(r) \/ Cancel(r)

-----------------------------------------------------------------------------

\* The edges of the state machine: one status forward, or out of it.
Edges ==
  {<<Lifecycle[i], Lifecycle[i + 1]>> : i \in 1 .. Len(Lifecycle) - 1}
    \cup (Nonterminal \X {"failed", "cancelled"}) \cup {<<"none", "preflight">>}

\* The history of a run explains its row: it is numbered without gaps up to the
\* version, each transition starts where the one before ended and follows an edge,
\* and the last one led to the status.  So a run that failed or was cancelled stays
\* so, and none is running, or later, without the session of its activation.
HistoryTellsRun ==
  \A r \in Runs :
    LET h == history[r]
        From(i) == IF i = 1 THEN "none" ELSE h[i - 1].to
    IN  /\ Len(h) = run[r].version
        /\ \A i \in DOMAIN h :
             h[i].seq = i /\ h[i].from = From(i) /\ <<h[i].from, h[i].to>> \in Edges
        /\ run[r].status = From(Len(h) + 1)
        /\ (\E i \in DOMAIN h : h[i].to = "running") <=> run[r].session
=============================================================================
