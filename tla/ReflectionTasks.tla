-------------------------- MODULE ReflectionTasks --------------------------
(***************************************************************************)
(* One Reflections task (reflectionTaskService.ts).  A user creates and    *)
(* starts it; workers of Dream load it, take it through its stages, run    *)
(* its sections, each in a child thread of its own, and end it; the report *)
(* is written from what the sections left.  A worker stores the turns of a *)
(* section with a bearer (reflectionTaskAuthorityService.ts) that is short *)
(* lived, can be refreshed up to a maximum, and belongs to one section.    *)
(*                                                                         *)
(* Every operation of a worker locks the row of the task first, so each is *)
(* one action.  Workers have no names: any of them, restarted, late or     *)
(* doubled, may call anything at any time.  A call that names a revision   *)
(* other than the current one is refused before it changes anything, so    *)
(* the calls here name the current one; only the beginning of a section    *)
(* that runs already ignores it.  Receipts replay, and only the replay of  *)
(* a beginning does more.  A section has one thread ever, so its thread is *)
(* the section.  Stored events and the texts of results are left out.      *)
(***************************************************************************)
EXTENDS Integers, Sequences

CONSTANTS
  Sections,    \* the sections the task asks for
  MaxResults,  \* bound: insights of one section
  MaxBearers,  \* bound: bearers issued for one section
  MaxTurns,    \* bound: turns stored for one section
  NoReport

ASSUME ReflectionAssumption ==
  MaxResults \in Nat /\ MaxBearers \in Nat \ {0} /\ MaxTurns \in Nat

VARIABLES
  reflection,  \* reflection_task
  section,     \* reflection_task_section
  result,      \* reflection_result: how many rows of each section
  bearer,      \* reflection_task_authorities of each section, as they were issued
  stored,       \* turns stored with a bearer in the thread of each section
  report       \* the analysis_reports row of the task

reflectionVars == <<reflection, section, result, bearer, stored, report>>

Terminal == {"COMPLETED", "PARTIAL_FAILED", "FAILED"}
Ending   == {"COMPLETED", "FAILED"}

NoSection == [status |-> "none", count |-> 0]
Pending   == [status |-> "PENDING", count |-> 0]
Failed    == [status |-> "FAILED", count |-> 0]

\* What an older program left: a task without a service, without rows for its
\* sections and without a snapshot; only one that had ended has results.
ReflectionInit ==
  /\ reflection \in [status : {"none", "CREATED", "ASSEMBLING", "QUEUED", "RUNNING"} \cup Terminal,
                     old : BOOLEAN, bound : {FALSE}, snapshot : {FALSE}]
  /\ reflection.old <=> reflection.status # "none"
  /\ section = [s \in Sections |-> NoSection]
  /\ result \in [Sections -> 0 .. MaxResults]
  /\ reflection.status \notin Terminal => result = [s \in Sections |-> 0]
  /\ bearer = [s \in Sections |-> <<>>]
  /\ stored  = [s \in Sections |-> 0]
  /\ report = NoReport

-----------------------------------------------------------------------------
(* The user.                                                               *)

CreateReflection ==
  /\ reflection.status = "none"
  /\ reflection' = [reflection EXCEPT !.status = "CREATED", !.bound = TRUE]
  /\ section' = [s \in Sections |-> Pending]
  /\ UNCHANGED <<result, bearer, stored, report>>

\* insertMissingSections: of an ended task, a section with results was completed.
Historical(s) ==
  IF reflection.status \notin Terminal THEN Pending
  ELSE IF result[s] > 0 THEN [status |-> "COMPLETED", count |-> result[s]] ELSE Failed

WithMissing ==
  [s \in Sections |-> IF section[s].status = "none" THEN Historical(s) ELSE section[s]]

\* A start adopts what the older program left, and changes nothing of other tasks.
StartReflection ==
  /\ reflection.status # "none"
  /\ section' = WithMissing
  /\ reflection' = [reflection EXCEPT !.bound = TRUE]
  /\ UNCHANGED <<result, bearer, stored, report>>

-----------------------------------------------------------------------------
(* The stages of the task.  Background calls find a task of their service. *)

LoadWorker ==
  /\ reflection.bound /\ ~ reflection.snapshot
  /\ section' = WithMissing
  /\ reflection' = [reflection EXCEPT !.snapshot = TRUE,
                                      !.status = IF @ = "CREATED" THEN "ASSEMBLING" ELSE @]
  /\ UNCHANGED <<result, bearer, stored, report>>

StageFrom == [QUEUED |-> "ASSEMBLING", RUNNING |-> "QUEUED"]

Advance(stage) ==
  /\ reflection.bound /\ reflection.status = StageFrom[stage]
  /\ reflection' = [reflection EXCEPT !.status = stage]
  /\ UNCHANGED <<section, result, bearer, stored, report>>

\* Only the sections that nobody has begun fail.
PendingFailedMutant ==
  [s \in Sections |-> IF section[s].status = "PENDING" THEN Failed ELSE section[s]]

PendingFailed ==
  [s \in Sections |-> IF section[s].status \in {"PENDING", "RUNNING"} THEN Failed ELSE section[s]]

Revoked(bs) == [i \in DOMAIN bs |-> [bs[i] EXCEPT !.revoked = TRUE]]

AllRevoked == bearer' = [s \in Sections |-> Revoked(bearer[s])]

\* A fatal failure is not compared with what the task has come to.
MayFailMutant == TRUE

\* advance() refuses what ended otherwise, and takes a second failure for the first.
MayFail == reflection.status \notin {"COMPLETED", "PARTIAL_FAILED"}

FatalFail ==
  /\ reflection.bound /\ MayFail
  /\ section' = PendingFailed
  /\ AllRevoked
  /\ reflection' = [reflection EXCEPT !.status = "FAILED"]
  /\ UNCHANGED <<result, stored, report>>

StatusOf(rows) ==
  LET completed == {s \in Sections : rows[s].status = "COMPLETED"}
  IN  IF completed = Sections THEN "COMPLETED"
      ELSE IF completed # {} THEN "PARTIAL_FAILED" ELSE "FAILED"

\* With a summary, what is still pending or running fails first; without one,
\* nothing may be.  A second call finds the status it would set.
Finalize(summary) ==
  LET rows == IF summary THEN PendingFailed ELSE section
  IN  /\ reflection.bound
      /\ \A s \in Sections : rows[s].status \in Ending
      /\ reflection.status \in {"RUNNING", StatusOf(rows)}
      /\ section' = rows
      /\ AllRevoked
      /\ reflection' = [reflection EXCEPT !.status = StatusOf(rows)]
      /\ UNCHANGED <<result, stored, report>>

-----------------------------------------------------------------------------
(* A section and its bearer.                                               *)

NewBearer == [revoked |-> FALSE, time |-> "fresh"]  \* then "short over", "maximum over"

LiveBearers(s) == {i \in DOMAIN bearer[s] : ~ bearer[s][i].revoked}
SectionRuns(s) == reflection.status = "RUNNING" /\ section[s].status = "RUNNING"
Usable(s, i) == i \in LiveBearers(s) /\ bearer[s][i].time # "maximum over"
Refreshed(s, i) == bearer' = [bearer EXCEPT ![s][i].time = "fresh"]

\* A section that runs is returned to whoever begins it, and its bearer with it,
\* refreshed if need be.  If the maximum of that one has passed, its revocation is
\* undone by the refusal, and the call changes nothing.
BeginSection(s) ==
  /\ reflection.bound /\ reflection.status = "RUNNING"
  /\ section[s].status \in {"PENDING", "RUNNING"}
  /\ section' = [section EXCEPT ![s].status = "RUNNING"]
  /\ \/ LiveBearers(s) = {} /\ Len(bearer[s]) < MaxBearers
        /\ bearer' = [bearer EXCEPT ![s] = Append(@, NewBearer)]
     \/ \E i \in LiveBearers(s) : Usable(s, i) /\ Refreshed(s, i)
  /\ UNCHANGED <<reflection, result, stored, report>>

\* The same request again: whatever it was given is recovered, while the section runs
\* (its revision is the one in the receipt exactly as long).
RecoverBearer(s, i) ==
  /\ reflection.bound /\ SectionRuns(s) /\ Usable(s, i)
  /\ Refreshed(s, i)
  /\ UNCHANGED <<reflection, section, result, stored, report>>

RenewBearer(s) ==
  /\ reflection.bound /\ SectionRuns(s)
  /\ \E i \in LiveBearers(s) : Usable(s, i) /\ Refreshed(s, i)
  /\ UNCHANGED <<reflection, section, result, stored, report>>

RevokeBearer(s) ==
  /\ reflection.bound /\ LiveBearers(s) # {}
  /\ bearer' = [bearer EXCEPT ![s] = Revoked(@)]
  /\ UNCHANGED <<reflection, section, result, stored, report>>

\* The bearer is left to expire.
BearersAfterMutant(s) == bearer

BearersAfter(s) == [bearer EXCEPT ![s] = Revoked(@)]

\* A completed section has the results of this call and no others; they must be of
\* sessions of the snapshot.  A failed one keeps none that was counted.
FinishSection(s, outcome, n) ==
  /\ reflection.bound /\ SectionRuns(s)
  /\ \/ /\ outcome = "COMPLETED" /\ reflection.snapshot
        /\ result' = [result EXCEPT ![s] = n]
     \/ outcome = "FAILED" /\ n = 0 /\ UNCHANGED result
  /\ section' = [section EXCEPT ![s] = [status |-> outcome, count |-> n]]
  /\ bearer' = BearersAfter(s)
  /\ UNCHANGED <<reflection, stored, report>>

\* What the routes of messages ask of a bearer, in the transaction that stores.
Resolves(s, i) == i \in LiveBearers(s) /\ bearer[s][i].time = "fresh" /\ SectionRuns(s)

StoreTurn(s, i) ==
  /\ Resolves(s, i) /\ stored[s] < MaxTurns
  /\ stored' = [stored EXCEPT ![s] = @ + 1]
  /\ UNCHANGED <<reflection, section, result, bearer, report>>

\* The clock: a bearer is fresh, or waits to be refreshed, or is past its maximum.
BearerAges(s, i) ==
  /\ bearer[s][i].time # "maximum over" /\ ~ bearer[s][i].revoked
  /\ \E t \in {"short over", "maximum over"} \ {bearer[s][i].time} :
       bearer' = [bearer EXCEPT ![s][i].time = t]
  /\ UNCHANGED <<reflection, section, result, stored, report>>

-----------------------------------------------------------------------------
(* The report.                                                             *)

Completed == {s \in Sections : section[s].status = "COMPLETED"}

\* Written once the task has ended, if there is something to say.
EnsureReport ==
  /\ reflection.bound /\ reflection.status \in Terminal
  /\ report = NoReport /\ reflection.snapshot
  /\ Completed # {} /\ \E s \in Sections : result[s] > 0
  /\ report' = [completed |-> Completed, results |-> result]
  /\ UNCHANGED <<reflection, section, result, bearer, stored>>

ReflectionNext ==
  \/ CreateReflection \/ StartReflection \/ LoadWorker
  \/ \E stage \in DOMAIN StageFrom : Advance(stage)
  \/ FatalFail
  \/ \E summary \in BOOLEAN : Finalize(summary)
  \/ \E s \in Sections :
       \/ BeginSection(s) \/ RenewBearer(s) \/ RevokeBearer(s)
       \/ \E i \in DOMAIN bearer[s] : RecoverBearer(s, i) \/ StoreTurn(s, i) \/ BearerAges(s, i)
       \/ \E outcome \in Ending, n \in 0 .. MaxResults : FinishSection(s, outcome, n)
  \/ EnsureReport

ReflectionSpec == ReflectionInit /\ [][ReflectionNext]_reflectionVars

-----------------------------------------------------------------------------
(* Properties.                                                             *)

\* A bearer that is not revoked belongs to a running section of a running task, and
\* a section has one of them at most: an end of either, by whichever of the four
\* ways, takes the bearers with it.
BearerFollowsSection ==
  \A s \in Sections : \A i, j \in LiveBearers(s) : i = j /\ SectionRuns(s)

\* A task that has ended has no section that has not, its status says how the
\* sections ended, and the rows of results are those the sections count; its report
\* tells the sections and results there are for good.
TaskTellsSections ==
  LET told == \A s \in Sections : section[s].status # "none"
  IN  /\ reflection.status \in Terminal /\ told =>
           /\ \A s \in Sections : section[s].status \in Ending
           /\ ~ reflection.old /\ reflection.status # "FAILED" =>
                reflection.status = StatusOf(section)
      /\ told => \A s \in Sections : result[s] = section[s].count
      /\ report # NoReport => /\ reflection.status \in Terminal
                              /\ report.completed = Completed /\ report.results = result

\* What a task ended with stays, its results and stored turns with it, whoever fails,
\* finalizes, finishes or stores late; and so does what a section ended with while
\* others run, and a report.
EndsStay ==
  /\ reflection.status \in Terminal =>
       reflection'.status = reflection.status /\ UNCHANGED <<result, stored>>
  /\ \A s \in Sections : section[s].status \in Ending =>
       /\ section'[s] = section[s]
       /\ result'[s] = result[s] /\ stored'[s] = stored[s]
  /\ report # NoReport => UNCHANGED report

\* "Terminal state is first-writer-wins"
\* (src/docs/architecture/admin-dream-auth-data-contract.md:597).
FirstWriterWins == [][EndsStay]_reflectionVars
=============================================================================
