------------------------- MODULE ScheduledTriggers -------------------------
(***************************************************************************)
(* Scheduled Chat tasks and their triggers (chatScheduledTaskService.ts,   *)
(* the v3 operations).  A task is a user's definition; a trigger is one    *)
(* run of it.  The Dream worker claims a trigger for the time of a lease,  *)
(* prepares the Chat it runs in, binds the turn it is going to give to the *)
(* model, and reports the result.  Whatever the worker does not report in  *)
(* time is reconciled from what is in the database.                        *)
(*                                                                         *)
(* Every operation is one transaction that locks the row it changes, so it *)
(* is one action here.  A worker is known by the claims it has been given: *)
(* any claim ever handed out may be used in a call at any later time and   *)
(* any number of times, which covers retries, late and repeated calls, and *)
(* workers that die.  Instants are abstracted to whether they have come,   *)
(* and a request key to a slot of Triggers that is still unused.           *)
(***************************************************************************)
EXTENDS Integers, FiniteSets

CONSTANTS
  Tasks,        \* chat_scheduled_task rows
  Threads,      \* the source threads of the user
  Source,       \* the source thread of each task; it never changes
  Triggers,     \* bound: the chat_scheduled_trigger rows there can be
  Turns,        \* the turn ids the workers of one trigger make up
  Onces,        \* whether a task may run once (TRUE), again and again (FALSE)
  Choices,      \* the run_thread_mode values a user may choose
  LeaseLength,  \* duration of a lease, in steps of the lease clock
  MaxClaims,    \* bound: how often one trigger is handed out
  None

ASSUME TriggersAssumption ==
  /\ Source \in [Tasks -> Threads]
  /\ Onces \subseteq BOOLEAN
  /\ Choices \subseteq {"source_thread", "new_thread_each_run"}
  /\ LeaseLength \in Nat \ {0} /\ MaxClaims \in Nat \ {0}
  /\ None \notin Tasks \cup Turns \cup Triggers

VARIABLES
  task,     \* the definition of every task
  trig,     \* the row of every trigger
  session,  \* launch_status of the TaskSession made for the trigger
  final,    \* the turns of the trigger whose completed answer is stored
  writing,  \* the turns whose answer is being stored by an open transaction
  started   \* history: the <<claim, turn>> pairs start was granted to

vars == <<task, trig, session, final, writing, started>>

Modes    == {"source_thread", "new_thread_each_run"}
OpenSet  == {"claimed", "queued", "running", "state_unknown"}
Ended    == {"succeeded", "failed", "skipped"}
NoLease  == -1

Task == [status : {"absent", "active", "paused", "exhausted", "deleted"},
         before : {"active", "paused", "exhausted", None}, \* status_before_delete
         next   : {"none", "future", "due"},               \* next_run_at
         once   : BOOLEAN, mode : Modes]

Claims == 0 .. MaxClaims                                   \* 0: no claim_id
Trigger ==
  [task : Tasks \cup {None}, mode : Modes,
   status : {"absent"} \cup OpenSet \cup Ended,
   claim  : Claims, handed : Claims,           \* claim_id; history: the last one
   lease  : NoLease .. LeaseLength,            \* time left; 0: expired
   target : BOOLEAN,                           \* target_thread_id is set
   input  : Claims,                            \* the claim the input message names
   turn   : Turns \cup {None},                 \* target_turn_id
   recheck : {"none", "waiting", "due"},       \* unknown_recheck_at
   error  : {"none", "busy", "refused", "denied", "inactive", "unknown", "reported"}]

NoTask == [status |-> "absent", before |-> None, next |-> "none",
           once |-> FALSE, mode |-> "source_thread"]
NoTrigger ==
  [task |-> None, mode |-> "source_thread", status |-> "absent", claim |-> 0,
   handed |-> 0, lease |-> NoLease, target |-> FALSE, input |-> 0, turn |-> None,
   recheck |-> "none", error |-> "none"]

Init ==
  /\ task = [t \in Tasks |-> NoTask]
  /\ trig = [g \in Triggers |-> NoTrigger]
  /\ session = [g \in Triggers |-> "none"]
  /\ final = [g \in Triggers |-> {}]
  /\ writing = [g \in Triggers |-> {}]
  /\ started = [g \in Triggers |-> {}]

-----------------------------------------------------------------------------
(* The user's operations on a task; each holds the row of the task.        *)

UnchangedRuns == UNCHANGED <<trig, session, final, writing, started>>

Create(t, once, mode) ==
  /\ task[t].status = "absent"
  /\ task' = [task EXCEPT ![t] =
       [status |-> "active", before |-> None, next |-> "future",
        once |-> once, mode |-> mode]]
  /\ UnchangedRuns

Edit(t, once, mode) ==
  /\ task[t].status \in {"active", "paused"}
  /\ task' = [task EXCEPT ![t].once = once, ![t].mode = mode,
       ![t].next = IF task[t].status = "paused" THEN "none" ELSE "future"]
  /\ UnchangedRuns

Pause(t) ==
  /\ task[t].status = "active"
  /\ task' = [task EXCEPT ![t].status = "paused", ![t].next = "none"]
  /\ UnchangedRuns

\* The instant of a task that runs once may have passed: it is exhausted then.
NextFor(t) == IF task[t].once THEN {"none", "future"} ELSE {"future"}
StatusFor(next) == IF next = "none" THEN "exhausted" ELSE "active"

Resume(t) ==
  /\ task[t].status = "paused"
  /\ \E next \in NextFor(t) :
       task' = [task EXCEPT ![t].status = StatusFor(next), ![t].next = next]
  /\ UnchangedRuns

Delete(t) ==
  /\ task[t].status \in {"active", "paused", "exhausted"}
  /\ task' = [task EXCEPT ![t].before = task[t].status, ![t].status = "deleted",
                          ![t].next = "none"]
  /\ UnchangedRuns

Restore(t) ==
  /\ task[t].status = "deleted"
  /\ \E next \in IF task[t].before = "active" THEN NextFor(t) ELSE {"none"} :
       task' = [task EXCEPT ![t].before = None, ![t].next = next,
         ![t].status = IF task[t].before = "active" THEN StatusFor(next)
                       ELSE task[t].before]
  /\ UnchangedRuns

-----------------------------------------------------------------------------
(* Inserting a trigger.  The rows are a parameter because a claim looks at *)
(* rows that its own transaction has changed.                              *)

OpenOf(rows, t) == {g \in Triggers : rows[g].task = t /\ rows[g].status \in OpenSet}

\* What openSourceThread finds, or the unique index on open source-thread runs:
\* an insertion that was overtaken ends as if the thread had been seen busy.
BusyMutant(rows, t) == FALSE                        \* only the task is looked at
Busy(rows, t) ==
  \E g \in Triggers : /\ rows[g].mode = "source_thread"
                      /\ rows[g].status \in OpenSet
                      /\ Source[rows[g].task] = Source[t]

SourceBusy(rows, t) == task[t].mode = "source_thread" /\ Busy(rows, t)

NewRow(t) == [NoTrigger EXCEPT !.task = t, !.mode = task[t].mode,
                !.target = (task[t].mode = "source_thread"), !.status = "claimed"]
FailedRow(t) == [NewRow(t) EXCEPT !.status = "failed", !.error = "busy"]

\* A claim_id is a fresh UUID; the lease starts anew.
HandOutMutant(r) == [r EXCEPT !.claim = r.handed + 1, !.handed = r.handed + 1,
                              !.lease = LeaseLength + 1]  \* a step too long
HandOut(r) == [r EXCEPT !.claim = r.handed + 1, !.handed = r.handed + 1,
                        !.lease = LeaseLength]

Fresh == {g \in Triggers : trig[g].status = "absent"}

\* "Run now".  A task with an open trigger answers with that one.
Run(t) ==
  /\ task[t].status \in {"active", "exhausted"}
  /\ OpenOf(trig, t) = {}
  /\ \E g \in Fresh :
       trig' = [trig EXCEPT ![g] = IF SourceBusy(trig, t) THEN FailedRow(t)
                                   ELSE NewRow(t)]
  /\ UNCHANGED <<task, session, final, writing, started>>

-----------------------------------------------------------------------------
(* What an abandoned or unknown trigger turns into.                        *)

\* Only a completed answer to the very turn that was bound is a proof.
Proved(r, answers) == r.target /\ r.turn # None /\ r.turn \in answers

\* A bound turn is the first point at which the model may have run.
MayHaveRunMutant(r) == r.status = "state_unknown"
MayHaveRun(r) == r.turn # None

\* A run that has ended, or whose holder still has time.
UntouchedMutant(r) == r.status \notin OpenSet \/ r.lease # 0
Untouched(r) ==
  r.status \notin OpenSet \/ (r.status # "state_unknown" /\ r.lease # 0)

Succeed(r) == [r EXCEPT !.status = "succeeded", !.lease = NoLease,
                        !.recheck = "none", !.error = "none"]
Unclaim(r) == [r EXCEPT !.status = "claimed", !.claim = 0, !.lease = NoLease,
                        !.recheck = "none", !.error = "none"]
Unsure(r)  == [r EXCEPT !.status = "state_unknown", !.lease = NoLease,
                        !.recheck = "waiting", !.error = "unknown"]

Reconciled(r, answers) ==
  CASE Untouched(r)                              -> r
    [] ~ Untouched(r) /\ Proved(r, answers)      -> Succeed(r)
    [] OTHER -> CASE ~ MayHaveRun(r)             -> Unclaim(r)
                  [] MayHaveRun(r) /\ r.status = "state_unknown" -> r
                  [] OTHER                       -> Unsure(r)

Reconcile(g) ==
  /\ trig' = [trig EXCEPT ![g] = Reconciled(trig[g], final[g])]
  /\ UNCHANGED <<task, session, final, writing, started>>

-----------------------------------------------------------------------------
(* Claiming.  A claim looks for work in four places, in this order; FOR    *)
(* UPDATE SKIP LOCKED may pass over any row another transaction has.       *)

\* 1. A trigger of unknown outcome is due for another look, which the caller
\*    takes with Reconcile.
ClaimUnknown(g) ==
  /\ trig[g].status = "state_unknown" /\ trig[g].recheck # "waiting"
  /\ trig' = [trig EXCEPT ![g].recheck = "waiting"]
  /\ UNCHANGED <<task, session, final, writing, started>>

\* 2. A trigger whose lease has run out is reconciled on the way.
Lapsed(r) == r.status \in {"claimed", "queued", "running"} /\ r.lease = 0

AfterLapsed(e) ==
  IF e = None THEN trig ELSE [trig EXCEPT ![e] = Reconciled(trig[e], final[e])]

\* 3. A trigger that nobody holds is handed out, unless its task has been
\*    paused or deleted meanwhile.
Unheld(r) == r.status = "claimed" /\ r.claim = 0
Inactive(r) == task[r.task].status \in {"paused", "deleted"}
Skipped(r) == [r EXCEPT !.status = "skipped", !.error = "inactive",
                        !.lease = NoLease, !.recheck = "none"]

ClaimUnheld(e, u) ==
  LET rows == AfterLapsed(e) IN
  /\ Unheld(rows[u]) /\ ~ Inactive(rows[u])
  /\ rows[u].handed < MaxClaims
  /\ trig' = [rows EXCEPT ![u] = HandOut(rows[u])]
  /\ UNCHANGED <<task, session, final, writing, started>>

AfterUnheld(e, u) ==
  LET rows == AfterLapsed(e)
  IN  IF u = None THEN rows ELSE [rows EXCEPT ![u] = Skipped(rows[u])]
CanSkip(e, u) ==
  u # None => Unheld(AfterLapsed(e)[u]) /\ Inactive(AfterLapsed(e)[u])

\* 4. A task is due.  Its next instant is planned whether or not it runs now.
Advanced(t) ==
  IF task[t].once
  THEN [task EXCEPT ![t].next = "none", ![t].status = "exhausted"]
  ELSE [task EXCEPT ![t].next = "future"]

ClaimDue(e, u, t) ==
  LET rows == AfterUnheld(e, u) IN
  /\ CanSkip(e, u)
  /\ task[t].status = "active" /\ task[t].next = "due"
  /\ IF OpenOf(rows, t) # {}
       THEN trig' = rows                     \* the instant is skipped
       ELSE \E g \in Fresh :
              trig' = [rows EXCEPT ![g] = IF SourceBusy(rows, t) THEN FailedRow(t)
                                          ELSE HandOut(NewRow(t))]
  /\ task' = Advanced(t)
  /\ UNCHANGED <<session, final, writing, started>>

ClaimNothing(e, u) ==
  /\ CanSkip(e, u)
  /\ trig' = AfterUnheld(e, u)
  /\ UNCHANGED <<task, session, final, writing, started>>

Lapsing == {g \in Triggers : Lapsed(trig[g])} \cup {None}

Claim ==
  \/ \E g \in Triggers : ClaimUnknown(g)
  \/ \E e \in Lapsing : \/ \E u \in Triggers : ClaimUnheld(e, u)
                        \/ \E u \in Triggers \cup {None} :
                             \/ ClaimNothing(e, u)
                             \/ \E t \in Tasks : ClaimDue(e, u, t)

-----------------------------------------------------------------------------
(* The calls of a worker that was given claim c.                           *)

HoldsMutant(r, c) == c <= r.handed /\ c > 0        \* any claim ever given
Holds(r, c) == c > 0 /\ r.claim = c

Live(r) == r.lease > 0

Fail(r, why) == [r EXCEPT !.status = "failed", !.error = why, !.lease = NoLease]

\* The account is not active, or the thread, Deck or editor is refused.
PrepareRefused(g, c) ==
  /\ Holds(trig[g], c) /\ trig[g].status \in {"claimed", "queued"} /\ Live(trig[g])
  /\ trig' = [trig EXCEPT ![g] = Fail(trig[g], "refused")]
  /\ UNCHANGED <<task, session, final, writing, started>>

\* The input message goes into the source thread.  Its metadata names the
\* claim: persistMessage takes an existing message with another one for a
\* conflict of identity.
PrepareSource(g, c) ==
  LET r == trig[g] IN
  /\ Holds(r, c) /\ r.status \in {"claimed", "queued"} /\ Live(r)
  /\ r.mode = "source_thread"
  /\ trig' = [trig EXCEPT ![g] =
       IF r.input \in {0, c} THEN [r EXCEPT !.status = "queued", !.input = c]
                             ELSE Fail(r, "denied")]
  /\ UNCHANGED <<task, session, final, writing, started>>

\* createTaskSession: the trigger is the request key, so that the session, its
\* thread and its input message are made once.
PrepareNew(g, c) ==
  LET r == trig[g] IN
  /\ Holds(r, c) /\ r.status \in {"claimed", "queued"} /\ Live(r)
  /\ r.mode = "new_thread_each_run"
  /\ trig' = [trig EXCEPT ![g].status = "queued", ![g].target = TRUE,
                          ![g].input = IF session[g] = "none" THEN c ELSE r.input]
  /\ session' = [session EXCEPT ![g] = IF @ = "none" THEN "pending" ELSE @]
  /\ UNCHANGED <<task, final, writing, started>>

\* resolveScheduledChatClaim: the claim gives authority over the target thread.
Authorized(r, c) ==
  Holds(r, c) /\ r.status \in {"queued", "running"} /\ r.target /\ Live(r)

Renew(g, c) ==
  /\ Authorized(trig[g], c)
  /\ trig' = [trig EXCEPT ![g].lease = LeaseLength]
  /\ UNCHANGED <<task, session, final, writing, started>>

BindableMutant(r, x) == TRUE                      \* the last one wins
Bindable(r, x) == r.turn \in {None, x}

\* The worker binds turn x; it calls the model once this has been granted.
Start(g, c, x) ==
  LET r == trig[g] IN
  /\ Authorized(r, c)
  /\ Bindable(r, x)
  /\ r.status = "queued" /\ r.mode = "new_thread_each_run" => session[g] = "pending"
  /\ trig' = [trig EXCEPT ![g].status = "running", ![g].turn = x]
  /\ session' = [session EXCEPT ![g] = IF @ = "pending" THEN "starting" ELSE @]
  /\ started' = [started EXCEPT ![g] = @ \cup {<<c, x>>}]
  /\ UNCHANGED <<task, final, writing>>

FinishSucceeded(g, c) ==
  LET r == trig[g] IN
  /\ Holds(r, c) /\ r.status \in {"running", "state_unknown"}
  /\ Proved(r, final[g])
  /\ trig' = [trig EXCEPT ![g] = Succeed(r)]
  /\ UNCHANGED <<task, session, final, writing, started>>

\* A TaskSession that exists has to be launched before it can fail.
SessionCanFail(g) ==
  \/ session[g] = "none"
  \/ trig[g].status = "queued" /\ session[g] = "pending"
  \/ trig[g].status # "queued" /\ session[g] \in {"starting", "failed"}

FinishFailedMutant(g, c) ==                       \* the TaskSession is forgotten
  /\ Holds(trig[g], c) /\ trig[g].status \in OpenSet
  /\ SessionCanFail(g)
  /\ trig' = [trig EXCEPT ![g] = [Fail(trig[g], "reported") EXCEPT !.recheck = "none"]]
  /\ UNCHANGED <<task, session, final, writing, started>>

FinishFailed(g, c) ==
  /\ Holds(trig[g], c) /\ trig[g].status \in OpenSet
  /\ SessionCanFail(g)
  /\ session' = [session EXCEPT ![g] = IF @ = "none" THEN @ ELSE "failed"]
  /\ trig' = [trig EXCEPT ![g] = [Fail(trig[g], "reported") EXCEPT !.recheck = "none"]]
  /\ UNCHANGED <<task, final, writing, started>>

FinishUnknown(g, c) ==
  LET r == trig[g] IN
  /\ Holds(r, c) /\ r.status \in OpenSet \ {"claimed"} /\ r.turn # None
  /\ trig' = [trig EXCEPT ![g] = Unsure(r)]
  /\ UNCHANGED <<task, session, final, writing, started>>

-----------------------------------------------------------------------------
(* The target thread.                                                      *)

\* The worker stores the answer of its turn.  The claim is checked without a
\* lock; the message is there when the transaction commits.
StoreAnswer(g, c, x) ==
  /\ <<c, x>> \in started[g] /\ Authorized(trig[g], c)
  /\ writing' = [writing EXCEPT ![g] = @ \cup {x}]
  /\ UNCHANGED <<task, trig, session, final, started>>

AnswerStored(g, x) ==
  /\ x \in writing[g]
  /\ writing' = [writing EXCEPT ![g] = @ \ {x}]
  /\ \/ final' = [final EXCEPT ![g] = @ \cup {x}]
     \/ UNCHANGED final                               \* rolled back
  /\ UNCHANGED <<task, trig, session, started>>

\* The thread has answers of other turns: the user chats in it, too.
Foreign == "foreign"
OtherAnswer(g) ==
  /\ trig[g].target
  /\ final' = [final EXCEPT ![g] = @ \cup {Foreign}]
  /\ UNCHANGED <<task, trig, session, writing, started>>

\* The user deletes the thread a run was given; the trigger stays.
DeleteTarget(g) ==
  /\ session[g] # "none"
  /\ trig' = [trig EXCEPT ![g].target = FALSE, ![g].input = 0]
  /\ session' = [session EXCEPT ![g] = "none"]
  /\ final' = [final EXCEPT ![g] = {}]
  /\ writing' = [writing EXCEPT ![g] = {}]
  /\ UNCHANGED <<task, started>>

-----------------------------------------------------------------------------
(* Time.                                                                   *)

TaskComesDue(t) ==
  /\ task[t].next = "future"
  /\ task' = [task EXCEPT ![t].next = "due"]
  /\ UnchangedRuns

LeaseTick(g) ==
  /\ trig[g].lease > 0
  /\ trig' = [trig EXCEPT ![g].lease = @ - 1]
  /\ UNCHANGED <<task, session, final, writing, started>>

RecheckComesDue(g) ==
  /\ trig[g].recheck = "waiting"
  /\ trig' = [trig EXCEPT ![g].recheck = "due"]
  /\ UNCHANGED <<task, session, final, writing, started>>

-----------------------------------------------------------------------------

UserStep == \E t \in Tasks :
  \/ \E once \in Onces, mode \in Choices : Create(t, once, mode) \/ Edit(t, once, mode)
  \/ Pause(t) \/ Resume(t) \/ Delete(t) \/ Restore(t) \/ Run(t)

WorkerStep(g) ==
  \/ Reconcile(g)
  \/ \E c \in 1 .. MaxClaims :
       \/ PrepareRefused(g, c) \/ PrepareSource(g, c) \/ PrepareNew(g, c)
       \/ Renew(g, c)
       \/ FinishSucceeded(g, c) \/ FinishFailed(g, c) \/ FinishUnknown(g, c)
       \/ \E x \in Turns : Start(g, c, x) \/ StoreAnswer(g, c, x)
  \/ \E x \in Turns : AnswerStored(g, x)

Next ==
  \/ UserStep
  \/ Claim
  \/ \E g \in Triggers : \/ WorkerStep(g) \/ OtherAnswer(g) \/ DeleteTarget(g)
                         \/ LeaseTick(g) \/ RecheckComesDue(g)
  \/ \E t \in Tasks : TaskComesDue(t)

Spec == Init /\ [][Next]_vars

(***************************************************************************)
(* Fairness.  A Dream worker polls for work; leases run out and rechecks   *)
(* come due with the clock; an open transaction ends.  Nothing is assumed  *)
(* of the workers that hold claims.  The fairness of the later stages of a *)
(* claim is an assumption about the polling: a claim that finds a due      *)
(* unknown trigger goes no further, so it has to be called more often than *)
(* unknown triggers come due for their recheck.                            *)
(***************************************************************************)
ClaimLapsed(e) == \/ \E u \in Triggers : ClaimUnheld(e, u)
                  \/ \E u \in Triggers \cup {None} :
                       \/ ClaimNothing(e, u)
                       \/ \E t \in Tasks : ClaimDue(e, u, t)

\* Lapsed and unheld triggers are looked for by age: every one gets its turn.
TakeUp(u)    == \/ ClaimUnheld(None, u)
                \/ ClaimNothing(None, u)
                \/ \E t \in Tasks : ClaimDue(None, u, t)

\* The caller of a claim that names an unknown trigger reconciles it.
Recheck(g) == trig[g].status = "state_unknown" /\ Reconcile(g)

Fairness ==
  \A g \in Triggers :
    /\ WF_vars(Lapsed(trig[g]) /\ ClaimLapsed(g))
    /\ SF_vars(TakeUp(g))
    /\ WF_vars(Recheck(g))

-----------------------------------------------------------------------------
(* Properties.                                                             *)

TypeOK ==
  /\ task \in [Tasks -> Task]
  /\ trig \in [Triggers -> Trigger]
  /\ session \in [Triggers -> {"none", "pending", "starting", "failed"}]
  /\ final \in [Triggers -> SUBSET (Turns \cup {Foreign})]
  /\ writing \in [Triggers -> SUBSET Turns]
  /\ started \in [Triggers -> SUBSET (Claims \X Turns)]

\* A trigger runs the model for one turn of one holder: neither a lapsed lease,
\* nor a lost answer, nor a takeover ever makes a second start succeed.
StartedOnce == \A g \in Triggers : Cardinality(started[g]) <= 1

\* Only the last claim handed out may start a run; a holder that has been
\* replaced cannot, however late its call arrives.
StartIsFenced ==
  \A g \in Triggers : \A p \in started'[g] \ started[g] :
    p[1] = trig[g].handed /\ trig[g].lease > 0

\* Two runs never share a source thread at a time, whichever tasks they are of,
\* and a task never has two open runs, unknown outcomes included.
OneRunPerThread ==
  \A g, h \in Triggers :
    /\ g # h
    /\ trig[g].status \in OpenSet /\ trig[h].status \in OpenSet
    => /\ trig[g].task # trig[h].task
       /\ \/ "new_thread_each_run" \in {trig[g].mode, trig[h].mode}
          \/ Source[trig[g].task] # Source[trig[h].task]

\* The launch status of a TaskSession follows its trigger: what is queued can be
\* launched, what has a turn has been, what was reported failed is.
SessionFollows ==
  \A g \in Triggers :
    /\ trig[g].status = "queued" => session[g] \in {"none", "pending"}
    /\ trig[g].status = "queued" /\ trig[g].target
         => (session[g] = "none") = (trig[g].mode = "source_thread")
    /\ trig[g].turn # None => session[g] \in {"none", "starting", "failed"}
    /\ trig[g].error = "reported" => session[g] \in {"none", "failed"}
    /\ session[g] = "failed" => trig[g].error = "reported"

\* Success is never inferred: the target thread has the completed answer of the
\* very turn that was started.
SuccessIsProved ==
  \A g \in Triggers :
    trig[g].status = "succeeded" /\ trig[g].target
      => \E p \in started[g] : p[2] = trig[g].turn /\ p[2] \in final[g]

\* What is known of a run in its three places agrees: the row of the trigger, the
\* session of its target thread, and the turns the model was started for, of which
\* at most one was started and only a stored answer of that one proves success.
RunIsOneThing ==
  /\ TypeOK
  /\ StartedOnce
  /\ SessionFollows
  /\ SuccessIsProved

\* What has ended stays as it is, and a bound turn is never exchanged or
\* given up, also when the outcome is unknown.
EndedIsFinal ==
  \A g \in Triggers :
    /\ trig[g].status \in Ended
         => /\ trig'[g].status = trig[g].status /\ trig'[g].turn = trig[g].turn
            /\ trig'[g].error = trig[g].error
    /\ trig[g].turn # None
         => /\ trig'[g].turn = trig[g].turn /\ trig'[g].claim = trig[g].claim
            /\ trig'[g].status \notin {"claimed", "queued"}

\* A paused or deleted task gets no run and none of its waiting runs is handed
\* out: what was not yet claimed, or lost its holder, waits or is skipped.
InactiveIsNotHandedOut ==
  \A g \in Triggers :
    trig'[g].handed # trig[g].handed
      => task[trig'[g].task].status \in {"active", "exhausted"}

\* A takeover is safe for everybody: the old holder starts nothing any more, what
\* it had bound or ended stays, and nobody gets a run the user has stopped.
TakeoversAreSafe == [][StartIsFenced /\ EndedIsFinal /\ InactiveIsNotHandedOut]_vars

\* "Before start, the same TaskSession and input can be prepared again under a
\* new claim": a run that was prepared before is not denied for that.
PreparedCanBePreparedAgain ==
  \A g \in Triggers : trig[g].error = "denied" => trig[g].input = 0

\* A run whose holder has gone is taken up again, and what nobody holds is handed
\* out or skipped in the end, if it may not have reached the model.
AbandonedIsTakenUp ==
  \A g \in Triggers :
    /\ Lapsed(trig[g]) ~> ~ Lapsed(trig[g])
    /\ Unheld(trig[g]) ~> (~ Unheld(trig[g]) \/ trig[g].handed = MaxClaims)

\* An answer that is in the target thread is found in the end, also when it was
\* stored after the outcome had become unknown, unless the user deletes it.
AnswerIsFound ==
  \A g \in Triggers :
    (trig[g].status = "state_unknown" /\ Proved(trig[g], final[g]))
      ~> (trig[g].status \in Ended \/ ~ trig[g].target)

\* No run is left between its start and its end for good: not by a holder that is gone,
\* and not by an answer that came late.
RunsAreResolved == AbandonedIsTakenUp /\ AnswerIsFound
=============================================================================
