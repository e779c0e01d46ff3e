------------------------- MODULE ScheduledWorkProofs -------------------------
(***************************************************************************)
(* What workers of Dream do by the clock: the runs of scheduled Chat tasks *)
(* first, the runs of a Notion connector after them.  The two share no row *)
(* and each has an invariant of its own.                                   *)
(*                                                                         *)
(* The row of a trigger, the session of its thread, its answers and its    *)
(* starts are one thing to Row.  Every step either keeps what a row may    *)
(* never take back (Keeps) or is the one that starts a run (Starts), also  *)
(* when a claim changes three rows in one transaction (Kept); that no two  *)
(* open runs meet follows for all steps at once (StepHolds).               *)
(*                                                                         *)
(* What a connector shows of its runs and its snapshot is so, and a call   *)
(* of a run that changes anything still belongs to it, for any sources,    *)
(* workers, leases and bounds.  Neither is inductive alone.  What is       *)
(* missing is why a match under the lock is enough: the keys of the        *)
(* present epoch have seen the present selection and authorization for as  *)
(* long as its run goes on, and while an operation has the lock nothing    *)
(* but time touches what it has read.                                      *)
(***************************************************************************)
EXTENDS ScheduledTriggers, NotionSync, FiniteSetTheorems, TLAPS


SessionStatus == {"none", "pending", "starting", "failed"}

\* What the row of a trigger says agrees with its session, its answers and its starts.
Row(r, s, answers, starts) ==
  /\ r \in Trigger /\ s \in SessionStatus
  /\ r.claim \in {0, r.handed}
  /\ r.turn = None => starts = {}
  /\ r.turn # None => r.claim > 0 /\ starts = {<<r.claim, r.turn>>}
  /\ r.status \in {"claimed", "queued"} => r.turn = None
  /\ r.status \in {"running", "state_unknown", "succeeded"} => r.turn # None
  /\ r.status = "absent" => r = NoTrigger /\ s = "none"
  /\ r.status # "absent" => r.task \in Tasks
  /\ r.status # "absent" /\ r.mode = "source_thread" => s = "none" /\ r.target
  /\ r.mode = "new_thread_each_run" => (r.target <=> s # "none")
  /\ s = "pending" => r.turn = None
  /\ s = "starting" => r.turn # None
  /\ s = "failed" => r.error = "reported"
  /\ r.error = "reported" => r.status = "failed" /\ s \in {"none", "failed"}
  /\ r.status = "succeeded" /\ r.target => r.turn \in answers

\* What no step takes back: what a run belongs to, its end, and its turn.
Keeps(r, q) ==
  /\ q.task = r.task /\ q.mode = r.mode
  /\ q.status = "absent" <=> r.status = "absent"
  /\ q.status \in OpenSet => r.status \in OpenSet
  /\ r.status \in Ended => q.status = r.status /\ q.turn = r.turn /\ q.error = r.error
  /\ r.turn # None => /\ q.turn = r.turn /\ q.claim = r.claim
                      /\ q.status \notin {"claimed", "queued"}

-----------------------------------------------------------------------------
(* Rows by themselves.                                                     *)

LEMMA KeepsIsTransitive ==
  ASSUME NEW r, NEW q, NEW p, Keeps(r, q), Keeps(q, p)
  PROVE  Keeps(r, p)
  BY DEF Keeps

LEMMA RowKeepsItself ==
  ASSUME NEW r, NEW s, NEW answers, NEW starts, Row(r, s, answers, starts)
  PROVE  Keeps(r, r)
  BY DEF Keeps, Row

LEMMA LeaseBounds ==
  /\ NoLease \in NoLease .. LeaseLength /\ LeaseLength \in NoLease .. LeaseLength
  /\ \A l \in NoLease .. LeaseLength : l > 0 => l - 1 \in NoLease .. LeaseLength
  BY TriggersAssumption DEF NoLease

\* What of a row most writes leave alone, whatever they say of its status and lease.
Stays(r, q) ==
  /\ q \in Trigger
  /\ q.task = r.task /\ q.mode = r.mode /\ q.target = r.target /\ q.turn = r.turn
  /\ q.handed = r.handed

LEMMA WrittenRows ==
  ASSUME NEW r \in Trigger
  PROVE  /\ /\ Stays(r, Succeed(r)) /\ Succeed(r).status = "succeeded"
            /\ Succeed(r).error = "none" /\ Succeed(r).claim = r.claim
         /\ /\ Stays(r, Unclaim(r)) /\ Unclaim(r).status = "claimed"
            /\ Unclaim(r).error = "none" /\ Unclaim(r).claim = 0
         /\ /\ Stays(r, Unsure(r)) /\ Unsure(r).status = "state_unknown"
            /\ Unsure(r).error = "unknown" /\ Unsure(r).claim = r.claim
         /\ /\ Stays(r, Skipped(r)) /\ Skipped(r).status = "skipped"
            /\ Skipped(r).error = "inactive" /\ Skipped(r).claim = r.claim
<1>1. 0 \in Claims
  BY TriggersAssumption DEF Claims
<1> QED
  BY <1>1, LeaseBounds DEF Stays, Trigger, OpenSet, Ended, Succeed, Unclaim, Unsure, Skipped

LEMMA FailedRows ==
  ASSUME NEW r \in Trigger, NEW why \in {"refused", "denied", "reported"}
  PROVE  /\ Stays(r, Fail(r, why)) /\ Fail(r, why).status = "failed"
         /\ Fail(r, why).error = why /\ Fail(r, why).claim = r.claim
  BY LeaseBounds DEF Stays, Trigger, OpenSet, Ended, Fail

LEMMA HandedRow ==
  ASSUME NEW r \in Trigger, r.handed < MaxClaims
  PROVE  LET q == HandOut(r)
         IN  /\ q \in Trigger
             /\ q.task = r.task /\ q.mode = r.mode /\ q.target = r.target /\ q.turn = r.turn
             /\ q.status = r.status /\ q.error = r.error
             /\ q.claim = r.handed + 1 /\ q.handed = r.handed + 1
<1>1. r.handed + 1 \in Claims
  BY TriggersAssumption DEF Claims, Trigger
<1> QED
  BY <1>1, LeaseBounds DEF Trigger, HandOut

\* The rows of a claim: reconciled, handed out, skipped.
LEMMA ReconciledRow ==
  ASSUME NEW r, NEW s, NEW answers, NEW starts, Row(r, s, answers, starts)
  PROVE  LET q == Reconciled(r, answers)
         IN  Row(q, s, answers, starts) /\ Keeps(r, q) /\ q.handed = r.handed
<1> DEFINE q == Reconciled(r, answers)
<1>0. r \in Trigger
  BY DEF Row
<1>1. CASE Untouched(r)
  <2>1. q = r
    BY <1>1 DEF Reconciled
  <2> QED
    BY <2>1, RowKeepsItself
<1>2. CASE ~ Untouched(r) /\ Proved(r, answers)
  <2>1. q = Succeed(r)
    BY <1>2 DEF Reconciled
  <2> QED
    BY <1>0, <1>2, <2>1, WrittenRows DEF Row, Keeps, Stays, OpenSet, Ended, Untouched, Proved
<1>3. CASE ~ Untouched(r) /\ ~ Proved(r, answers) /\ ~ MayHaveRun(r)
  <2>1. q = Unclaim(r)
    BY <1>3 DEF Reconciled
  <2> QED
    BY <1>0, <1>3, <2>1, WrittenRows DEF Row, Keeps, Stays, OpenSet, Ended, Untouched, MayHaveRun
<1>4. CASE ~ Untouched(r) /\ ~ Proved(r, answers) /\ MayHaveRun(r)
  <2>1. q = IF r.status = "state_unknown" THEN r ELSE Unsure(r)
    BY <1>4 DEF Reconciled
  <2>2. CASE r.status = "state_unknown"
    BY <2>1, <2>2, RowKeepsItself
  <2>3. CASE r.status # "state_unknown"
    BY <1>0, <1>4, <2>1, <2>3, WrittenRows
    DEF Row, Keeps, Stays, OpenSet, Ended, Untouched, MayHaveRun
  <2> QED
    BY <2>2, <2>3
<1> QED
  BY <1>1, <1>2, <1>3, <1>4

LEMMA HandedOutRow ==
  ASSUME NEW r, NEW s, NEW answers, NEW starts, Row(r, s, answers, starts),
         Unheld(r), r.handed < MaxClaims
  PROVE  Row(HandOut(r), s, answers, starts) /\ Keeps(r, HandOut(r))
<1>1. r \in Trigger
  BY DEF Row
<1> QED
  BY <1>1, HandedRow DEF Row, Keeps, Unheld, OpenSet, Ended

LEMMA SkippedRow ==
  ASSUME NEW r, NEW s, NEW answers, NEW starts, Row(r, s, answers, starts), Unheld(r)
  PROVE  /\ Row(Skipped(r), s, answers, starts) /\ Keeps(r, Skipped(r))
         /\ Skipped(r).handed = r.handed
<1>1. r \in Trigger
  BY DEF Row
<1> QED
  BY <1>1, WrittenRows DEF Row, Keeps, Stays, Unheld, OpenSet, Ended

-----------------------------------------------------------------------------
(* The state.                                                              *)

TasksInv ==
  /\ task \in [Tasks -> Task]
  /\ \A t \in Tasks : /\ task[t].status = "absent" => task[t].next = "none"
                      /\ task[t].status = "deleted" => task[t].before \in {"active", "paused", "exhausted"}

RowsInv ==
  /\ trig \in [Triggers -> Trigger]
  /\ session \in [Triggers -> SessionStatus]
  /\ final \in [Triggers -> SUBSET (Turns \cup {Foreign})]
  /\ writing \in [Triggers -> SUBSET Turns]
  /\ started \in [Triggers -> SUBSET (Claims \X Turns)]
  /\ \A g \in Triggers : /\ Row(trig[g], session[g], final[g], started[g])
                         /\ trig[g].status # "absent" => task[trig[g].task].status # "absent"

TInv == TasksInv /\ RowsInv /\ OneRunPerThread

TStep == TInv' /\ StartIsFenced /\ EndedIsFinal /\ InactiveIsNotHandedOut

\* The invariant contains what is to be shown.
LEMMA TInvSuffices == TInv => RunIsOneThing /\ OneRunPerThread
<1> SUFFICES ASSUME TInv PROVE RunIsOneThing
  BY DEF TInv
<1>1. ASSUME NEW g \in Triggers PROVE Row(trig[g], session[g], final[g], started[g])
  BY DEF TInv, RowsInv
<1>3. TypeOK
  BY DEF TInv, TasksInv, RowsInv, TypeOK, SessionStatus
<1>4. ASSUME NEW g \in Triggers PROVE Cardinality(started[g]) <= 1
  <2>1. CASE started[g] = {}
    BY <2>1, FS_EmptySet
  <2>2. CASE started[g] = {<<trig[g].claim, trig[g].turn>>}
    <3>1. Cardinality({<<trig[g].claim, trig[g].turn>>}) = 1
      BY FS_Singleton
    <3> QED
      BY <2>2, <3>1
  <2>3. trig[g].turn = None \/ trig[g].turn # None
    OBVIOUS
  <2>4. started[g] = {} \/ started[g] = {<<trig[g].claim, trig[g].turn>>}
    BY <1>1, <2>3, Zenon DEF Row
  <2> QED
    BY <2>1, <2>2, <2>4
<1>5. SessionFollows
  BY <1>1 DEF SessionFollows, Row, SessionStatus, Trigger, Modes
<1>6. SuccessIsProved
  <2> SUFFICES ASSUME NEW g \in Triggers, trig[g].status = "succeeded", trig[g].target
               PROVE  \E p \in started[g] : p[2] = trig[g].turn /\ p[2] \in final[g]
    BY DEF SuccessIsProved
  <2>1. started[g] = {<<trig[g].claim, trig[g].turn>>} /\ trig[g].turn \in final[g]
    BY <1>1 DEF Row
  <2> QED
    BY <2>1
<1> QED
  BY <1>3, <1>4, <1>5, <1>6 DEF RunIsOneThing, StartedOnce

\* A row that is not there yet.
LEMMA NoRow ==
  NoTrigger \in Trigger
<1>1. 0 \in Claims
  BY TriggersAssumption DEF Claims
<1> QED
  BY <1>1, LeaseBounds DEF NoTrigger, Trigger, Modes

LEMMA TInitSound == Init => TInv
<1> SUFFICES ASSUME Init PROVE TInv
  OBVIOUS
<1> USE DEF Init
<1>1. TasksInv
  BY DEF TasksInv, Task, NoTask, Modes
<1>2. Row(NoTrigger, "none", {}, {})
  BY NoRow DEF Row, NoTrigger, SessionStatus
<1>3. RowsInv
  BY <1>2, NoRow DEF RowsInv, SessionStatus, NoTrigger
<1>4. OneRunPerThread
  BY DEF OneRunPerThread, NoTrigger, OpenSet
<1> QED
  BY <1>1, <1>3, <1>4 DEF TInv

\* A run comes from a task that is active, and meets no open one of its task or thread.
Starts(g) ==
  /\ trig[g].status = "absent" /\ started'[g] = {}
  /\ task[trig'[g].task].status \in {"active", "exhausted"}
  /\ trig'[g].status \in OpenSet =>
       \A h \in Triggers \ {g} :
         trig'[h].status \in OpenSet =>
           /\ trig'[g].task # trig'[h].task
           /\ \/ "new_thread_each_run" \in {trig'[g].mode, trig'[h].mode}
              \/ Source[trig'[g].task] # Source[trig'[h].task]

\* All steps: tasks stay there, rows stay sound, each one keeps what it has or is the one
\* that starts.
LEMMA StepHolds ==
  ASSUME TInv, TasksInv',
         \A t \in Tasks : task'[t].status = "absent" => task[t].status = "absent",
         trig' \in [Triggers -> Trigger],
         session' \in [Triggers -> SessionStatus],
         final' \in [Triggers -> SUBSET (Turns \cup {Foreign})],
         writing' \in [Triggers -> SUBSET Turns],
         started' \in [Triggers -> SUBSET (Claims \X Turns)],
         \A g \in Triggers : Row(trig'[g], session'[g], final'[g], started'[g]),
         \A g \in Triggers : Keeps(trig[g], trig'[g]) \/ Starts(g),
         StartIsFenced, InactiveIsNotHandedOut
  PROVE  TStep
<1>1. ASSUME NEW g \in Triggers PROVE trig'[g].status # "absent" => task'[trig'[g].task].status # "absent"
  <2>1. Row(trig[g], session[g], final[g], started[g]) /\ Row(trig'[g], session'[g], final'[g], started'[g])
        /\ (trig[g].status # "absent" => task[trig[g].task].status # "absent")
    BY DEF TInv, RowsInv
  <2>2. CASE Keeps(trig[g], trig'[g])
    BY <2>1, <2>2 DEF Keeps, Row
  <2>3. CASE Starts(g)
    BY <2>1, <2>3 DEF Starts, Row
  <2> QED
    BY <2>2, <2>3
<1>2. RowsInv'
  BY <1>1 DEF RowsInv
<1>3. OneRunPerThread'
  <2> SUFFICES ASSUME NEW g \in Triggers, NEW h \in Triggers, g # h,
                      trig'[g].status \in OpenSet, trig'[h].status \in OpenSet
               PROVE  /\ trig'[g].task # trig'[h].task
                      /\ \/ "new_thread_each_run" \in {trig'[g].mode, trig'[h].mode}
                         \/ Source[trig'[g].task] # Source[trig'[h].task]
    BY DEF OneRunPerThread
  <2>1. CASE Keeps(trig[g], trig'[g]) /\ Keeps(trig[h], trig'[h])
    BY <2>1 DEF Keeps, TInv, OneRunPerThread
  <2>2. CASE Starts(g)
    BY <2>2 DEF Starts
  <2>3. CASE Starts(h)
    <3>1. trig'[h].task # trig'[g].task
          /\ \/ "new_thread_each_run" \in {trig'[h].mode, trig'[g].mode}
             \/ Source[trig'[h].task] # Source[trig'[g].task]
      BY <2>3 DEF Starts
    <3> QED
      BY <3>1
  <2> QED
    BY <2>1, <2>2, <2>3
<1>4. ASSUME NEW g \in Triggers
      PROVE  /\ trig[g].status \in Ended
                  => /\ trig'[g].status = trig[g].status /\ trig'[g].turn = trig[g].turn
                     /\ trig'[g].error = trig[g].error
             /\ trig[g].turn # None
                  => /\ trig'[g].turn = trig[g].turn /\ trig'[g].claim = trig[g].claim
                     /\ trig'[g].status \notin {"claimed", "queued"}
  <2>1. Row(trig[g], session[g], final[g], started[g])
    BY DEF TInv, RowsInv
  <2>2. CASE Keeps(trig[g], trig'[g])
    BY <2>2 DEF Keeps
  <2>3. CASE Starts(g)
    BY <2>1, <2>3 DEF Starts, Row, Ended, NoTrigger
  <2> QED
    BY <2>2, <2>3
<1> QED
  BY <1>2, <1>3, <1>4 DEF TStep, TInv, EndedIsFinal

\* A step of one run that is not started by it.
LEMMA OneRow ==
  ASSUME TInv, UNCHANGED task, NEW g \in Triggers, NEW q, NEW s, NEW answers, NEW starts,
         trig' = [trig EXCEPT ![g] = q], session' = [session EXCEPT ![g] = s],
         final' = [final EXCEPT ![g] = answers], started' = [started EXCEPT ![g] = starts],
         writing' \in [Triggers -> SUBSET Turns], answers \in SUBSET (Turns \cup {Foreign}),
         Row(q, s, answers, starts), Keeps(trig[g], q), q.handed = trig[g].handed,
         \A p \in starts \ started[g] : p[1] = trig[g].handed /\ trig[g].lease > 0
  PROVE  TStep
<1>1. /\ trig \in [Triggers -> Trigger] /\ session \in [Triggers -> SessionStatus]
      /\ final \in [Triggers -> SUBSET (Turns \cup {Foreign})]
      /\ started \in [Triggers -> SUBSET (Claims \X Turns)]
      /\ \A h \in Triggers : Row(trig[h], session[h], final[h], started[h])
      /\ TasksInv
  BY DEF TInv, RowsInv
<1>2. q \in Trigger /\ s \in SessionStatus /\ starts \in SUBSET (Claims \X Turns)
  <2>1. q \in Trigger /\ s \in SessionStatus
    BY DEF Row
  <2>2. q.turn # None => q.claim \in Claims /\ q.turn \in Turns
    BY <2>1 DEF Trigger
  <2>3. starts = {} \/ (q.turn # None /\ starts = {<<q.claim, q.turn>>})
    BY Zenon DEF Row
  <2> QED
    BY <2>1, <2>2, <2>3
<1>3. /\ trig' \in [Triggers -> Trigger] /\ session' \in [Triggers -> SessionStatus]
      /\ final' \in [Triggers -> SUBSET (Turns \cup {Foreign})]
      /\ started' \in [Triggers -> SUBSET (Claims \X Turns)]
  BY <1>1, <1>2
<1>4. \A h \in Triggers : /\ trig'[h] = IF h = g THEN q ELSE trig[h]
                          /\ session'[h] = IF h = g THEN s ELSE session[h]
                          /\ final'[h] = IF h = g THEN answers ELSE final[h]
                          /\ started'[h] = IF h = g THEN starts ELSE started[h]
  BY <1>1
<1>5. \A h \in Triggers : Row(trig'[h], session'[h], final'[h], started'[h])
  BY <1>1, <1>4
<1>6. \A h \in Triggers : Keeps(trig[h], trig'[h])
  BY <1>1, <1>4, RowKeepsItself
<1>7. StartIsFenced /\ InactiveIsNotHandedOut
  BY <1>4 DEF StartIsFenced, InactiveIsNotHandedOut
<1>8. TasksInv'
  BY <1>1 DEF TasksInv
<1> QED
  BY <1>3, <1>5, <1>6, <1>7, <1>8, StepHolds

\* What is known of one run before a step.
LEMMA RowKnown ==
  ASSUME TInv, NEW g \in Triggers
  PROVE  /\ Row(trig[g], session[g], final[g], started[g]) /\ trig[g] \in Trigger
         /\ session = [session EXCEPT ![g] = session[g]]
         /\ final = [final EXCEPT ![g] = final[g]]
         /\ started = [started EXCEPT ![g] = started[g]]
         /\ trig = [trig EXCEPT ![g] = trig[g]]
         /\ final[g] \in SUBSET (Turns \cup {Foreign})
         /\ writing \in [Triggers -> SUBSET Turns]
  BY DEF TInv, RowsInv

\* The same when only the row changes.
LEMMA OnlyRow ==
  ASSUME TInv, NEW g \in Triggers, NEW q, trig' = [trig EXCEPT ![g] = q],
         UNCHANGED <<task, session, final, writing, started>>,
         Row(q, session[g], final[g], started[g]), Keeps(trig[g], q),
         q.handed = trig[g].handed
  PROVE  TStep
<1>1. /\ session' = [session EXCEPT ![g] = session[g]] /\ final' = [final EXCEPT ![g] = final[g]]
      /\ started' = [started EXCEPT ![g] = started[g]]
      /\ writing' \in [Triggers -> SUBSET Turns] /\ final[g] \in SUBSET (Turns \cup {Foreign})
  BY RowKnown
<1> QED
  BY <1>1, OneRow

-----------------------------------------------------------------------------
(* Steps of one run.                                                       *)

LEMMA TimeHolds ==
  ASSUME TInv, NEW g \in Triggers,
         LeaseTick(g) \/ RecheckComesDue(g) \/ ClaimUnknown(g) \/ Reconcile(g)
  PROVE  TStep
<1> DEFINE r == trig[g]
<1>1. Row(r, session[g], final[g], started[g]) /\ r \in Trigger
  BY RowKnown
<1>2. CASE LeaseTick(g)
  <2> DEFINE q == [r EXCEPT !.lease = @ - 1]
  <2>1. /\ q \in Trigger /\ r.lease > 0 /\ trig' = [trig EXCEPT ![g] = q]
        /\ q.task = r.task /\ q.mode = r.mode /\ q.target = r.target /\ q.turn = r.turn
        /\ q.status = r.status /\ q.error = r.error /\ q.claim = r.claim /\ q.handed = r.handed
    BY <1>1, <1>2, LeaseBounds DEF LeaseTick, Trigger
  <2>2. r.status # "absent"
    BY <1>1, <2>1 DEF Row, NoTrigger, NoLease
  <2>3. Row(q, session[g], final[g], started[g]) /\ Keeps(r, q)
    BY <1>1, <2>1, <2>2 DEF Row, Keeps
  <2> QED
    BY <1>2, <2>1, <2>3, OnlyRow DEF LeaseTick
<1>3. CASE RecheckComesDue(g)
  <2> DEFINE q == [r EXCEPT !.recheck = "due"]
  <2>1. /\ q \in Trigger /\ r.recheck = "waiting" /\ trig' = [trig EXCEPT ![g] = q]
        /\ q.task = r.task /\ q.mode = r.mode /\ q.target = r.target /\ q.turn = r.turn
        /\ q.status = r.status /\ q.error = r.error /\ q.claim = r.claim /\ q.handed = r.handed
    BY <1>1, <1>3 DEF RecheckComesDue, Trigger
  <2>2. r.status # "absent"
    BY <1>1, <2>1 DEF Row, NoTrigger
  <2>3. Row(q, session[g], final[g], started[g]) /\ Keeps(r, q)
    BY <1>1, <2>1, <2>2 DEF Row, Keeps
  <2> QED
    BY <1>3, <2>1, <2>3, OnlyRow DEF RecheckComesDue
<1>4. CASE ClaimUnknown(g)
  <2> DEFINE q == [r EXCEPT !.recheck = "waiting"]
  <2>1. /\ q \in Trigger /\ r.status = "state_unknown" /\ trig' = [trig EXCEPT ![g] = q]
        /\ q.task = r.task /\ q.mode = r.mode /\ q.target = r.target /\ q.turn = r.turn
        /\ q.status = r.status /\ q.error = r.error /\ q.claim = r.claim /\ q.handed = r.handed
    BY <1>1, <1>4 DEF ClaimUnknown, Trigger
  <2>3. Row(q, session[g], final[g], started[g]) /\ Keeps(r, q)
    BY <1>1, <2>1 DEF Row, Keeps
  <2> QED
    BY <1>4, <2>1, <2>3, OnlyRow DEF ClaimUnknown
<1>5. CASE Reconcile(g)
  BY <1>1, <1>5, ReconciledRow, OnlyRow DEF Reconcile
<1> QED
  BY <1>2, <1>3, <1>4, <1>5

LEMMA PrepareHolds ==
  ASSUME TInv, NEW g \in Triggers, NEW c \in 1 .. MaxClaims,
         PrepareRefused(g, c) \/ PrepareSource(g, c) \/ PrepareNew(g, c)
  PROVE  TStep
<1> DEFINE r == trig[g]
<1>1. Row(r, session[g], final[g], started[g]) /\ r \in Trigger /\ c \in Claims
  BY RowKnown, TriggersAssumption DEF Claims
<1>2. CASE PrepareRefused(g, c)
  <2>1. Row(Fail(r, "refused"), session[g], final[g], started[g]) /\ Keeps(r, Fail(r, "refused"))
        /\ Fail(r, "refused").handed = r.handed
    BY <1>1, <1>2, FailedRows DEF PrepareRefused, Row, Keeps, Stays, OpenSet, Ended
  <2> QED
    BY <1>2, <2>1, OnlyRow DEF PrepareRefused
<1>3. CASE PrepareSource(g, c)
  <2>1. r.status \in {"claimed", "queued"} /\ r.mode = "source_thread"
    BY <1>3 DEF PrepareSource
  <2>2. Row(Fail(r, "denied"), session[g], final[g], started[g]) /\ Keeps(r, Fail(r, "denied"))
        /\ Fail(r, "denied").handed = r.handed
    BY <1>1, <2>1, FailedRows DEF Row, Keeps, Stays, OpenSet, Ended
  <2> DEFINE q == [r EXCEPT !.status = "queued", !.input = c]
  <2>3. /\ q \in Trigger
        /\ q.task = r.task /\ q.mode = r.mode /\ q.target = r.target /\ q.turn = r.turn
        /\ q.status = "queued" /\ q.error = r.error /\ q.claim = r.claim /\ q.handed = r.handed
    BY <1>1 DEF Trigger, OpenSet
  <2>4. Row(q, session[g], final[g], started[g]) /\ Keeps(r, q)
    BY <1>1, <2>1, <2>3 DEF Row, Keeps, OpenSet, Ended
  <2>5. trig' = [trig EXCEPT ![g] = IF r.input \in {0, c} THEN q ELSE Fail(r, "denied")]
    BY <1>3 DEF PrepareSource
  <2> QED
    BY <1>3, <2>2, <2>3, <2>4, <2>5, OnlyRow DEF PrepareSource
<1>4. CASE PrepareNew(g, c)
  <2>1. r.status \in {"claimed", "queued"} /\ r.mode = "new_thread_each_run"
    BY <1>4 DEF PrepareNew
  <2> DEFINE i == IF session[g] = "none" THEN c ELSE r.input
             s == IF session[g] = "none" THEN "pending" ELSE session[g]
             q == [r EXCEPT !.status = "queued", !.target = TRUE, !.input = i]
  <2>2. i \in Claims
    BY <1>1 DEF Trigger
  <2> HIDE DEF i
  <2>3. /\ q \in Trigger
        /\ q.task = r.task /\ q.mode = r.mode /\ q.target = TRUE /\ q.turn = r.turn
        /\ q.status = "queued" /\ q.error = r.error /\ q.claim = r.claim /\ q.handed = r.handed
    BY <1>1, <2>2 DEF Trigger, OpenSet
  <2>4. trig' = [trig EXCEPT ![g] = q] /\ session' = [session EXCEPT ![g] = s]
    BY <1>1, <1>4 DEF PrepareNew, Trigger, i
  <2>5. Row(q, s, final[g], started[g]) /\ Keeps(r, q)
    <3> HIDE DEF q
    <3> QED
      BY <1>1, <2>1, <2>3 DEF Row, Keeps, OpenSet, Ended, SessionStatus
  <2>6. UNCHANGED <<task, final, writing, started>>
    BY <1>4 DEF PrepareNew
  <2> HIDE DEF q, s
  <2>7. /\ final' = [final EXCEPT ![g] = final[g]] /\ started' = [started EXCEPT ![g] = started[g]]
        /\ writing' \in [Triggers -> SUBSET Turns] /\ final[g] \in SUBSET (Turns \cup {Foreign})
    BY <2>6, RowKnown
  <2> QED
    BY <2>3, <2>4, <2>5, <2>6, <2>7, OneRow
<1> QED
  BY <1>2, <1>3, <1>4

LEMMA RenewHolds ==
  ASSUME TInv, NEW g \in Triggers, NEW c \in 1 .. MaxClaims, Renew(g, c)
  PROVE  TStep
<1> DEFINE r == trig[g]
<1>0. Row(r, session[g], final[g], started[g]) /\ r \in Trigger
  BY RowKnown
<1> DEFINE q == [r EXCEPT !.lease = LeaseLength]
<1>1. r.status \in {"queued", "running"}
  BY DEF Renew, Authorized
<1>2. /\ q \in Trigger /\ trig' = [trig EXCEPT ![g] = q]
      /\ q.task = r.task /\ q.mode = r.mode /\ q.target = r.target /\ q.turn = r.turn
      /\ q.status = r.status /\ q.error = r.error /\ q.claim = r.claim /\ q.handed = r.handed
  BY <1>0, LeaseBounds DEF Renew, Trigger
<1>3. Row(q, session[g], final[g], started[g]) /\ Keeps(r, q)
  BY <1>0, <1>1, <1>2 DEF Row, Keeps
<1> QED
  BY <1>2, <1>3, OnlyRow DEF Renew

\* Only the last holder of a claim that is still good starts, and for the turn that is bound.
LEMMA StartHolds ==
  ASSUME TInv, NEW g \in Triggers, NEW c \in 1 .. MaxClaims, NEW x \in Turns, Start(g, c, x)
  PROVE  TStep
<1> DEFINE r == trig[g]
<1>0. Row(r, session[g], final[g], started[g]) /\ r \in Trigger
  BY RowKnown
<1> DEFINE s == IF session[g] = "pending" THEN "starting" ELSE session[g]
           q == [r EXCEPT !.status = "running", !.turn = x]
           starts == started[g] \cup {<<c, x>>}
<1>1. /\ r.status \in {"queued", "running"} /\ r.turn \in {None, x} /\ r.target
      /\ c > 0 /\ r.claim = c /\ r.lease > 0 /\ x # None /\ r.claim = r.handed
      /\ (r.status = "queued" /\ r.mode = "new_thread_each_run") => session[g] = "pending"
  BY <1>0, TriggersAssumption DEF Start, Authorized, Holds, Bindable, Live, Row, Trigger
<1>2. /\ q \in Trigger
      /\ q.task = r.task /\ q.mode = r.mode /\ q.target = r.target /\ q.turn = x
      /\ q.status = "running" /\ q.error = r.error /\ q.claim = r.claim /\ q.handed = r.handed
  BY <1>0, <1>1 DEF Trigger, OpenSet
<1>3. /\ trig' = [trig EXCEPT ![g] = q] /\ session' = [session EXCEPT ![g] = s]
      /\ started' = [started EXCEPT ![g] = starts]
      /\ UNCHANGED <<task, final, writing>>
  BY <1>0 DEF Start, Trigger
<1>4. starts = {<<c, x>>}
  <2>1. r.turn = None => started[g] = {}
    BY <1>0 DEF Row
  <2>2. r.turn # None => started[g] = {<<r.claim, r.turn>>}
    BY <1>0, Zenon DEF Row
  <2> QED
    BY <1>1, <2>1, <2>2
<1> HIDE DEF q, starts
<1>5. s \in SessionStatus /\ s # "pending" /\ (s = "none" <=> session[g] = "none")
      /\ (s = "failed" => session[g] = "failed")
  BY <1>0 DEF Row, SessionStatus
<1> HIDE DEF s
<1>6. Row(q, s, final[g], starts)
  <2>1. q.turn # None /\ q.claim > 0 /\ starts = {<<q.claim, q.turn>>}
    BY <1>1, <1>2, <1>4
  <2>2. q.task \in Tasks /\ q.claim = q.handed /\ q.error # "reported"
    BY <1>0, <1>1, <1>2 DEF Row
  <2>4. q.mode = "source_thread" => session[g] = "none"
    BY <1>0, <1>1, <1>2 DEF Row
  <2>5. q.mode = "new_thread_each_run" => session[g] # "none"
    BY <1>0, <1>1, <1>2 DEF Row
  <2>3. s # "failed"
    BY <1>0, <1>1, <1>5 DEF Row
  <2>6. q.target
    BY <1>1, <1>2
  <2>7. q.status = "running" /\ q \in Trigger /\ s \in SessionStatus /\ s # "pending"
    BY <1>2, <1>5
  <2>8. q.mode = "new_thread_each_run" => s # "none"
    BY <1>2, <1>5, <2>5
  <2>9. q.mode = "source_thread" => s = "none"
    BY <1>2, <1>5, <2>4
  <2> QED
    BY <2>1, <2>2, <2>3, <2>6, <2>7, <2>8, <2>9 DEF Row
<1>7. Keeps(r, q)
  BY <1>0, <1>1, <1>2 DEF Row, Keeps, OpenSet, Ended
<1>8. ASSUME NEW p \in starts \ started[g] PROVE p[1] = r.handed /\ r.lease > 0
  <2>1. p = <<c, x>>
    BY <1>4
  <2> QED
    BY <1>1, <2>1
<1>9. /\ final' = [final EXCEPT ![g] = final[g]] /\ writing' \in [Triggers -> SUBSET Turns]
      /\ final[g] \in SUBSET (Turns \cup {Foreign})
  BY <1>3, RowKnown
<1> QED
  BY <1>2, <1>3, <1>6, <1>7, <1>8, <1>9, OneRow

LEMMA FinishHolds ==
  ASSUME TInv, NEW g \in Triggers, NEW c \in 1 .. MaxClaims,
         FinishSucceeded(g, c) \/ FinishFailed(g, c) \/ FinishUnknown(g, c)
  PROVE  TStep
<1> DEFINE r == trig[g]
<1>1. Row(r, session[g], final[g], started[g]) /\ r \in Trigger
  BY RowKnown
<1>2. CASE FinishSucceeded(g, c)
  <2>1. r.status \in {"running", "state_unknown"} /\ Proved(r, final[g])
    BY <1>2 DEF FinishSucceeded
  <2>2. Row(Succeed(r), session[g], final[g], started[g]) /\ Keeps(r, Succeed(r))
        /\ Succeed(r).handed = r.handed
    BY <1>1, <2>1, WrittenRows DEF Row, Keeps, Stays, OpenSet, Ended, Proved
  <2> QED
    BY <1>2, <2>2, OnlyRow DEF FinishSucceeded
<1>3. CASE FinishFailed(g, c)
  <2> DEFINE s == IF session[g] = "none" THEN "none" ELSE "failed"
             f == Fail(r, "reported")
             q == [f EXCEPT !.recheck = "none"]
  <2>1. r.status \in OpenSet
    BY <1>3 DEF FinishFailed
  <2>2. /\ Stays(r, f) /\ f.status = "failed" /\ f.error = "reported" /\ f.claim = r.claim
    BY <1>1, FailedRows
  <2>3. trig' = [trig EXCEPT ![g] = q] /\ session' = [session EXCEPT ![g] = s]
        /\ UNCHANGED <<task, final, writing, started>>
    BY <1>1, <1>3 DEF FinishFailed
  <2> HIDE DEF f
  <2>4. /\ q \in Trigger
        /\ q.task = r.task /\ q.mode = r.mode /\ q.target = r.target /\ q.turn = r.turn
        /\ q.status = "failed" /\ q.error = "reported" /\ q.claim = r.claim
        /\ q.handed = r.handed
    BY <2>2 DEF Stays, Trigger
  <2> HIDE DEF q
  <2>5. s \in {"none", "failed"} /\ (s = "none" <=> session[g] = "none")
    OBVIOUS
  <2> HIDE DEF s
  <2>6. Row(q, s, final[g], started[g])
    BY <1>1, <2>1, <2>4, <2>5 DEF Row, OpenSet, SessionStatus
  <2>7. Keeps(r, q)
    BY <1>1, <2>1, <2>4 DEF Row, Keeps, OpenSet, Ended
  <2>8. /\ final' = [final EXCEPT ![g] = final[g]] /\ started' = [started EXCEPT ![g] = started[g]]
        /\ writing' \in [Triggers -> SUBSET Turns] /\ final[g] \in SUBSET (Turns \cup {Foreign})
    BY <2>3, RowKnown
  <2> QED
    BY <2>3, <2>4, <2>6, <2>7, <2>8, OneRow
<1>4. CASE FinishUnknown(g, c)
  <2>1. r.status \in OpenSet \ {"claimed"} /\ r.turn # None
    BY <1>4 DEF FinishUnknown
  <2>2. Row(Unsure(r), session[g], final[g], started[g]) /\ Keeps(r, Unsure(r))
        /\ Unsure(r).handed = r.handed
    BY <1>1, <2>1, WrittenRows DEF Row, Keeps, Stays, OpenSet, Ended
  <2> QED
    BY <1>4, <2>2, OnlyRow DEF FinishUnknown
<1> QED
  BY <1>2, <1>3, <1>4

\* The target thread gets answers, or goes.
LEMMA ThreadHolds ==
  ASSUME TInv, NEW g \in Triggers,
         \/ \E x \in Turns : AnswerStored(g, x) \/ \E c \in 1 .. MaxClaims : StoreAnswer(g, c, x)
         \/ OtherAnswer(g)
         \/ DeleteTarget(g)
  PROVE  TStep
<1> DEFINE r == trig[g]
<1>1. Row(r, session[g], final[g], started[g]) /\ r \in Trigger /\ Keeps(r, r)
  BY RowKnown, RowKeepsItself
<1>2. ASSUME NEW answers \in SUBSET (Turns \cup {Foreign}), final[g] \subseteq answers,
             final' = [final EXCEPT ![g] = answers],
             writing' \in [Triggers -> SUBSET Turns], UNCHANGED <<task, trig, session, started>>
      PROVE  TStep
  <2>1. Row(r, session[g], answers, started[g])
    BY <1>1, <1>2 DEF Row
  <2>2. /\ trig' = [trig EXCEPT ![g] = r] /\ session' = [session EXCEPT ![g] = session[g]]
        /\ started' = [started EXCEPT ![g] = started[g]]
    BY <1>2, RowKnown
  <2> QED
    BY <1>1, <1>2, <2>1, <2>2, OneRow
<1>3. /\ final \in [Triggers -> SUBSET (Turns \cup {Foreign})]
      /\ writing \in [Triggers -> SUBSET Turns] /\ final = [final EXCEPT ![g] = final[g]]
  BY RowKnown DEF TInv, RowsInv
<1>4. ASSUME NEW x \in Turns, AnswerStored(g, x) PROVE TStep
  <2>1. writing' \in [Triggers -> SUBSET Turns] /\ UNCHANGED <<task, trig, session, started>>
    BY <1>3, <1>4 DEF AnswerStored
  <2>2. CASE final' = [final EXCEPT ![g] = @ \cup {x}]
    <3>1. final' = [final EXCEPT ![g] = final[g] \cup {x}]
      BY <2>2, <1>3
    <3>2. final[g] \cup {x} \in SUBSET (Turns \cup {Foreign})
      BY <1>3
    <3> QED
      BY <1>2, <2>1, <3>1, <3>2
  <2>3. CASE UNCHANGED final
    BY <1>2, <1>3, <2>1, <2>3
  <2> QED
    BY <1>4, <2>2, <2>3 DEF AnswerStored
<1>5. ASSUME NEW x \in Turns, NEW c \in 1 .. MaxClaims, StoreAnswer(g, c, x) PROVE TStep
  <2>1. writing' \in [Triggers -> SUBSET Turns] /\ UNCHANGED <<task, trig, session, started, final>>
    BY <1>3, <1>5 DEF StoreAnswer
  <2> QED
    BY <1>2, <1>3, <2>1
<1>6. CASE OtherAnswer(g)
  <2>1. final' = [final EXCEPT ![g] = final[g] \cup {Foreign}]
        /\ UNCHANGED <<task, trig, session, writing, started>>
    BY <1>3, <1>6 DEF OtherAnswer
  <2> QED
    BY <1>2, <1>3, <2>1
<1>7. CASE DeleteTarget(g)
  <2> DEFINE q == [r EXCEPT !.target = FALSE, !.input = 0]
  <2>1. 0 \in Claims
    BY TriggersAssumption DEF Claims
  <2>2. /\ q \in Trigger
        /\ q.task = r.task /\ q.mode = r.mode /\ q.target = FALSE /\ q.turn = r.turn
        /\ q.status = r.status /\ q.error = r.error /\ q.claim = r.claim /\ q.handed = r.handed
    BY <1>1, <2>1 DEF Trigger
  <2>3. /\ trig' = [trig EXCEPT ![g] = q] /\ session' = [session EXCEPT ![g] = "none"]
        /\ final' = [final EXCEPT ![g] = {}] /\ session[g] # "none"
        /\ writing' = [writing EXCEPT ![g] = {}] /\ UNCHANGED <<task, started>>
    BY <1>1, <1>7 DEF DeleteTarget, Trigger
  <2> HIDE DEF q
  <2>4. r.status # "absent" /\ r.mode = "new_thread_each_run"
    BY <1>1, <2>3 DEF Row, Trigger, Modes
  <2>5. Row(q, "none", {}, started[g])
    BY <1>1, <2>2, <2>4 DEF Row, SessionStatus
  <2>6. Keeps(r, q)
    BY <1>1, <2>2 DEF Keeps
  <2>7. started' = [started EXCEPT ![g] = started[g]] /\ writing' \in [Triggers -> SUBSET Turns]
    BY <1>3, <2>3, RowKnown
  <2> QED
    BY <2>2, <2>3, <2>5, <2>6, <2>7, OneRow
<1> QED
  BY <1>4, <1>5, <1>6, <1>7

-----------------------------------------------------------------------------
(* Claims: up to three runs change in one transaction.                     *)

\* Rows that a step may leave behind.
Kept(rows) ==
  /\ rows \in [Triggers -> Trigger]
  /\ \A g \in Triggers : /\ Row(rows[g], session[g], final[g], started[g])
                         /\ Keeps(trig[g], rows[g]) /\ rows[g].handed = trig[g].handed

LEMMA RowsKept ==
  ASSUME TInv
  PROVE  /\ Kept(trig)
         /\ \A e \in Lapsing : Kept(AfterLapsed(e))
         /\ \A e \in Lapsing, u \in Triggers \cup {None} :
              CanSkip(e, u) => Kept(AfterUnheld(e, u))
<1>1. Kept(trig)
  BY RowKeepsItself DEF Kept, TInv, RowsInv
<1>2. ASSUME NEW e \in Lapsing PROVE Kept(AfterLapsed(e))
  <2>1. CASE e = None
    BY <1>1, <2>1 DEF AfterLapsed
  <2>2. CASE e # None
    <3>1. e \in Triggers
      BY <2>2 DEF Lapsing
    <3> DEFINE q == Reconciled(trig[e], final[e])
    <3>2. AfterLapsed(e) = [trig EXCEPT ![e] = q]
      BY <2>2 DEF AfterLapsed
    <3>3. Row(q, session[e], final[e], started[e]) /\ Keeps(trig[e], q) /\ q.handed = trig[e].handed
      BY <1>1, <3>1, ReconciledRow DEF Kept
    <3> HIDE DEF q
    <3>4. q \in Trigger
      BY <3>3 DEF Row
    <3> QED
      BY <1>1, <3>1, <3>2, <3>3, <3>4 DEF Kept
  <2> QED
    BY <2>1, <2>2
<1>3. ASSUME NEW e \in Lapsing, NEW u \in Triggers \cup {None}, CanSkip(e, u)
      PROVE  Kept(AfterUnheld(e, u))
  <2> DEFINE rows == AfterLapsed(e)
  <2>1. Kept(rows)
    BY <1>2
  <2>2. CASE u = None
    BY <2>1, <2>2 DEF AfterUnheld
  <2>3. CASE u # None
    <3> DEFINE q == Skipped(rows[u])
    <3>1. u \in Triggers /\ AfterUnheld(e, u) = [rows EXCEPT ![u] = q] /\ Unheld(rows[u])
      BY <1>3, <2>3 DEF AfterUnheld, CanSkip
    <3> HIDE DEF rows
    <3>2. Row(q, session[u], final[u], started[u]) /\ Keeps(rows[u], q)
          /\ q.handed = rows[u].handed
      BY <2>1, <3>1, SkippedRow DEF Kept
    <3> HIDE DEF q
    <3>3. q \in Trigger /\ Keeps(trig[u], q) /\ q.handed = trig[u].handed
      BY <2>1, <3>1, <3>2, KeepsIsTransitive DEF Kept, Row
    <3> QED
      BY <2>1, <3>1, <3>2, <3>3 DEF Kept
  <2> QED
    BY <2>2, <2>3
<1> QED
  BY <1>1, <1>2, <1>3

LEMMA KeptHolds ==
  ASSUME TInv, Kept(trig'), UNCHANGED <<session, final, writing, started>>, TasksInv',
         \A t \in Tasks : task'[t].status = "absent" => task[t].status = "absent"
  PROVE  TStep
<1>1. /\ session' \in [Triggers -> SessionStatus]
      /\ final' \in [Triggers -> SUBSET (Turns \cup {Foreign})]
      /\ writing' \in [Triggers -> SUBSET Turns]
      /\ started' \in [Triggers -> SUBSET (Claims \X Turns)]
  BY DEF TInv, RowsInv
<1>2. /\ trig' \in [Triggers -> Trigger]
      /\ \A g \in Triggers : Row(trig'[g], session'[g], final'[g], started'[g])
      /\ \A g \in Triggers : Keeps(trig[g], trig'[g])
  BY DEF Kept
<1>3. StartIsFenced /\ InactiveIsNotHandedOut
  BY DEF StartIsFenced, InactiveIsNotHandedOut, Kept
<1> QED
  BY <1>1, <1>2, <1>3, StepHolds

\* A run whose holder is gone is given to another, if its task is not stopped.
LEMMA ClaimUnheldHolds ==
  ASSUME TInv, NEW e \in Lapsing, NEW u \in Triggers, ClaimUnheld(e, u)
  PROVE  TStep
<1> DEFINE rows == AfterLapsed(e)
           q == HandOut(rows[u])
<1>1. Kept(rows)
  BY RowsKept
<1>2. /\ Unheld(rows[u]) /\ ~ Inactive(rows[u]) /\ rows[u].handed < MaxClaims
      /\ trig' = [rows EXCEPT ![u] = q] /\ UNCHANGED <<task, session, final, writing, started>>
  BY DEF ClaimUnheld
<1> HIDE DEF rows
<1>3. Row(q, session[u], final[u], started[u]) /\ Keeps(rows[u], q) /\ q.task = rows[u].task
  <2>1. Row(rows[u], session[u], final[u], started[u]) /\ rows[u] \in Trigger
    BY <1>1 DEF Kept
  <2> QED
    BY <1>2, <2>1, HandedOutRow, HandedRow
<1> HIDE DEF q
<1>4. q \in Trigger /\ Keeps(trig[u], q)
  BY <1>1, <1>3, KeepsIsTransitive DEF Kept, Row
<1>5. /\ rows \in [Triggers -> Trigger]
      /\ \A h \in Triggers : trig'[h] = IF h = u THEN q ELSE rows[h]
  BY <1>1, <1>2 DEF Kept
<1>6. /\ trig' \in [Triggers -> Trigger]
      /\ \A h \in Triggers : Row(trig'[h], session'[h], final'[h], started'[h])
      /\ \A h \in Triggers : Keeps(trig[h], trig'[h])
  BY <1>1, <1>2, <1>3, <1>4, <1>5 DEF Kept
<1>7. /\ session' \in [Triggers -> SessionStatus]
      /\ final' \in [Triggers -> SUBSET (Turns \cup {Foreign})]
      /\ writing' \in [Triggers -> SUBSET Turns]
      /\ started' \in [Triggers -> SUBSET (Claims \X Turns)]
      /\ task \in [Tasks -> Task] /\ TasksInv
  BY <1>2 DEF TInv, RowsInv, TasksInv
<1>8. task[q.task].status \in {"active", "exhausted"}
  <2>1. /\ trig[u].status # "absent" => task[trig[u].task].status # "absent"
        /\ Row(trig[u], session[u], final[u], started[u])
    BY DEF TInv, RowsInv
  <2>2. q.task = trig[u].task /\ rows[u].task = trig[u].task /\ trig[u].status # "absent"
    BY <1>1, <1>2, <1>3 DEF Kept, Keeps, Unheld
  <2>3. task[q.task].status \notin {"paused", "deleted", "absent"} /\ q.task \in Tasks
    BY <1>2, <2>1, <2>2 DEF Inactive, Row
  <2> QED
    BY <1>7, <2>3 DEF Task
<1>9. StartIsFenced /\ InactiveIsNotHandedOut
  BY <1>1, <1>2, <1>5, <1>8 DEF StartIsFenced, InactiveIsNotHandedOut, Kept
<1>10. TasksInv'
  BY <1>2, <1>7 DEF TasksInv
<1> QED
  BY <1>2, <1>6, <1>7, <1>9, <1>10, StepHolds

\* The row a run begins with.
LEMMA FirstRows ==
  ASSUME TInv, NEW t \in Tasks, NEW q \in {FailedRow(t), NewRow(t), HandOut(NewRow(t))}
  PROVE  /\ q \in Trigger /\ q.task = t /\ q.mode = task[t].mode
         /\ q.status \in {"claimed", "failed"} /\ q.error \in {"none", "busy"} /\ q.turn = None
         /\ q.claim \in {0, q.handed} /\ (q.target <=> q.mode = "source_thread")
         /\ q = FailedRow(t) => q.status = "failed"
<1>1. NoTrigger \in Trigger /\ task[t].mode \in Modes /\ 0 \in Claims
  BY NoRow, TriggersAssumption DEF TInv, TasksInv, Task, Claims
<1> DEFINE n == NewRow(t)
<1>2. /\ n \in Trigger /\ n.task = t /\ n.mode = task[t].mode /\ n.status = "claimed"
      /\ n.error = "none" /\ n.turn = None /\ n.claim = 0 /\ n.handed = 0
      /\ n.target <=> n.mode = "source_thread"
  <2> DEFINE b == (task[t].mode = "source_thread")
  <2>1. b \in BOOLEAN /\ n = [NoTrigger EXCEPT !.task = t, !.mode = task[t].mode, !.target = b,
                                               !.status = "claimed"]
    BY DEF NewRow
  <2> HIDE DEF b, n
  <2>2. /\ n \in Trigger /\ n.task = t /\ n.mode = task[t].mode /\ n.status = "claimed"
        /\ n.error = NoTrigger.error /\ n.turn = NoTrigger.turn /\ n.claim = NoTrigger.claim
        /\ n.handed = NoTrigger.handed /\ n.target = b
    BY <1>1, <2>1 DEF Trigger, OpenSet
  <2> QED
    BY <2>2 DEF NoTrigger, b
<1>3. HandOut(n) = HandOut(NewRow(t)) /\ FailedRow(t) = [n EXCEPT !.status = "failed", !.error = "busy"]
  BY DEF FailedRow
<1> HIDE DEF n
<1>4. CASE q = n
  <2>1. q.status # "failed"
    BY <1>2, <1>4
  <2>2. FailedRow(t).status = "failed"
    BY <1>2, <1>3 DEF Trigger
  <2> QED
    BY <1>2, <1>4, <2>2
<1>5. CASE q = HandOut(n)
  <2>1. n.handed < MaxClaims
    BY <1>2, TriggersAssumption
  <2>2. FailedRow(t).status = "failed"
    BY <1>2, <1>3 DEF Trigger
  <2> QED
    BY <1>2, <1>5, <2>1, <2>2, HandedRow
<1>6. CASE q = FailedRow(t)
  <2>1. /\ q \in Trigger /\ q.task = n.task /\ q.mode = n.mode /\ q.target = n.target
        /\ q.turn = n.turn /\ q.claim = n.claim /\ q.handed = n.handed
        /\ q.status = "failed" /\ q.error = "busy"
    BY <1>2, <1>3, <1>6 DEF Trigger, Ended
  <2> QED
    BY <1>2, <2>1
<1> QED
  BY <1>3, <1>4, <1>5, <1>6 DEF n

\* A run is inserted into the rows of its transaction, where its task has no open one.
LEMMA InsertedHolds ==
  ASSUME TInv, NEW rows, Kept(rows), NEW t \in Tasks, NEW g \in Fresh, OpenOf(rows, t) = {},
         task[t].status \in {"active", "exhausted"},
         NEW q \in {NewRow(t), HandOut(NewRow(t))},
         trig' = [rows EXCEPT ![g] = IF SourceBusy(rows, t) THEN FailedRow(t) ELSE q],
         UNCHANGED <<session, final, writing, started>>, TasksInv',
         \A s \in Tasks : task'[s].status = "absent" => task[s].status = "absent"
  PROVE  TStep
<1> DEFINE n == IF SourceBusy(rows, t) THEN FailedRow(t) ELSE q
<1>1. /\ n \in Trigger /\ n.task = t /\ n.mode = task[t].mode
      /\ n.status \in {"claimed", "failed"} /\ n.error \in {"none", "busy"} /\ n.turn = None
      /\ n.claim \in {0, n.handed} /\ (n.target <=> n.mode = "source_thread")
      /\ n = FailedRow(t) => n.status = "failed"
  BY FirstRows
<1>2. n.status \in OpenSet => ~ SourceBusy(rows, t)
  BY <1>1 DEF OpenSet
<1>3. trig' = [rows EXCEPT ![g] = n]
  OBVIOUS
<1> HIDE DEF n
<1>4. /\ g \in Triggers /\ trig[g] = NoTrigger /\ session[g] = "none" /\ started[g] = {}
      /\ trig[g].status = "absent"
  <2>1. g \in Triggers /\ trig[g].status = "absent"
    BY DEF Fresh
  <2>2. Row(trig[g], session[g], final[g], started[g])
    BY <2>1, RowKnown
  <2>3. trig[g] = NoTrigger /\ session[g] = "none"
    BY <2>1, <2>2 DEF Row
  <2>4. trig[g].turn = None
    BY <2>3 DEF NoTrigger
  <2> QED
    BY <2>1, <2>2, <2>3, <2>4 DEF Row
<1>5. Row(n, session[g], final[g], started[g])
  BY <1>1, <1>4 DEF Row, SessionStatus, Trigger, Modes
<1>6. /\ rows \in [Triggers -> Trigger]
      /\ \A h \in Triggers : trig'[h] = IF h = g THEN n ELSE rows[h]
  BY <1>3 DEF Kept
<1>7. /\ trig' \in [Triggers -> Trigger]
      /\ \A h \in Triggers : Row(trig'[h], session'[h], final'[h], started'[h])
      /\ \A h \in Triggers \ {g} : Keeps(trig[h], trig'[h])
  BY <1>1, <1>5, <1>6 DEF Kept
<1>8. Starts(g)
  <2>1. ASSUME n.status \in OpenSet, NEW h \in Triggers \ {g}, trig'[h].status \in OpenSet
        PROVE  /\ n.task # trig'[h].task
               /\ \/ "new_thread_each_run" \in {n.mode, trig'[h].mode}
                  \/ Source[n.task] # Source[trig'[h].task]
    <3>1. trig'[h] = rows[h] /\ rows[h] \in Trigger
      BY <1>6
    <3>2. rows[h].task # t
      BY <2>1, <3>1 DEF OpenOf
    <3>3. \/ task[t].mode # "source_thread" \/ rows[h].mode # "source_thread"
          \/ Source[rows[h].task] # Source[t]
      BY <1>2, <2>1, <3>1 DEF SourceBusy, Busy
    <3>4. n.mode \in Modes /\ rows[h].mode \in Modes
      BY <1>1, <3>1 DEF Trigger
    <3> QED
      BY <1>1, <3>1, <3>2, <3>3, <3>4 DEF Modes
  <2>2. trig'[g] = n /\ started'[g] = {}
    BY <1>4, <1>6
  <2> QED
    BY <1>1, <1>4, <2>1, <2>2 DEF Starts
<1>9. \A h \in Triggers : Keeps(trig[h], trig'[h]) \/ Starts(h)
  BY <1>7, <1>8
<1>10. StartIsFenced /\ InactiveIsNotHandedOut
  BY <1>1, <1>6 DEF StartIsFenced, InactiveIsNotHandedOut, Kept
<1>11. /\ session' \in [Triggers -> SessionStatus]
       /\ final' \in [Triggers -> SUBSET (Turns \cup {Foreign})]
       /\ writing' \in [Triggers -> SUBSET Turns]
       /\ started' \in [Triggers -> SUBSET (Claims \X Turns)]
  BY DEF TInv, RowsInv
<1> QED
  BY <1>7, <1>9, <1>10, <1>11, StepHolds

LEMMA AdvancedTask ==
  ASSUME TInv, NEW t \in Tasks, task[t].status = "active", task' = Advanced(t)
  PROVE  TasksInv' /\ \A s \in Tasks : task'[s].status = "absent" => task[s].status = "absent"
<1>1. task \in [Tasks -> Task]
  BY DEF TInv, TasksInv
<1>2. CASE task[t].once
  <2> DEFINE q == [task[t] EXCEPT !.next = "none", !.status = "exhausted"]
  <2>1. task' = [task EXCEPT ![t] = q]
    BY <1>1, <1>2 DEF Advanced
  <2>2. q \in Task /\ q.status = "exhausted"
    BY <1>1 DEF Task
  <2> HIDE DEF q
  <2> QED
    BY <1>1, <2>1, <2>2 DEF TInv, TasksInv
<1>3. CASE ~ task[t].once
  <2> DEFINE q == [task[t] EXCEPT !.next = "future"]
  <2>1. task' = [task EXCEPT ![t] = q]
    BY <1>1, <1>3 DEF Advanced
  <2>2. q \in Task /\ q.status = "active"
    BY <1>1 DEF Task
  <2> HIDE DEF q
  <2> QED
    BY <1>1, <2>1, <2>2 DEF TInv, TasksInv
<1> QED
  BY <1>2, <1>3

\* The rest of a claim, and "run now".
LEMMA ClaimHolds ==
  ASSUME TInv, Claim \/ \E t \in Tasks : Run(t)
  PROVE  TStep
<1>1. TasksInv
  BY DEF TInv
<1>2. ASSUME NEW e \in Lapsing, NEW u \in Triggers \cup {None}, ClaimNothing(e, u)
      PROVE  TStep
  <2>1. Kept(trig')
    <3>1. Kept(AfterUnheld(e, u)) /\ trig' = AfterUnheld(e, u)
      BY <1>2, RowsKept DEF ClaimNothing
    <3>2. UNCHANGED <<session, final, started>>
      BY <1>2 DEF ClaimNothing
    <3> QED
      BY <3>1
  <2>2. TasksInv' /\ UNCHANGED <<task, session, final, writing, started>>
    BY <1>1, <1>2 DEF ClaimNothing, TasksInv
  <2> QED
    BY <2>1, <2>2, KeptHolds
<1>3. ASSUME NEW e \in Lapsing, NEW u \in Triggers \cup {None}, NEW t \in Tasks,
             ClaimDue(e, u, t)
      PROVE  TStep
  <2> DEFINE rows == AfterUnheld(e, u)
  <2>1. /\ Kept(rows) /\ task[t].status = "active" /\ task' = Advanced(t)
        /\ UNCHANGED <<session, final, writing, started>>
    BY <1>3, RowsKept DEF ClaimDue
  <2>2. TasksInv' /\ \A s \in Tasks : task'[s].status = "absent" => task[s].status = "absent"
    BY <2>1, AdvancedTask
  <2>3. CASE OpenOf(rows, t) # {}
    <3>1. trig' = rows
      BY <1>3, <2>3 DEF ClaimDue
    <3> QED
      BY <2>1, <2>2, <3>1, KeptHolds
  <2>4. CASE OpenOf(rows, t) = {}
    <3>1. PICK g \in Fresh :
            trig' = [rows EXCEPT ![g] = IF SourceBusy(rows, t) THEN FailedRow(t)
                                        ELSE HandOut(NewRow(t))]
      BY <1>3, <2>4 DEF ClaimDue
    <3> HIDE DEF rows
    <3> QED
      BY <2>1, <2>2, <2>4, <3>1, InsertedHolds
  <2> QED
    BY <2>3, <2>4
<1>4. ASSUME NEW t \in Tasks, Run(t) PROVE TStep
  <2>1. PICK g \in Fresh :
          trig' = [trig EXCEPT ![g] = IF SourceBusy(trig, t) THEN FailedRow(t) ELSE NewRow(t)]
    BY <1>4 DEF Run
  <2>2. /\ task[t].status \in {"active", "exhausted"} /\ OpenOf(trig, t) = {}
        /\ UNCHANGED <<task, session, final, writing, started>> /\ Kept(trig)
    BY <1>4, RowsKept DEF Run
  <2>3. TasksInv'
    BY <1>1, <2>2 DEF TasksInv
  <2> QED
    BY <2>1, <2>2, <2>3, InsertedHolds
<1> QED
  BY <1>2, <1>3, <1>4, TimeHolds, ClaimUnheldHolds DEF Claim

-----------------------------------------------------------------------------
(* The user, and the clock of the tasks.                                   *)

\* A task is rewritten, and no run is touched.
LEMMA TaskWritten ==
  ASSUME TInv, NEW t \in Tasks, NEW q \in Task, task' = [task EXCEPT ![t] = q],
         q.status # "absent",
         q.status = "deleted" => q.before \in {"active", "paused", "exhausted"}, UnchangedRuns
  PROVE  TStep
<1>1. TasksInv' /\ \A s \in Tasks : task'[s].status = "absent" => task[s].status = "absent"
  BY DEF TInv, TasksInv
<1>2. Kept(trig')
  <2>1. Kept(trig) /\ UNCHANGED <<trig, session, final, writing, started>>
    BY RowsKept DEF UnchangedRuns
  <2> QED
    BY <2>1
<1> QED
  BY <1>1, <1>2, KeptHolds DEF UnchangedRuns

LEMMA NextBounds ==
  ASSUME NEW t \in Tasks, NEW next \in NextFor(t)
  PROVE  next \in {"none", "future"} /\ StatusFor(next) \in {"exhausted", "active"}
  BY DEF NextFor, StatusFor

LEMMA UserHolds ==
  ASSUME TInv, NEW t \in Tasks,
         \/ \E once \in Onces, mode \in Choices : Create(t, once, mode) \/ Edit(t, once, mode)
         \/ Pause(t) \/ Resume(t) \/ Delete(t) \/ Restore(t) \/ TaskComesDue(t)
  PROVE  TStep
<1> DEFINE r == task[t]
<1>1. /\ r \in Task /\ task \in [Tasks -> Task]
      /\ r.status = "absent" => r.next = "none"
      /\ r.status = "deleted" => r.before \in {"active", "paused", "exhausted"}
  BY DEF TInv, TasksInv
<1>2. ASSUME NEW once \in Onces, NEW mode \in Choices, Create(t, once, mode) PROVE TStep
  <2> DEFINE q == [status |-> "active", before |-> None, next |-> "future",
                   once |-> once, mode |-> mode]
  <2>1. q \in Task /\ q.status = "active"
    BY TriggersAssumption DEF Task, Modes
  <2>2. task' = [task EXCEPT ![t] = q] /\ UnchangedRuns
    BY <1>2 DEF Create
  <2> HIDE DEF q
  <2> QED
    BY <2>1, <2>2, TaskWritten
<1>3. ASSUME NEW once \in Onces, NEW mode \in Choices, Edit(t, once, mode) PROVE TStep
  <2> DEFINE n == IF r.status = "paused" THEN "none" ELSE "future"
             q == [r EXCEPT !.once = once, !.mode = mode, !.next = n]
  <2>1. n \in {"none", "future"} /\ once \in BOOLEAN /\ mode \in Modes
    BY TriggersAssumption DEF Modes
  <2>2. task' = [task EXCEPT ![t] = q] /\ UnchangedRuns /\ r.status \in {"active", "paused"}
    BY <1>1, <1>3 DEF Edit
  <2> HIDE DEF n
  <2>3. q \in Task /\ q.status = r.status
    BY <1>1, <2>1 DEF Task
  <2> HIDE DEF q
  <2> QED
    BY <2>2, <2>3, TaskWritten
<1>4. CASE Pause(t)
  <2> DEFINE q == [r EXCEPT !.status = "paused", !.next = "none"]
  <2>1. task' = [task EXCEPT ![t] = q] /\ UnchangedRuns
    BY <1>1, <1>4 DEF Pause
  <2>2. q \in Task /\ q.status = "paused"
    BY <1>1 DEF Task
  <2> HIDE DEF q
  <2> QED
    BY <2>1, <2>2, TaskWritten
<1>5. CASE Resume(t)
  <2>1. PICK next \in NextFor(t) :
          task' = [task EXCEPT ![t].status = StatusFor(next), ![t].next = next]
    BY <1>5 DEF Resume
  <2> DEFINE q == [r EXCEPT !.status = StatusFor(next), !.next = next]
  <2>2. task' = [task EXCEPT ![t] = q] /\ UnchangedRuns
    BY <1>1, <1>5, <2>1 DEF Resume
  <2>3. q \in Task /\ q.status \in {"exhausted", "active"}
    BY <1>1, NextBounds DEF Task
  <2> HIDE DEF q
  <2> QED
    BY <2>2, <2>3, TaskWritten
<1>6. CASE Delete(t)
  <2> DEFINE q == [r EXCEPT !.before = r.status, !.status = "deleted", !.next = "none"]
  <2>1. task' = [task EXCEPT ![t] = q] /\ UnchangedRuns
        /\ r.status \in {"active", "paused", "exhausted"}
    BY <1>1, <1>6 DEF Delete
  <2>2. q \in Task /\ q.status = "deleted" /\ q.before = r.status
    BY <1>1, <2>1 DEF Task
  <2> HIDE DEF q
  <2> QED
    BY <2>1, <2>2, TaskWritten
<1>7. CASE Restore(t)
  <2>1. PICK next \in IF r.before = "active" THEN NextFor(t) ELSE {"none"} :
          task' = [task EXCEPT ![t].before = None, ![t].next = next,
                     ![t].status = IF r.before = "active" THEN StatusFor(next) ELSE r.before]
    BY <1>7 DEF Restore
  <2> DEFINE s == IF r.before = "active" THEN StatusFor(next) ELSE r.before
             q == [r EXCEPT !.before = None, !.next = next, !.status = s]
  <2>2. task' = [task EXCEPT ![t] = q] /\ UnchangedRuns /\ r.status = "deleted"
    BY <1>1, <1>7, <2>1 DEF Restore
  <2>3. next \in {"none", "future"} /\ s \in {"exhausted", "active", "paused"}
    <3>1. r.before \in {"active", "paused", "exhausted"}
      BY <1>1, <2>2
    <3> QED
      BY <2>1, <3>1, NextBounds
  <2> HIDE DEF s
  <2>4. q \in Task /\ q.status = s
    BY <1>1, <2>3 DEF Task
  <2> HIDE DEF q
  <2> QED
    BY <2>2, <2>3, <2>4, TaskWritten
<1>8. CASE TaskComesDue(t)
  <2> DEFINE q == [r EXCEPT !.next = "due"]
  <2>1. task' = [task EXCEPT ![t] = q] /\ UnchangedRuns /\ r.next = "future"
    BY <1>1, <1>8 DEF TaskComesDue
  <2>2. q \in Task /\ q.status = r.status /\ q.before = r.before
    BY <1>1 DEF Task
  <2>3. r.status # "absent"
    BY <1>1, <2>1
  <2> HIDE DEF q
  <2> QED
    BY <1>1, <2>1, <2>2, <2>3, TaskWritten
<1> QED
  BY <1>2, <1>3, <1>4, <1>5, <1>6, <1>7, <1>8

LEMMA TNextHolds == TInv /\ [Next]_vars => TStep
<1> SUFFICES ASSUME TInv, [Next]_vars PROVE TStep
  OBVIOUS
<1>1. CASE UNCHANGED vars
  <2>1. UNCHANGED <<task, trig, session, final, writing, started>>
    BY <1>1 DEF vars
  <2>2. TasksInv' /\ \A s \in Tasks : task'[s].status = "absent" => task[s].status = "absent"
    BY <2>1 DEF TInv, TasksInv
  <2>3. Kept(trig')
    BY <2>1, RowsKept
  <2> QED
    BY <2>1, <2>2, <2>3, KeptHolds
<1>2. CASE UserStep
  BY <1>2, UserHolds, ClaimHolds DEF UserStep
<1>3. CASE Claim
  BY <1>3, ClaimHolds
<1>4. ASSUME NEW g \in Triggers, WorkerStep(g) PROVE TStep
  <2>1. CASE Reconcile(g)
    BY <2>1, TimeHolds
  <2>2. ASSUME NEW c \in 1 .. MaxClaims,
               \/ PrepareRefused(g, c) \/ PrepareSource(g, c) \/ PrepareNew(g, c)
               \/ FinishSucceeded(g, c) \/ FinishFailed(g, c) \/ FinishUnknown(g, c)
        PROVE  TStep
    BY <2>2, PrepareHolds, FinishHolds
  <2>3. ASSUME NEW c \in 1 .. MaxClaims, Renew(g, c) PROVE TStep
    BY <2>3, RenewHolds
  <2>4. ASSUME NEW c \in 1 .. MaxClaims, NEW x \in Turns, Start(g, c, x) PROVE TStep
    BY <2>4, StartHolds
  <2>5. ASSUME NEW c \in 1 .. MaxClaims, NEW x \in Turns, StoreAnswer(g, c, x) PROVE TStep
    BY <2>5, ThreadHolds
  <2>6. ASSUME NEW x \in Turns, AnswerStored(g, x) PROVE TStep
    BY <2>6, ThreadHolds
  <2> QED
    BY <1>4, <2>1, <2>2, <2>3, <2>4, <2>5, <2>6 DEF WorkerStep
<1>5. ASSUME NEW g \in Triggers,
             OtherAnswer(g) \/ DeleteTarget(g) \/ LeaseTick(g) \/ RecheckComesDue(g)
      PROVE  TStep
  BY <1>5, TimeHolds, ThreadHolds
<1>6. ASSUME NEW t \in Tasks, TaskComesDue(t) PROVE TStep
  BY <1>6, UserHolds
<1> QED
  BY <1>1, <1>2, <1>3, <1>4, <1>5, <1>6 DEF Next

LEMMA TInvAlways == Spec => []TInv
<1>1. TInv /\ [Next]_vars => TInv'
  BY TNextHolds DEF TStep
<1> QED
  BY <1>1, TInitSound, PTL DEF Spec

\* The row of a run, the session of its thread and the turn the model was started for agree
\* in every state: one start at most, and success only with the stored answer of that turn.
THEOREM RunsAreOneThing == Spec => []RunIsOneThing
  BY TInvAlways, TInvSuffices, PTL

\* Two runs of one task, or two runs in one source thread, are never open at a time,
\* whatever the user and the workers do: the look-up of a claim sees the rows it has changed.
THEOREM ThreadsHaveOneRun == Spec => []OneRunPerThread
  BY TInvAlways, TInvSuffices, PTL

\* A holder that was replaced starts nothing, a bound turn and an end are kept, and no run of
\* a task that was paused or deleted is handed out.
THEOREM TakeoversStaySafe == Spec => TakeoversAreSafe
<1>1. TInv /\ [Next]_vars => [StartIsFenced /\ EndedIsFinal /\ InactiveIsNotHandedOut]_vars
  BY TNextHolds DEF TStep
<1> QED
  BY <1>1, TInvAlways, PTL DEF Spec, TakeoversAreSafe

-----------------------------------------------------------------------------
(* The runs of a Notion connector.                                         *)


Key == [epoch : Nat, worker : Workers \cup {Nil}, scope : SUBSET Sources, seen : Nat]
SyncRun == [epoch : Nat, worker : Workers \cup {Nil}, selection : Nat, authorization : Nat,
        lease : Nat, status : {"none", "running", "invalidated", "succeeded", "failed"}]
Calls == {"renew", "succeeded", "failed"}

NotionTypes ==
  /\ connector \in [auth : {"pending", "authenticated"}, sources : SUBSET Sources,
                    current : Versions \cup {Nil}]
  /\ policy \in [enabled : BOOLEAN, status : {"applied", "syncing", "disabled", "error"},
                 success : {Never} \cup Nat]
  /\ exec \in [selection : Nat, authorization : Nat, epoch : Nat, legacy : BOOLEAN, run : SyncRun]
  /\ snapshot \in [Versions -> {Nil} \cup [scope : SUBSET Sources, seen : Nat]]
  /\ keys \in SUBSET Key
  /\ tx \in [op : {"none", "claim"} \cup Calls, worker : Workers \cup {Nil}, key : Key,
             version : Versions \cup {Nil}, age : Nat]
  /\ changes \in Nat /\ inherited \in BOOLEAN

\* The keys of the present epoch have seen what its run is about.
KeysSee ==
  /\ exec.run.epoch = exec.epoch
  /\ \A k \in keys : /\ k.epoch <= exec.epoch
                     /\ exec.run.status = "running" /\ k.epoch = exec.epoch =>
                          k.seen = changes /\ k.scope = connector.sources

\* What an operation has found under the lock is so until it commits.
LockHolds ==
  /\ tx.op = "none" => tx = NoTx
  /\ tx.op = "claim" => Usable /\ ~ Read.legacy
  /\ tx.op \in Calls =>
       /\ exec.run.status = "running" /\ tx.key.epoch = exec.epoch
       /\ tx.key.seen = changes /\ tx.key.scope = connector.sources
  /\ tx.op = "succeeded" => tx.version \in Versions

\* A scan of an older program bars every claim, and no run of this one looks like it.
LegacyBars ==
  /\ inherited => Read.legacy
  /\ exec.run.status = "none" => exec.run = NoRun

SnapshotIsOld == connector.current # Nil => snapshot[connector.current].seen <= changes

NInv == /\ NotionTypes /\ KeysSee /\ LockHolds /\ LegacyBars /\ SnapshotIsOld
        /\ PolicyTellsRun /\ LastGoodIsSound

-----------------------------------------------------------------------------
(* Operators.                                                              *)

ExecType == [selection : Nat, authorization : Nat, epoch : Nat, legacy : BOOLEAN, run : SyncRun]

\* Reading the state of the runs remembers an older scan and changes nothing else.
LEMMA ReadRemembers ==
  ASSUME NotionTypes
  PROVE  /\ Read \in ExecType
         /\ Read.selection = exec.selection /\ Read.authorization = exec.authorization
         /\ Read.epoch = exec.epoch /\ Read.run = exec.run
         /\ Read.legacy <=> exec.legacy \/ (exec.run = NoRun /\ policy.status = "syncing")
BY DEF NotionTypes, Read, ExecType

\* A change ends the run that is going on, and leaves no run where there was none.
LEMMA InvalidatedEnds ==
  ASSUME NotionTypes, NEW s \in Nat, NEW a \in Nat
  PROVE  /\ Invalidated(s, a) \in ExecType
         /\ Invalidated(s, a).epoch = exec.epoch /\ Invalidated(s, a).run.epoch = exec.run.epoch
         /\ Invalidated(s, a).run.status # "running"
         /\ Invalidated(s, a).legacy = Read.legacy
         /\ exec.run = NoRun => Invalidated(s, a).run = NoRun
         /\ Invalidated(s, a).run.status = "none" => exec.run.status = "none"
<1>1. /\ Read \in ExecType /\ Read.run = exec.run /\ Read.epoch = exec.epoch
  BY ReadRemembers
<1> DEFINE ended == [exec.run EXCEPT !.status = IF @ = "running" THEN "invalidated" ELSE @]
<1>2. /\ ended \in SyncRun /\ ended.epoch = exec.run.epoch /\ ended.status # "running"
      /\ ended.status = "none" => exec.run.status = "none"
  BY DEF NotionTypes, SyncRun
<1>0. exec.run = NoRun => ended = NoRun
  BY DEF NoRun
<1>3. Invalidated(s, a) = [selection |-> Read.selection + s,
                           authorization |-> Read.authorization + a,
                           epoch |-> exec.epoch, legacy |-> Read.legacy, run |-> ended]
  <2>1. Read = [selection |-> Read.selection, authorization |-> Read.authorization,
                epoch |-> exec.epoch, legacy |-> Read.legacy, run |-> exec.run]
    BY <1>1 DEF ExecType
  <2> DEFINE r == Read
  <2>2. Invalidated(s, a) = [r EXCEPT !.selection = r.selection + s,
                               !.authorization = r.authorization + a,
                               !.run = [r.run EXCEPT !.status =
                                          IF r.run.status = "running" THEN "invalidated"
                                          ELSE r.run.status]]
    BY <1>1 DEF Invalidated, ExecType
  <2> QED
    BY <1>1, <2>1, <2>2
<1>4. Read.selection \in Nat /\ Read.authorization \in Nat /\ Read.legacy \in BOOLEAN /\ exec.epoch \in Nat
  BY <1>1 DEF ExecType
<1> HIDE DEF ended
<1>5. Invalidated(s, a) \in ExecType
  BY <1>2, <1>3, <1>4 DEF ExecType
<1> QED
  BY <1>0, <1>2, <1>3, <1>5

\* The rule that is saved is typed, and shows a run exactly when there is one.
LEMMA RuledShows ==
  ASSUME NInv, NEW rule \in {"keep", "on", "off"}
  PROVE  /\ Ruled(rule) \in [enabled : BOOLEAN,
                             status : {"applied", "syncing", "disabled", "error"},
                             success : {Never} \cup Nat]
         /\ Ruled(rule).success = policy.success
         /\ Ruled(rule).status = "syncing" =>
              exec.run.status = "running" \/ (policy.status = "syncing" /\ rule = "keep")
         /\ exec.run.status = "running" /\ Ruled(rule).enabled => Ruled(rule).status = "syncing"
         /\ Ruled(rule).status \in {"applied", "error"} => Ruled(rule).enabled
<1>1. /\ policy \in [enabled : BOOLEAN, status : {"applied", "syncing", "disabled", "error"},
                     success : {Never} \cup Nat]
      /\ PolicyTellsRun
  BY DEF NInv, NotionTypes
<1>2. CASE rule = "keep"
  BY <1>1, <1>2 DEF Ruled, PolicyTellsRun
<1>3. CASE rule = "off"
  BY <1>1, <1>3 DEF Ruled
<1>4. CASE rule = "on"
  BY <1>1, <1>4 DEF Ruled
<1> QED
  BY <1>2, <1>3, <1>4
-----------------------------------------------------------------------------
(* The steps.                                                              *)

SyncStep == NInv' /\ Fenced

LEMMA InitHolds == NotionInit => NInv
<1> SUFFICES ASSUME NotionInit PROVE NInv
  OBVIOUS
<1>1. NotionTypes
  <2>1. exec.run \in SyncRun /\ tx.key \in Key
    BY DEF NotionInit, NoRun, SyncRun, NoTx, NoKey, Key
  <2> QED
    BY <2>1 DEF NotionInit, NotionTypes, NoTx
<1>2. KeysSee /\ LockHolds /\ LegacyBars /\ SnapshotIsOld
  BY DEF NotionInit, KeysSee, LockHolds, LegacyBars, SnapshotIsOld, NoRun, NoTx, Calls, Read
<1>3. PolicyTellsRun
  BY DEF NotionInit, PolicyTellsRun, NoRun
<1>4. LastGoodIsSound
  BY DEF NotionInit, LastGoodIsSound
<1> QED
  BY <1>1, <1>2, <1>3, <1>4 DEF NInv

\* Nothing a caller has under the lock is disturbed by the user's writes: they wait for it.
LEMMA PatchHolds ==
  ASSUME NInv, NEW rule \in {"keep", "on", "off"}, NEW auth \in {"pending", "authenticated"},
         NEW saved \in BOOLEAN, Patch(rule, auth, saved)
  PROVE  SyncStep
<1>1. /\ NotionTypes /\ KeysSee /\ LegacyBars /\ SnapshotIsOld /\ PolicyTellsRun /\ LastGoodIsSound
      /\ tx = NoTx /\ UNCHANGED <<snapshot, keys, tx, inherited>>
      /\ connector' = [connector EXCEPT !.auth = auth]
  BY DEF NInv, Patch
<1>2. NoTx.op = "none" /\ NoTx.op \notin Calls
  BY DEF NoTx, Calls
<1>3. Fenced
  BY <1>1, <1>2 DEF Fenced, Calls
<1>4. LockHolds'
  BY <1>1, <1>2 DEF LockHolds
<1>5. CASE saved \/ auth # connector.auth
  <2>1. /\ policy' = Settled(Ruled(rule)) /\ exec' = Invalidated(0, 1) /\ changes' = changes + 1
    BY <1>5 DEF Patch
  <2>2. /\ policy'.success = policy.success
        /\ policy' \in [enabled : BOOLEAN, status : {"applied", "disabled"},
                        success : {Never} \cup Nat]
        /\ policy'.status = "applied" => policy'.enabled
    BY <2>1, RuledShows DEF Settled
  <2>3. /\ exec' \in ExecType /\ exec'.epoch = exec.epoch /\ exec'.run.epoch = exec.run.epoch
        /\ exec'.run.status # "running" /\ exec'.legacy = Read.legacy
        /\ exec.run = NoRun => exec'.run = NoRun
        /\ exec'.run.status = "none" => exec.run.status = "none"
    BY <1>1, <2>1, InvalidatedEnds
  <2>4. NotionTypes'
    BY <1>1, <2>1, <2>2, <2>3 DEF NotionTypes, ExecType
  <2>5. KeysSee'
    BY <1>1, <2>3 DEF KeysSee
  <2>6. LegacyBars'
    BY <1>1, <2>3 DEF LegacyBars, Read, ExecType
  <2>7. SnapshotIsOld' /\ LastGoodIsSound'
    BY <1>1, <2>1, <2>2 DEF SnapshotIsOld, LastGoodIsSound, NotionTypes
  <2>8. PolicyTellsRun'
    BY <1>1, <2>2, <2>3 DEF PolicyTellsRun
  <2> QED
    BY <1>3, <1>4, <2>4, <2>5, <2>6, <2>7, <2>8 DEF SyncStep, NInv
<1>6. CASE ~ saved /\ auth = connector.auth
  <2>1. policy' = Ruled(rule) /\ exec' = Read /\ changes' = changes /\ connector' = connector
    BY <1>1, <1>6 DEF Patch, NotionTypes
  <2>2. /\ exec' \in ExecType /\ exec'.run = exec.run /\ exec'.epoch = exec.epoch
        /\ exec'.selection = exec.selection /\ exec'.authorization = exec.authorization
        /\ exec'.legacy <=> Read.legacy
    BY <1>1, <2>1, ReadRemembers
  <2>3. NotionTypes'
    BY <1>1, <2>1, <2>2, RuledShows DEF NotionTypes, ExecType
  <2>4. KeysSee'
    BY <1>1, <2>1, <2>2 DEF KeysSee
  <2>5. LegacyBars'
    BY <1>1, <2>2 DEF LegacyBars, Read, ExecType
  <2>6. SnapshotIsOld' /\ LastGoodIsSound'
    BY <1>1, <2>1, RuledShows DEF SnapshotIsOld, LastGoodIsSound
  <2>7. PolicyTellsRun'
    BY <1>1, <2>1, <2>2, RuledShows DEF PolicyTellsRun, Usable
  <2> QED
    BY <1>3, <1>4, <2>3, <2>4, <2>5, <2>6, <2>7 DEF SyncStep, NInv
<1> QED
  BY <1>5, <1>6

\* A selection that is written makes the scan that goes on worthless.
LEMMA ScopeHolds ==
  ASSUME NInv, NEW new \in SUBSET Sources, ChangeScope(new)
  PROVE  SyncStep
<1>1. /\ NotionTypes /\ KeysSee /\ LegacyBars /\ SnapshotIsOld /\ PolicyTellsRun /\ LastGoodIsSound
      /\ tx = NoTx /\ UNCHANGED <<snapshot, keys, tx, inherited>>
      /\ connector' = [connector EXCEPT !.sources = new, !.current = IF new = {} THEN Nil ELSE @]
      /\ exec' = Invalidated(1, 0) /\ changes' = changes + 1
  BY DEF NInv, ChangeScope
<1>2. NoTx.op = "none" /\ NoTx.op \notin Calls
  BY DEF NoTx, Calls
<1>3. /\ policy'.success = (IF new = {} THEN Never ELSE policy.success)
      /\ policy' \in [enabled : BOOLEAN, status : {"applied", "disabled"},
                      success : {Never} \cup Nat]
      /\ policy'.status = "applied" => policy'.enabled
  BY <1>1 DEF ChangeScope, Settled, NotionTypes
<1>4. /\ exec' \in ExecType /\ exec'.epoch = exec.epoch /\ exec'.run.epoch = exec.run.epoch
      /\ exec'.run.status # "running" /\ exec'.legacy = Read.legacy
      /\ exec.run = NoRun => exec'.run = NoRun
      /\ exec'.run.status = "none" => exec.run.status = "none"
  BY <1>1, InvalidatedEnds
<1>5. NotionTypes'
  <2>1. connector' \in [auth : {"pending", "authenticated"}, sources : SUBSET Sources,
                        current : Versions \cup {Nil}]
    BY <1>1 DEF NotionTypes
  <2>2. /\ policy' \in [enabled : BOOLEAN, status : {"applied", "syncing", "disabled", "error"},
                        success : {Never} \cup Nat]
        /\ exec' \in ExecType
    BY <1>3, <1>4
  <2>3. changes' \in Nat
    BY <1>1 DEF NotionTypes
  <2> QED
    BY <1>1, <2>1, <2>2, <2>3 DEF NotionTypes, ExecType
<1>6. KeysSee' /\ LockHolds'
  BY <1>1, <1>2, <1>4 DEF KeysSee, LockHolds
<1>7. LegacyBars'
  BY <1>1, <1>4 DEF LegacyBars, Read, ExecType
<1>8. SnapshotIsOld' /\ LastGoodIsSound'
  BY <1>1, <1>3 DEF SnapshotIsOld, LastGoodIsSound, NotionTypes
<1>9. PolicyTellsRun'
  BY <1>1, <1>3, <1>4 DEF PolicyTellsRun
<1>10. Fenced
  BY <1>1, <1>2 DEF Fenced, Calls
<1> QED
  BY <1>5, <1>6, <1>7, <1>8, <1>9, <1>10 DEF SyncStep, NInv
\* A claim is decided on a connector that is usable and no older scan bars.
LEMMA BeginClaimHolds ==
  ASSUME NInv, NEW w \in Workers, NEW manual \in BOOLEAN, BeginClaim(w, manual)
  PROVE  SyncStep
<1>1. /\ NotionTypes /\ KeysSee /\ LegacyBars /\ SnapshotIsOld /\ PolicyTellsRun /\ LastGoodIsSound
      /\ tx' = [NoTx EXCEPT !.op = "claim", !.worker = w]
      /\ UNCHANGED <<connector, exec, policy, snapshot, keys, changes, inherited>>
      /\ Usable /\ ~ Read.legacy
  BY DEF NInv, BeginClaim
<1>2. /\ tx' \in [op : {"claim"}, worker : Workers \cup {Nil}, key : Key,
                  version : Versions \cup {Nil}, age : Nat]
  <2>1. NoTx.key \in Key
    BY DEF NoTx, NoKey, Key
  <2> QED
    BY <1>1, <2>1 DEF NoTx
<1>3. NotionTypes'
  BY <1>1, <1>2 DEF NotionTypes
<1>4. KeysSee' /\ LegacyBars' /\ SnapshotIsOld' /\ PolicyTellsRun' /\ LastGoodIsSound'
  BY <1>1 DEF KeysSee, LegacyBars, SnapshotIsOld, PolicyTellsRun, LastGoodIsSound, Usable, Read
<1>5. LockHolds'
  BY <1>1, <1>2 DEF LockHolds, Usable, Read, Calls
<1>6. Fenced
  BY <1>1 DEF Fenced, Calls
<1> QED
  BY <1>3, <1>4, <1>5, <1>6 DEF SyncStep, NInv

\* A key that matches is of the run that goes on, so it has seen what is selected now.
LEMMA BeginCallHolds ==
  ASSUME NInv, NEW k \in keys, NEW op \in Calls, NEW v \in Versions \cup {Nil},
         BeginCall(k, op, v), op = "succeeded" => v \in Versions
  PROVE  SyncStep
<1>1. /\ NotionTypes /\ KeysSee /\ LegacyBars /\ SnapshotIsOld /\ PolicyTellsRun /\ LastGoodIsSound
      /\ tx' = [op |-> op, worker |-> k.worker, key |-> k, version |-> v, age |-> 0]
      /\ UNCHANGED <<connector, exec, policy, snapshot, keys, changes, inherited>>
      /\ exec.run.epoch = k.epoch /\ exec.run.status = "running"
  BY DEF NInv, BeginCall, Matches
<1>2. k \in Key
  BY <1>1 DEF NotionTypes
<1>3. NotionTypes'
  BY <1>1, <1>2 DEF NotionTypes, Key
<1>4. KeysSee' /\ LegacyBars' /\ SnapshotIsOld' /\ PolicyTellsRun' /\ LastGoodIsSound'
  BY <1>1 DEF KeysSee, LegacyBars, SnapshotIsOld, PolicyTellsRun, LastGoodIsSound, Usable, Read
<1>5. LockHolds'
  <2>1. k.epoch = exec.epoch /\ k.seen = changes /\ k.scope = connector.sources
    BY <1>1 DEF KeysSee
  <2> QED
    BY <1>1, <2>1 DEF LockHolds, Calls
<1>6. Fenced
  BY <1>1 DEF Fenced, Calls
<1> QED
  BY <1>3, <1>4, <1>5, <1>6 DEF SyncStep, NInv

LEMMA BeginsHold ==
  ASSUME NInv, NEW k \in keys,
         BeginRenew(k) \/ BeginFailure(k) \/ \E v \in Versions : BeginSuccess(k, v)
  PROVE  SyncStep
<1>1. CASE BeginRenew(k)
  BY <1>1, BeginCallHolds DEF BeginRenew, Calls
<1>2. CASE BeginFailure(k)
  BY <1>2, BeginCallHolds DEF BeginFailure, Calls
<1>3. CASE \E v \in Versions : BeginSuccess(k, v)
  BY <1>3, BeginCallHolds DEF BeginSuccess, Calls
<1> QED
  BY <1>1, <1>2, <1>3

\* Only keys of the new epoch can be of the new run.
LEMMA CommitClaimHolds ==
  ASSUME NInv, NEW heard \in BOOLEAN, CommitClaim(heard)
  PROVE  SyncStep
<1> DEFINE epoch == exec.epoch + 1
           fresh == [epoch |-> epoch, worker |-> tx.worker,
                     scope |-> connector.sources, seen |-> changes]
           claimed == [epoch |-> epoch, worker |-> tx.worker, selection |-> exec.selection,
                       authorization |-> exec.authorization, lease |-> NewLease,
                       status |-> "running"]
<1>1. /\ NotionTypes /\ KeysSee /\ LegacyBars /\ SnapshotIsOld /\ PolicyTellsRun /\ LastGoodIsSound
      /\ tx.op = "claim" /\ NewLease > 0 /\ tx' = NoTx
      /\ exec' = [Read EXCEPT !.epoch = epoch, !.run = claimed]
      /\ policy' = Transition("started")
      /\ UNCHANGED <<connector, snapshot, changes, inherited>>
      /\ Usable /\ ~ Read.legacy
  BY DEF NInv, CommitClaim, LockHolds
<1>2. keys' \subseteq keys \cup {fresh}
  BY DEF CommitClaim
<1>3. exec.epoch \in Nat /\ fresh \in Key /\ claimed \in SyncRun
  BY <1>1, NotionAssumption DEF NotionTypes, Key, SyncRun, NewLease
<1>4. /\ exec' \in ExecType /\ exec'.epoch = epoch /\ exec'.run = claimed
      /\ exec'.selection = exec.selection /\ exec'.authorization = exec.authorization
  <2>1. Read \in ExecType /\ Read.selection = exec.selection
        /\ Read.authorization = exec.authorization
    BY <1>1, ReadRemembers
  <2>2. epoch \in Nat
    BY <1>3
  <2> HIDE DEF claimed, epoch
  <2>3. exec' \in ExecType
    BY <1>1, <1>3, <2>1, <2>2 DEF ExecType
  <2> QED
    BY <1>1, <2>1, <2>3 DEF ExecType
<1>5. /\ policy' \in [enabled : BOOLEAN, status : {"syncing"}, success : {Never} \cup Nat]
      /\ policy'.success = policy.success
  BY <1>1 DEF Transition, NotionTypes
<1>6. NoTx \in [op : {"none"}, worker : Workers \cup {Nil}, key : Key,
                version : Versions \cup {Nil}, age : Nat]
  BY DEF NoTx, NoKey, Key
<1>7. NotionTypes'
  BY <1>1, <1>2, <1>3, <1>4, <1>5, <1>6 DEF NotionTypes, ExecType
<1>8. KeysSee'
  BY <1>1, <1>2, <1>3, <1>4 DEF KeysSee, Key, NotionTypes
<1>9. LockHolds'
  BY <1>1, <1>6 DEF LockHolds, Calls
<1>10. LegacyBars'
  BY <1>1, <1>4 DEF LegacyBars
<1>11. SnapshotIsOld' /\ LastGoodIsSound'
  BY <1>1, <1>5 DEF SnapshotIsOld, LastGoodIsSound
<1>12. PolicyTellsRun'
  BY <1>1, <1>4, <1>5 DEF PolicyTellsRun, Usable, LegacyBars
<1>13. Fenced
  BY <1>1 DEF Fenced, Calls
<1> QED
  BY <1>7, <1>8, <1>9, <1>10, <1>11, <1>12, <1>13 DEF SyncStep, NInv
\* What every operation has before it commits, and how little is left of it after.
LEMMA CallsEnd ==
  ASSUME NInv, tx.op \in Calls
  PROVE  /\ exec.run.status = "running" /\ tx.key.epoch = exec.epoch
         /\ tx.key.seen = changes /\ tx.key.scope = connector.sources
         /\ \A k \in keys : k.epoch <= tx.key.epoch
         /\ Usable /\ exec.run # NoRun /\ ~ inherited
         /\ NoTx \in [op : {"none"}, worker : Workers \cup {Nil}, key : Key,
                      version : Versions \cup {Nil}, age : Nat]
<1>1. NotionTypes /\ KeysSee /\ LockHolds /\ PolicyTellsRun
  BY DEF NInv
<1>2. NoTx \in [op : {"none"}, worker : Workers \cup {Nil}, key : Key,
                version : Versions \cup {Nil}, age : Nat]
  BY DEF NoTx, NoKey, Key
<1>3. exec.run.status = "running" /\ exec.run # NoRun
  BY <1>1 DEF LockHolds, NoRun
<1> QED
  BY <1>1, <1>2, <1>3 DEF LockHolds, KeysSee, PolicyTellsRun

LEMMA CommitRenewHolds == ASSUME NInv, CommitRenew PROVE SyncStep
<1> DEFINE renewed == [exec.run EXCEPT !.lease = NewLease]
<1>1. /\ NotionTypes /\ KeysSee /\ LegacyBars /\ SnapshotIsOld /\ PolicyTellsRun /\ LastGoodIsSound
      /\ tx.op = "renew" /\ tx.op \in Calls /\ NewLease > 0 /\ tx' = NoTx
      /\ UNCHANGED <<connector, policy, snapshot, keys, changes, inherited>>
  BY DEF NInv, CommitRenew, Calls
<1>2. /\ exec.run.status = "running" /\ tx.key.epoch = exec.epoch /\ tx.key.seen = changes
      /\ \A k \in keys : k.epoch <= tx.key.epoch
      /\ ~ inherited
      /\ NoTx \in [op : {"none"}, worker : Workers \cup {Nil}, key : Key,
                   version : Versions \cup {Nil}, age : Nat]
  BY <1>1, CallsEnd
<1>3. /\ renewed \in SyncRun /\ renewed.epoch = exec.run.epoch /\ renewed.status = exec.run.status
      /\ renewed.selection = exec.run.selection /\ renewed.authorization = exec.run.authorization
  BY <1>1, NotionAssumption DEF NotionTypes, SyncRun, NewLease
<1>4. /\ exec' \in ExecType /\ exec'.run = renewed /\ exec'.epoch = exec.epoch
      /\ exec'.selection = exec.selection /\ exec'.authorization = exec.authorization
  <2>1. /\ Read \in ExecType /\ Read.run = exec.run /\ Read.epoch = exec.epoch
        /\ Read.selection = exec.selection /\ Read.authorization = exec.authorization
    BY <1>1, ReadRemembers
  <2>2. exec' = [Read EXCEPT !.run = renewed]
    BY <2>1 DEF CommitRenew
  <2> HIDE DEF renewed
  <2> QED
    BY <1>3, <2>1, <2>2 DEF ExecType
<1>5. NotionTypes'
  BY <1>1, <1>2, <1>4 DEF NotionTypes, ExecType
<1> HIDE DEF renewed
<1>6. KeysSee' /\ LockHolds' /\ LegacyBars'
  BY <1>1, <1>2, <1>3, <1>4 DEF KeysSee, LockHolds, LegacyBars, Calls
<1>7. SnapshotIsOld' /\ LastGoodIsSound' /\ PolicyTellsRun'
  BY <1>1, <1>2, <1>3, <1>4 DEF SnapshotIsOld, LastGoodIsSound, PolicyTellsRun, Usable
<1>8. Fenced
  BY <1>1, <1>2 DEF Fenced, Calls
<1> QED
  BY <1>5, <1>6, <1>7, <1>8 DEF SyncStep, NInv

\* A run that ends by its worker's word ends in any status but "running".
LEMMA RunEnded ==
  ASSUME NotionTypes, NEW s \in {"succeeded", "failed"}, exec' = [Read EXCEPT !.run.status = s]
  PROVE  /\ exec' \in ExecType /\ exec'.epoch = exec.epoch
         /\ exec'.run.epoch = exec.run.epoch /\ exec'.run.status = s
<1> DEFINE ended == [exec.run EXCEPT !.status = s]
<1>1. /\ Read \in ExecType /\ Read.run = exec.run /\ Read.epoch = exec.epoch
  BY ReadRemembers
<1>2. ended \in SyncRun /\ ended.epoch = exec.run.epoch /\ ended.status = s
  BY DEF NotionTypes, SyncRun
<1>3. exec' = [Read EXCEPT !.run = ended]
  BY <1>1
<1> HIDE DEF ended
<1> QED
  BY <1>1, <1>2, <1>3 DEF ExecType

\* What becomes the last snapshot is of what is selected, as its run has seen it.
LEMMA CommitSuccessHolds == ASSUME NInv, CommitSuccess PROVE SyncStep
<1> DEFINE stored == [scope |-> tx.key.scope, seen |-> tx.key.seen]
<1>1. /\ NotionTypes /\ KeysSee /\ LegacyBars /\ SnapshotIsOld /\ PolicyTellsRun
      /\ tx.op = "succeeded" /\ tx.op \in Calls /\ exec.run.lease > 0 /\ tx' = NoTx
      /\ tx.version \in Versions
      /\ snapshot' = [snapshot EXCEPT ![tx.version] = stored]
      /\ connector' = [connector EXCEPT !.current = tx.version, !.auth = "authenticated"]
      /\ UNCHANGED <<keys, changes, inherited>>
  BY DEF NInv, CommitSuccess, Calls, LockHolds, InTime
<1>2. /\ exec.run.status = "running" /\ tx.key.epoch = exec.epoch
      /\ tx.key.seen = changes /\ tx.key.scope = connector.sources
      /\ \A k \in keys : k.epoch <= tx.key.epoch
      /\ connector.sources # {} /\ ~ inherited
      /\ NoTx \in [op : {"none"}, worker : Workers \cup {Nil}, key : Key,
                   version : Versions \cup {Nil}, age : Nat]
  BY <1>1, CallsEnd DEF Usable
<1>3. /\ exec' \in ExecType /\ exec'.epoch = exec.epoch /\ exec'.run.epoch = exec.run.epoch
      /\ exec'.run.status = "succeeded"
  BY <1>1, RunEnded DEF CommitSuccess
<1>4. /\ policy' \in [enabled : BOOLEAN, status : {"applied", "disabled"}, success : Nat]
      /\ policy'.status = "applied" => policy'.enabled
  BY <1>1, NotionAssumption DEF CommitSuccess, Transition, NotionTypes
<1>5. stored \in [scope : SUBSET Sources, seen : Nat]
  BY <1>1 DEF NotionTypes, Key
<1>6. /\ snapshot' \in [Versions -> {Nil} \cup [scope : SUBSET Sources, seen : Nat]]
      /\ snapshot'[tx.version] = stored
  BY <1>1, <1>5 DEF NotionTypes
<1>7. /\ connector' \in [auth : {"pending", "authenticated"}, sources : SUBSET Sources,
                         current : Versions \cup {Nil}]
      /\ connector'.current = tx.version /\ connector'.sources = connector.sources
  BY <1>1 DEF NotionTypes
<1>8. NotionTypes'
  <2>1. /\ policy' \in [enabled : BOOLEAN, status : {"applied", "syncing", "disabled", "error"},
                        success : {Never} \cup Nat]
    BY <1>4
  <2> QED
    BY <1>1, <1>2, <1>3, <1>6, <1>7, <2>1 DEF NotionTypes, ExecType
<1>9. KeysSee' /\ LockHolds' /\ LegacyBars'
  BY <1>1, <1>2, <1>3 DEF KeysSee, LockHolds, LegacyBars, Calls
<1>10. SnapshotIsOld'
  BY <1>1, <1>2, <1>6, <1>7 DEF SnapshotIsOld, NotionTypes
<1>11. LastGoodIsSound'
  <2>1. stored # Nil /\ tx.version # Nil
    BY <1>1, <1>5, NotionAssumption
  <2>2. policy'.success # Never
    BY <1>4 DEF Never
  <2> QED
    BY <1>2, <1>6, <1>7, <2>1, <2>2 DEF LastGoodIsSound
<1>12. PolicyTellsRun'
  BY <1>1, <1>2, <1>3, <1>4 DEF PolicyTellsRun
<1>13. Fenced
  BY <1>1, <1>2 DEF Fenced, Calls
<1> QED
  BY <1>8, <1>9, <1>10, <1>11, <1>12, <1>13 DEF SyncStep, NInv

LEMMA CommitFailureHolds == ASSUME NInv, CommitFailure PROVE SyncStep
<1>1. /\ NotionTypes /\ KeysSee /\ LegacyBars /\ SnapshotIsOld /\ PolicyTellsRun /\ LastGoodIsSound
      /\ tx.op = "failed" /\ tx.op \in Calls /\ exec.run.lease > 0 /\ tx' = NoTx
      /\ UNCHANGED <<connector, snapshot, keys, changes, inherited>>
  BY DEF NInv, CommitFailure, Calls, InTime
<1>2. /\ exec.run.status = "running" /\ tx.key.epoch = exec.epoch /\ tx.key.seen = changes
      /\ \A k \in keys : k.epoch <= tx.key.epoch
      /\ ~ inherited
      /\ NoTx \in [op : {"none"}, worker : Workers \cup {Nil}, key : Key,
                   version : Versions \cup {Nil}, age : Nat]
  BY <1>1, CallsEnd
<1>3. /\ exec' \in ExecType /\ exec'.epoch = exec.epoch /\ exec'.run.epoch = exec.run.epoch
      /\ exec'.run.status = "failed"
  BY <1>1, RunEnded DEF CommitFailure
<1>4. /\ policy' \in [enabled : BOOLEAN, status : {"error", "disabled"},
                      success : {Never} \cup Nat]
      /\ policy'.success = policy.success
      /\ policy'.status = "error" => policy'.enabled
  BY <1>1 DEF CommitFailure, Transition, NotionTypes
<1>5. NotionTypes'
  BY <1>1, <1>2, <1>3, <1>4 DEF NotionTypes, ExecType
<1>6. KeysSee' /\ LockHolds' /\ LegacyBars'
  BY <1>1, <1>2, <1>3 DEF KeysSee, LockHolds, LegacyBars, Calls
<1>7. SnapshotIsOld' /\ LastGoodIsSound' /\ PolicyTellsRun'
  BY <1>1, <1>2, <1>3, <1>4 DEF SnapshotIsOld, LastGoodIsSound, PolicyTellsRun
<1>8. Fenced
  BY <1>1, <1>2 DEF Fenced, Calls
<1> QED
  BY <1>5, <1>6, <1>7, <1>8 DEF SyncStep, NInv

\* A transaction that is given up, or a process that ends, takes nothing of the row along.
LEMMA AbortHolds == ASSUME NInv, Abort PROVE SyncStep
<1>1. /\ NotionTypes /\ KeysSee /\ LegacyBars /\ SnapshotIsOld /\ PolicyTellsRun /\ LastGoodIsSound
      /\ tx' = NoTx
      /\ UNCHANGED <<connector, exec, policy, snapshot, keys, changes, inherited>>
  BY DEF NInv, Abort
<1>2. NoTx \in [op : {"none"}, worker : Workers \cup {Nil}, key : Key,
                version : Versions \cup {Nil}, age : Nat]
  BY DEF NoTx, NoKey, Key
<1>3. NotionTypes' /\ LockHolds'
  BY <1>1, <1>2 DEF NotionTypes, LockHolds, Calls
<1>4. KeysSee' /\ LegacyBars' /\ SnapshotIsOld' /\ PolicyTellsRun' /\ LastGoodIsSound'
  BY <1>1 DEF KeysSee, LegacyBars, SnapshotIsOld, PolicyTellsRun, LastGoodIsSound, Usable, Read
<1> QED
  BY <1>1, <1>3, <1>4 DEF SyncStep, NInv, Fenced

LEMMA CrashHolds == ASSUME NInv, NEW w \in Workers, Crash(w) PROVE SyncStep
<1>1. /\ NotionTypes /\ KeysSee /\ LockHolds /\ LegacyBars /\ SnapshotIsOld /\ PolicyTellsRun
      /\ LastGoodIsSound
      /\ keys' \subseteq keys
      /\ UNCHANGED <<connector, exec, policy, snapshot, tx, changes, inherited>>
  BY DEF NInv, Crash
<1>2. NotionTypes' /\ KeysSee'
  BY <1>1 DEF NotionTypes, KeysSee
<1>3. LockHolds' /\ LegacyBars' /\ SnapshotIsOld' /\ PolicyTellsRun' /\ LastGoodIsSound'
  BY <1>1 DEF LockHolds, LegacyBars, SnapshotIsOld, PolicyTellsRun, LastGoodIsSound, Usable, Read
<1> QED
  BY <1>1, <1>2, <1>3 DEF SyncStep, NInv, Fenced

\* Time ends leases, makes successes old and operations long, and changes nothing else.
LEMMA TickHolds == ASSUME NInv, Tick PROVE SyncStep
<1> DEFINE later == [exec.run EXCEPT !.lease = IF @ > 0 THEN @ - 1 ELSE 0]
<1>1. /\ NotionTypes /\ KeysSee /\ LockHolds /\ LegacyBars /\ SnapshotIsOld /\ PolicyTellsRun
      /\ LastGoodIsSound
      /\ policy' = [policy EXCEPT !.success = IF @ \in {Never, Interval} THEN @ ELSE @ + 1]
      /\ tx' = [tx EXCEPT !.age = IF tx = NoTx \/ @ = SyncLease THEN @ ELSE @ + 1]
      /\ UNCHANGED <<connector, snapshot, keys, changes, inherited>>
  BY DEF NInv, Tick
<1>2. /\ later \in SyncRun /\ later.epoch = exec.run.epoch /\ later.status = exec.run.status
      /\ later.selection = exec.run.selection /\ later.authorization = exec.run.authorization
  BY <1>1 DEF NotionTypes, SyncRun
<1>3. exec.run = NoRun => later = NoRun
  BY DEF NoRun
<1>4. /\ exec' \in ExecType /\ exec'.run = later /\ exec'.epoch = exec.epoch
      /\ exec'.selection = exec.selection /\ exec'.authorization = exec.authorization
      /\ exec'.legacy = exec.legacy
  <2>1. exec \in ExecType /\ exec' = [exec EXCEPT !.run = later]
    BY <1>1 DEF NotionTypes, ExecType, Tick
  <2> HIDE DEF later
  <2> QED
    BY <1>2, <2>1 DEF ExecType
<1> HIDE DEF later
<1>5. /\ policy' \in [enabled : BOOLEAN, status : {"applied", "syncing", "disabled", "error"},
                      success : {Never} \cup Nat]
      /\ policy'.enabled = policy.enabled /\ policy'.status = policy.status
      /\ policy'.success = Never <=> policy.success = Never
  BY <1>1, NotionAssumption DEF NotionTypes, Never
<1>6. /\ tx' \in [op : {"none", "claim"} \cup Calls, worker : Workers \cup {Nil}, key : Key,
                  version : Versions \cup {Nil}, age : Nat]
      /\ tx'.op = tx.op /\ tx'.key = tx.key /\ tx'.version = tx.version
      /\ tx = NoTx => tx' = NoTx
  <2>1. tx \in [op : {"none", "claim"} \cup Calls, worker : Workers \cup {Nil}, key : Key,
                version : Versions \cup {Nil}, age : Nat]
    BY <1>1 DEF NotionTypes
  <2>2. tx = NoTx => tx' = NoTx
    BY <1>1 DEF NoTx
  <2> QED
    BY <1>1, <2>1, <2>2
<1>7. NotionTypes'
  BY <1>1, <1>4, <1>5, <1>6 DEF NotionTypes, ExecType
<1>8. KeysSee' /\ SnapshotIsOld' /\ LastGoodIsSound'
  BY <1>1, <1>2, <1>4, <1>5 DEF KeysSee, SnapshotIsOld, LastGoodIsSound
<1>9. PolicyTellsRun'
  BY <1>1, <1>2, <1>3, <1>4, <1>5 DEF PolicyTellsRun, Usable
<1>10. later = NoRun => exec.run = NoRun
  BY <1>1, <1>2 DEF LegacyBars, NoRun
<1>11. LegacyBars'
  BY <1>1, <1>2, <1>3, <1>4, <1>5 DEF LegacyBars, Read, NotionTypes, ExecType
<1>12. LockHolds'
  BY <1>1, <1>2, <1>4, <1>5, <1>6, <1>10 DEF LockHolds, Usable, Read, NotionTypes, ExecType
<1>13. Fenced
  BY <1>1, <1>6 DEF Fenced, NoTx, Calls
<1> QED
  BY <1>7, <1>8, <1>9, <1>11, <1>12, <1>13 DEF SyncStep, NInv
LEMMA NextHolds == ASSUME NInv, NotionNext PROVE SyncStep
<1>1. CASE \E rule \in {"keep", "on", "off"}, auth \in {"pending", "authenticated"},
              saved \in BOOLEAN : Patch(rule, auth, saved)
  BY <1>1, PatchHolds
<1>2. CASE ReplaceResources
  BY <1>2, ScopeHolds DEF ReplaceResources
<1>3. CASE DeleteResource
  <2>1. PICK r \in connector.sources : ChangeScope(connector.sources \ {r})
    BY <1>3 DEF DeleteResource
  <2>2. connector.sources \ {r} \in SUBSET Sources
    BY DEF NInv, NotionTypes
  <2> QED
    BY <2>1, <2>2, ScopeHolds
<1>4. CASE \E w \in Workers, manual \in BOOLEAN : BeginClaim(w, manual)
  BY <1>4, BeginClaimHolds
<1>5. CASE \E k \in keys :
             BeginRenew(k) \/ BeginFailure(k) \/ \E v \in Versions : BeginSuccess(k, v)
  BY <1>5, BeginsHold
<1>6. CASE \E heard \in BOOLEAN : CommitClaim(heard)
  BY <1>6, CommitClaimHolds
<1>7. CASE CommitRenew
  BY <1>7, CommitRenewHolds
<1>8. CASE CommitSuccess
  BY <1>8, CommitSuccessHolds
<1>9. CASE CommitFailure
  BY <1>9, CommitFailureHolds
<1>10. CASE Abort
  BY <1>10, AbortHolds
<1>11. CASE \E w \in Workers : Crash(w)
  BY <1>11, CrashHolds
<1>12. CASE Tick
  BY <1>12, TickHolds
<1> QED
  BY <1>1, <1>2, <1>3, <1>4, <1>5, <1>6, <1>7, <1>8, <1>9, <1>10, <1>11, <1>12 DEF NotionNext

LEMMA StutterHolds == ASSUME NInv, UNCHANGED notionVars PROVE SyncStep
<1>1. NInv' /\ exec' = exec
  BY DEF NInv, notionVars, NotionTypes, KeysSee, LockHolds, LegacyBars, SnapshotIsOld,
         PolicyTellsRun, LastGoodIsSound, Usable, Read
<1> QED
  BY <1>1 DEF SyncStep, Fenced

-----------------------------------------------------------------------------
(* The theorems.                                                           *)

\* The strengthening holds in every reachable state.
THEOREM InductiveAlways == NotionSpec => []NInv
<1>1. NInv /\ [NotionNext]_notionVars => NInv'
  BY NextHolds, StutterHolds DEF SyncStep
<1> QED
  BY <1>1, InitHolds, PTL DEF NotionSpec

\* What the policy shows of a run is so, a scan of an older program is never
\* replaced, and the snapshot that is pointed to is of the sources selected
\* now unless they were changed after its run was claimed.
THEOREM NotionAlwaysSound == NotionSpec => []NotionIsSound
<1>1. NInv => NotionIsSound
  BY DEF NInv, NotionIsSound
<1> QED
  BY <1>1, InductiveAlways, PTL

\* A call of a run changes something only while the run is the last one
\* claimed, goes on, and nothing was written to selection or authorization
\* since it was claimed, whatever the workers, the leases and the changes.
THEOREM LateRunsAlwaysFenced == NotionSpec => LateRunsAreFenced
<1>1. NInv /\ [NotionNext]_notionVars => [Fenced]_notionVars
  BY NextHolds DEF SyncStep
<1> QED
  BY <1>1, InductiveAlways, PTL DEF NotionSpec, LateRunsAreFenced
=============================================================================
