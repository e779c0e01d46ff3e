------------------------- MODULE CaptureQueueProofs -------------------------
(***************************************************************************)
(* The capture queue keeps its bound, and the record of an answer is       *)
(* truthful, for every capacity, every answer and every number of          *)
(* failures.                                                               *)
(*                                                                         *)
(* The types alone are not inductive: a completion is enqueued under the   *)
(* name of the phase pull() is in, so that the phase must be one a payload *)
(* can end with when pull() closes.  What is recorded follows from what    *)
(* stands in the line of the tasks: the start first, the events that were  *)
(* sent in their order, the completions last.                              *)
(***************************************************************************)
EXTENDS CaptureQueue, SequenceTheorems, TLAPS

QInv ==
  /\ CaptureTypeOK
  /\ PendingBounded
  /\ pull.at = "closing" => pull.phase \in Final

\* What a callback does next has the type of pull, whatever it has enqueued.
LEMMA PullAfterType ==
  ASSUME QInv, NEW t
  PROVE  /\ PullAfter(t) \in PullStates
         /\ PullAfter(t).at = "closing" => PullAfter(t).phase \in Final
<1>1. pull \in PullStates
  BY DEF QInv, CaptureTypeOK
<1>2. CASE t.kind = "complete"
  BY <1>1, <1>2 DEF PullAfter, PullStates
<1>3. CASE t.kind # "complete" /\ pull.left > 0
  <2>1. PullAfter(t) = [pull EXCEPT !.at = "emit", !.left = pull.left - 1]
    BY <1>3 DEF PullAfter
  <2>2. pull.left \in Nat /\ pull.left - 1 \in Nat
    BY <1>1, <1>3 DEF PullStates
  <2>3. QED
    BY <1>1, <2>1, <2>2 DEF PullStates
<1>4. CASE t.kind # "complete" /\ ~(pull.left > 0)
  BY <1>1, <1>4 DEF PullAfter, PullStates, Final
<1>5. QED
  BY <1>2, <1>3, <1>4

\* enqueue() keeps the types and the bound: who finds the queue full waits.
LEMMA EnqueueBounded ==
  ASSUME QInv, NEW t \in Tasks, Enqueue(t)
  PROVE  /\ tail' \in Seq(Tasks) /\ waiters' \in Seq(Tasks) /\ pending' \in Nat
         /\ PendingBounded'
<1>1. /\ tail \in Seq(Tasks) /\ waiters \in Seq(Tasks) /\ pending \in Nat
      /\ Capacity \in Nat \ {0} /\ PendingBounded
  BY QueueAssumption DEF QInv, CaptureTypeOK
<1>2. CASE Full(t)
  <2>1. waiters' = Append(waiters, t) /\ tail' = tail /\ pending' = pending
    BY <1>2 DEF Enqueue
  <2>2. pending = Len(tail) /\ pending = Capacity
    BY <1>1, <1>2 DEF Full, PendingBounded
  <2> QED
    BY <1>1, <2>1, <2>2 DEF PendingBounded
<1>3. CASE ~Full(t)
  <2>1. waiters' = waiters /\ tail' = Append(tail, t) /\ pending' = pending + 1
    BY <1>3 DEF Enqueue
  <2>2. pending = Len(tail) /\ pending < Capacity /\ waiters = <<>>
    BY <1>1, <1>3 DEF Full, PendingBounded
  <2>3. Len(tail') = Len(tail) + 1 /\ tail' \in Seq(Tasks)
    BY <1>1, <2>1
  <2>4. pending' = Len(tail') /\ pending' <= Capacity /\ pending' \in Nat
    BY <1>1, <2>1, <2>2, <2>3
  <2> QED
    BY <1>1, <2>1, <2>2, <2>3, <2>4 DEF PendingBounded
<1>4. QED
  BY <1>2, <1>3

\* The end of a task keeps them too: its slot is free, or handed to one that waits.
LEMMA ReleaseBounded ==
  ASSUME QInv, tail # <<>>, Release
  PROVE  /\ tail' \in Seq(Tasks) /\ waiters' \in Seq(Tasks) /\ pending' \in Nat
         /\ PendingBounded'
<1>1. /\ tail \in Seq(Tasks) /\ waiters \in Seq(Tasks) /\ pending \in Nat
      /\ Capacity \in Nat \ {0} /\ PendingBounded
  BY QueueAssumption DEF QInv, CaptureTypeOK
<1>2. Tail(tail) \in Seq(Tasks) /\ Len(Tail(tail)) = Len(tail) - 1 /\ Len(tail) > 0
  BY <1>1
<1>3. CASE waiters = <<>>
  BY <1>1, <1>2, <1>3 DEF Release, PendingBounded
<1>4. CASE waiters # <<>>
  <2>1. Head(waiters) \in Tasks /\ Tail(waiters) \in Seq(Tasks)
    BY <1>1, <1>4
  <2>2. /\ tail' = Append(Tail(tail), Head(waiters)) /\ waiters' = Tail(waiters)
        /\ pending' = pending
    BY <1>4 DEF Release
  <2>3. Len(tail') = Len(tail) /\ tail' \in Seq(Tasks)
    BY <1>1, <1>2, <2>1, <2>2
  <2>4. QED
    BY <1>1, <1>4, <2>1, <2>2, <2>3 DEF PendingBounded
<1>5. QED
  BY <1>3, <1>4


-----------------------------------------------------------------------------

\* The first task is queued before there is a stream.
LEMMA QInvInit == CaptureInit => QInv
<1> SUFFICES ASSUME CaptureInit PROVE QInv
  OBVIOUS
<1> DEFINE start == [kind |-> "start", of |-> 0, by |-> "start"]
<1>1. start \in Tasks
  BY DEF Tasks
<1>2. tail = <<start>> /\ waiters = <<>> /\ pending = 1
  BY DEF CaptureInit
<1>3. tail \in Seq(Tasks) /\ waiters \in Seq(Tasks) /\ PendingBounded
  BY <1>1, <1>2, QueueAssumption DEF PendingBounded
<1>4. pull \in PullStates /\ row \in Rows
  BY DEF CaptureInit, PullStates, Rows
<1>5. hashed \in [updates : Nat, final : BOOLEAN] /\ recorded \in Seq(Nat)
  BY DEF CaptureInit
<1>6. terminal \in BOOLEAN /\ cancelled \in BOOLEAN /\ captureFailed \in BOOLEAN
  BY DEF CaptureInit
<1>7. sent \in Nat /\ pending \in Nat /\ provided \in 0 .. MaxEvents /\ failures \in 0 .. Faults
  BY <1>2, QueueAssumption DEF CaptureInit
<1>8. CaptureTypeOK
  BY <1>3, <1>4, <1>5, <1>6, <1>7 DEF CaptureInit, CaptureTypeOK
<1> QED
  BY <1>3, <1>8 DEF QInv, CaptureInit

\* An error leaves pull() in the catch branch or gives it up.
LEMMA ThrowTypes ==
  ASSUME QInv, Throw \/ Catch
  PROVE  /\ pull' \in PullStates /\ pull'.at # "closing"
         /\ terminal' \in BOOLEAN /\ cancelled' \in BOOLEAN
         /\ stream' \in {"readable", "cancelled", "closed", "errored"}
<1>1. /\ pull \in PullStates /\ terminal \in BOOLEAN /\ cancelled \in BOOLEAN
      /\ stream \in {"readable", "cancelled", "closed", "errored"}
  BY DEF QInv, CaptureTypeOK
<1>2. CASE Catch
  BY <1>1, <1>2 DEF Catch, PullStates
<1>3. CASE Reject
  BY <1>1, <1>3 DEF Reject, PullStates
<1> QED
  BY <1>2, <1>3 DEF Throw

\* finish() goes to an emit, to the settlement, or nowhere.
LEMMA FinishTypes ==
  ASSUME QInv, FinishStream
  PROVE  /\ pull' \in PullStates /\ pull'.at # "closing"
         /\ terminal' \in BOOLEAN /\ cancelled' = cancelled /\ stream' = stream
<1>1. pull \in PullStates /\ terminal \in BOOLEAN
  BY DEF QInv, CaptureTypeOK
<1>2. CASE terminal
  BY <1>1, <1>2 DEF FinishStream, PullStates
<1>3. CASE ~terminal
  <2>1. PICK n \in 0 .. MaxOutputs :
          pull' = IF n > 0 THEN Emitting("finish", n)
                  ELSE [at |-> "settle", phase |-> "finish", left |-> 0]
    BY <1>3 DEF FinishStream
  <2>2. n > 0 => n - 1 \in Nat
    BY QueueAssumption
  <2>3. terminal' = TRUE /\ cancelled' = cancelled /\ stream' = stream
    BY <1>3 DEF FinishStream
  <2> QED
    BY <2>1, <2>2, <2>3 DEF Emitting, PullStates
<1> QED
  BY <1>2, <1>3

\* A fault is one of those the bound allows.
LEMMA FaultTypes ==
  ASSUME QInv, Failure
  PROVE  failures' \in 0 .. Faults
  BY QueueAssumption DEF QInv, CaptureTypeOK, Failure

\* pull() reads: no step of the queue.
LEMMA ReadTypes ==
  ASSUME QInv, Read
  PROVE  QInv'
<1>1. /\ pull \in PullStates /\ cancelled \in BOOLEAN /\ terminal \in BOOLEAN
      /\ stream \in {"readable", "cancelled", "closed", "errored"}
      /\ provided \in 0 .. MaxEvents
  BY DEF QInv, CaptureTypeOK
<1>2. UNCHANGED <<cancel, sent, hashed, queueVars, payloadVars, failures>>
  BY DEF Read
<1>3. /\ pull' \in PullStates /\ pull'.at # "closing"
      /\ terminal' \in BOOLEAN /\ cancelled' \in BOOLEAN
      /\ stream' \in {"readable", "cancelled", "closed", "errored"}
      /\ provided' \in 0 .. MaxEvents
  <2>1. ASSUME provided < MaxEvents, provided' = provided + 1,
               NEW n \in 0 .. MaxOutputs,
               pull' = IF n > 0 THEN Emitting("push", n)
                       ELSE [pull EXCEPT !.at = IF terminal THEN "idle" ELSE "read"]
        PROVE  /\ pull' \in PullStates /\ pull'.at # "closing"
               /\ provided' \in 0 .. MaxEvents
    <3>1. provided' \in 0 .. MaxEvents
      BY <1>1, <2>1, QueueAssumption
    <3>2. CASE n > 0
      <4>1. n - 1 \in Nat
        BY <3>2, QueueAssumption
      <4> QED
        BY <2>1, <3>1, <3>2, <4>1 DEF Emitting, PullStates
    <3>3. CASE ~(n > 0)
      BY <1>1, <2>1, <3>1, <3>3 DEF PullStates
    <3> QED
      BY <3>2, <3>3
  <2>2. CASE FinishStream /\ UNCHANGED provided
    BY <1>1, <2>2, FinishTypes
  <2>3. CASE pull' = [pull EXCEPT !.at = "return"]
             /\ UNCHANGED <<terminal, cancelled, stream, provided>>
    BY <1>1, <2>3 DEF PullStates
  <2>4. CASE Catch /\ UNCHANGED provided
    BY <1>1, <2>4, ThrowTypes
  <2> QED
    BY <1>1, <2>1, <2>2, <2>3, <2>4 DEF Read
<1> QED
  BY <1>2, <1>3 DEF QInv, CaptureTypeOK, PendingBounded, queueVars, payloadVars

\* emit(): an event is hashed, sent and enqueued, or throws.
LEMMA EmitTypes ==
  ASSUME QInv, Emit
  PROVE  QInv'
<1>1. /\ pull \in PullStates /\ cancelled \in BOOLEAN /\ terminal \in BOOLEAN
      /\ stream \in {"readable", "cancelled", "closed", "errored"}
      /\ sent \in Nat /\ hashed \in [updates : Nat, final : BOOLEAN]
      /\ failures \in 0 .. Faults
  BY DEF QInv, CaptureTypeOK
<1>2. UNCHANGED <<cancel, payloadVars, provided>>
  BY DEF Emit
<1>3. CASE /\ sent' = sent + 1
           /\ hashed' = [hashed EXCEPT !.updates = @ + 1]
           /\ Enqueue(Event(sent))
           /\ pull' = IF Full(Event(sent)) THEN [pull EXCEPT !.at = "slot"]
                      ELSE PullAfter(Event(sent))
           /\ UNCHANGED <<terminal, cancelled, stream, failures>>
  <2>1. Event(sent) \in Tasks
    BY <1>1 DEF Event, Tasks
  <2>2. sent' \in Nat /\ hashed' \in [updates : Nat, final : BOOLEAN]
    BY <1>1, <1>3
  <2>3. pull' \in PullStates /\ (pull'.at = "closing" => pull'.phase \in Final)
    <3>1. CASE Full(Event(sent))
      BY <1>1, <1>3, <3>1 DEF PullStates
    <3>2. CASE ~Full(Event(sent))
      BY <1>3, <3>2, PullAfterType
    <3> QED
      BY <3>1, <3>2
  <2> QED
    BY <1>2, <1>3, <2>1, <2>2, <2>3, EnqueueBounded DEF QInv, CaptureTypeOK, payloadVars
<1>4. CASE /\ hashed' = [hashed EXCEPT !.updates = IF hashed.final THEN @ ELSE @ + 1]
           /\ Throw
           /\ UNCHANGED <<sent, queueVars, failures>>
  <2>1. hashed' \in [updates : Nat, final : BOOLEAN]
    BY <1>1, <1>4
  <2> QED
    BY <1>2, <1>4, <2>1, ThrowTypes DEF QInv, CaptureTypeOK, PendingBounded, payloadVars, queueVars
<1>5. CASE Failure /\ Throw /\ UNCHANGED <<sent, hashed, queueVars>>
  BY <1>2, <1>5, ThrowTypes, FaultTypes DEF QInv, CaptureTypeOK, PendingBounded, payloadVars, queueVars
<1> QED
  BY <1>3, <1>4, <1>5 DEF Emit

\* The settlement of pull(): what closes is a phase a payload can end with.
LEMMA SettlePullTypes ==
  ASSUME QInv, SettlePull
  PROVE  QInv'
<1>1. /\ pull \in PullStates /\ cancelled \in BOOLEAN /\ terminal \in BOOLEAN
      /\ stream \in {"readable", "cancelled", "closed", "errored"}
      /\ failures \in 0 .. Faults
  BY DEF QInv, CaptureTypeOK
<1>2. UNCHANGED <<cancel, sent, hashed, queueVars, payloadVars, provided>>
  BY DEF SettlePull
<1>3. CASE /\ \/ pull' = Emitting("failed", 1)
              \/ pull' = Emitting("complete", 1)
              \/ pull' = [at |-> "closing", phase |-> "complete", left |-> 0]
              \/ pull' = Emitting("interrupted", 1)
           /\ UNCHANGED <<terminal, cancelled, stream, failures>>
  <2>1. pull' \in PullStates /\ (pull'.at = "closing" => pull'.phase \in Final)
    BY <1>3 DEF Emitting, PullStates, Final
  <2> QED
    BY <1>2, <1>3, <2>1 DEF QInv, CaptureTypeOK, PendingBounded, payloadVars, queueVars
<1>4. CASE /\ pull.phase = "interrupted" /\ pull' = [pull EXCEPT !.at = "closing"]
           /\ UNCHANGED <<terminal, cancelled, stream, failures>>
  <2>1. pull' \in PullStates /\ pull'.phase = "interrupted"
    BY <1>1, <1>4 DEF PullStates
  <2> QED
    BY <1>2, <1>4, <2>1 DEF QInv, CaptureTypeOK, PendingBounded, Final, payloadVars, queueVars
<1>5. CASE Failure /\ Throw
  BY <1>2, <1>5, ThrowTypes, FaultTypes DEF QInv, CaptureTypeOK, PendingBounded, payloadVars, queueVars
<1> QED
  BY <1>3, <1>4, <1>5 DEF SettlePull

\* The completion of pull() is enqueued under the phase it closes in.
LEMMA ClosePullTypes ==
  ASSUME QInv, ClosePull
  PROVE  QInv'
<1> DEFINE how == IF cancelled THEN "cancelled" ELSE pull.phase
           t == Complete(how, "pull")
<1>1. pull \in PullStates /\ pull.at = "closing" /\ pull.phase \in Final
  BY DEF QInv, CaptureTypeOK, ClosePull
<1>2. UNCHANGED <<cancel, sent, hashed, payloadVars, provided>>
  BY DEF ClosePull
<1>3. CASE /\ Enqueue(t)
           /\ pull' = IF Full(t) THEN [pull EXCEPT !.at = "slot"] ELSE PullAfter(t)
           /\ UNCHANGED <<terminal, cancelled, stream, failures>>
  <2>1. how \in Final
    BY <1>1 DEF Final
  <2>2. t \in Tasks
    BY <2>1 DEF Complete, Tasks
  <2> HIDE DEF t
  <2>3. pull' \in PullStates /\ (pull'.at = "closing" => pull'.phase \in Final)
    <3>1. CASE Full(t)
      BY <1>1, <1>3, <3>1 DEF PullStates
    <3>2. CASE ~Full(t)
      BY <1>3, <3>2, PullAfterType
    <3> QED
      BY <3>1, <3>2
  <2> QED
    BY <1>2, <1>3, <2>2, <2>3, EnqueueBounded DEF QInv, CaptureTypeOK, payloadVars
<1>4. CASE Failure /\ Catch /\ UNCHANGED queueVars
  BY <1>2, <1>4, ThrowTypes, FaultTypes DEF QInv, CaptureTypeOK, PendingBounded, payloadVars, queueVars
<1> QED
  BY <1>3, <1>4 DEF ClosePull

\* The end of the drain of pull().
LEMMA DrainPullTypes ==
  ASSUME QInv, DrainPull
  PROVE  QInv'
<1>1. /\ pull \in PullStates /\ stream \in {"readable", "cancelled", "closed", "errored"}
  BY DEF QInv, CaptureTypeOK
<1>2. UNCHANGED <<cancel, sent, hashed, queueVars, payloadVars, provided, failures>>
  BY DEF DrainPull
<1>3. CASE /\ pull' = [pull EXCEPT !.at = "done"]
           /\ stream' = IF cancelled THEN stream ELSE "closed"
           /\ UNCHANGED <<terminal, cancelled>>
  <2>1. pull' \in PullStates /\ pull'.at = "done"
    BY <1>1, <1>3 DEF PullStates
  <2> QED
    BY <1>1, <1>2, <1>3, <2>1 DEF QInv, CaptureTypeOK, PendingBounded, payloadVars, queueVars
<1>4. CASE Throw
  BY <1>2, <1>4, ThrowTypes DEF QInv, CaptureTypeOK, PendingBounded, payloadVars, queueVars
<1> QED
  BY <1>3, <1>4 DEF DrainPull

\* cancel(), from the call of the stream to its completion.
LEMMA CancelTypes ==
  ASSUME QInv, CancelStream \/ CancelStep
  PROVE  QInv'
<1>1. CASE CancelStream
  BY <1>1 DEF CancelStream, QInv, CaptureTypeOK, PendingBounded, payloadVars, queueVars
<1>2. CASE CancelRoute
  <2>1. CASE UNCHANGED failures
    BY <1>2, <2>1 DEF CancelRoute, QInv, CaptureTypeOK, PendingBounded, payloadVars, queueVars, streamVars
  <2>2. CASE Failure
    BY <1>2, <2>2, FaultTypes
    DEF CancelRoute, QInv, CaptureTypeOK, PendingBounded, payloadVars, queueVars, streamVars
  <2> QED
    BY <1>2, <2>1, <2>2 DEF CancelRoute
<1>3. CASE CancelReturn
  BY <1>3 DEF CancelReturn, QInv, CaptureTypeOK, PendingBounded, payloadVars, queueVars, streamVars
<1>4. CASE CancelSettle
  <2> DEFINE t == Complete("cancelled", "cancel")
  <2>1. t \in Tasks
    BY DEF Complete, Tasks, Final
  <2> HIDE DEF t
  <2>2. CASE /\ Enqueue(t)
             /\ cancel' = IF Full(t) THEN "slot" ELSE "drain"
             /\ UNCHANGED failures
    BY <1>4, <2>1, <2>2, EnqueueBounded DEF CancelSettle, QInv, CaptureTypeOK, payloadVars, streamVars
  <2>3. CASE Failure /\ cancel' = "failed" /\ UNCHANGED queueVars
    BY <1>4, <2>3, FaultTypes
    DEF CancelSettle, QInv, CaptureTypeOK, PendingBounded, payloadVars, queueVars, streamVars
  <2> QED
    BY <1>4, <2>2, <2>3 DEF CancelSettle, t
<1>5. CASE CancelDrain
  BY <1>5 DEF CancelDrain, QInv, CaptureTypeOK, PendingBounded, payloadVars, queueVars, streamVars
<1> QED
  BY <1>1, <1>2, <1>3, <1>4, <1>5 DEF CancelStep

\* What a task leaves in the rows, done or failed.
LEMMA TaskTypes ==
  ASSUME QInv, NEW t \in Tasks, Succeed(t) \/ Fail(t)
  PROVE  /\ row' \in Rows /\ recorded' \in Seq(Nat) /\ captureFailed' \in BOOLEAN
         /\ failures' \in 0 .. Faults
<1>1. /\ row \in Rows /\ recorded \in Seq(Nat) /\ captureFailed \in BOOLEAN
      /\ failures \in 0 .. Faults /\ hashed \in [updates : Nat, final : BOOLEAN]
  BY DEF QInv, CaptureTypeOK
<1>2. /\ t.kind \in {"start", "event", "complete"}
      /\ t.kind = "event" => t.of \in Nat
      /\ t.kind = "complete" => t.of \in Final
  BY DEF Tasks
<1>3. t.kind = "complete" => \A failed : Completion(t, failed) \in Rows
  <2> SUFFICES ASSUME t.kind = "complete", NEW failed PROVE Completion(t, failed) \in Rows
    OBVIOUS
  <2>1. (IF row.status = "none" THEN "none" ELSE t.of) \in {"none", "streaming"} \cup Final
    BY <1>2
  <2>2. (IF row.status = "none" \/ hashed.final THEN row.sha ELSE hashed.updates) \in Nat
    BY <1>1 DEF Rows
  <2> QED
    BY <2>1, <2>2 DEF Completion, Rows
<1>4. recorded' \in Seq(Nat)
  <2>1. recorded' \in {recorded} \cup (IF t.kind = "event" THEN {Append(recorded, t.of)} ELSE {})
    BY DEF Succeed, Fail
  <2> QED
    BY <1>1, <1>2, <2>1
<1>5. CASE Succeed(t)
  <2>1. row' \in Rows
    <3>1. CASE t.kind = "start"
      BY <1>1, <1>5, <3>1 DEF Succeed, Rows
    <3>2. CASE t.kind = "event"
      BY <1>1, <1>5, <3>2 DEF Succeed
    <3>3. CASE t.kind = "complete"
      BY <1>3, <1>5, <3>3 DEF Succeed
    <3> QED
      BY <1>2, <3>1, <3>2, <3>3
  <2> QED
    BY <1>1, <1>4, <1>5, <2>1 DEF Succeed
<1>6. CASE Fail(t)
  <2>1. row' \in Rows
    <3>1. PICK capture \in {"failed", row.capture} :
            row' \in {[row EXCEPT !.capture = capture]}
                     \cup CASE t.kind = "start" ->
                                 {[row EXCEPT !.status = "streaming", !.capture = capture]}
                            [] t.kind = "event" -> {}
                            [] t.kind = "complete" ->
                                 {[Completion(t, TRUE) EXCEPT !.capture = capture]}
      BY <1>6 DEF Fail
    <3>2. capture \in {"request_captured", "streaming", "failed", "complete"}
      BY <1>1 DEF Rows
    <3>3. [row EXCEPT !.capture = capture] \in Rows
      BY <1>1, <3>2 DEF Rows
    <3>4. CASE t.kind = "start"
      <4>1. [row EXCEPT !.status = "streaming", !.capture = capture] \in Rows
        BY <1>1, <3>2 DEF Rows
      <4> QED
        BY <3>1, <3>3, <3>4, <4>1
    <3>5. CASE t.kind = "event"
      BY <3>1, <3>3, <3>5
    <3>6. CASE t.kind = "complete"
      <4> DEFINE c == Completion(t, TRUE)
      <4>1. c \in Rows
        BY <1>3, <3>6
      <4> HIDE DEF c
      <4>2. [c EXCEPT !.capture = capture] \in Rows
        BY <3>2, <4>1 DEF Rows
      <4>3. row' \in {[row EXCEPT !.capture = capture], [c EXCEPT !.capture = capture]}
        BY <3>1, <3>6 DEF c
      <4> QED
        BY <3>3, <4>2, <4>3
    <3> QED
      BY <1>2, <3>4, <3>5, <3>6
  <2> QED
    BY <1>4, <1>6, <2>1, FaultTypes DEF Fail
<1> QED
  BY <1>5, <1>6

\* A task ends: its row, its slot, and who waited for it.
LEMMA RunTaskTypes ==
  ASSUME QInv, RunTask
  PROVE  QInv'
<1> DEFINE t == Head(tail)
<1>1. tail # <<>> /\ Release /\ (Succeed(t) \/ Fail(t)) /\ UNCHANGED <<streamVars, provided>>
  BY DEF RunTask
<1>2. /\ tail \in Seq(Tasks) /\ waiters \in Seq(Tasks) /\ pull \in PullStates
      /\ cancel \in {"none", "route", "return", "settle", "slot", "drain", "done", "failed"}
      /\ hashed \in [updates : Nat, final : BOOLEAN]
  BY DEF QInv, CaptureTypeOK
<1>3. t \in Tasks
  BY <1>1, <1>2
<1>4. hashed' \in [updates : Nat, final : BOOLEAN]
  BY <1>2 DEF RunTask
<1>5. /\ pull' \in PullStates /\ (pull'.at = "closing" => pull'.phase \in Final)
      /\ cancel' \in {"none", "route", "return", "settle", "slot", "drain", "done", "failed"}
  <2>1. CASE waiters = <<>>
    BY <1>1, <1>2, <2>1 DEF Release, QInv
  <2>2. CASE waiters # <<>>
    <3>1. /\ pull' = IF Head(waiters).by = "pull" THEN PullAfter(Head(waiters)) ELSE pull
          /\ cancel' = IF Head(waiters).by = "cancel" THEN "drain" ELSE cancel
      BY <1>1, <2>2 DEF Release
    <3> QED
      BY <1>2, <3>1, PullAfterType DEF QInv
  <2> QED
    BY <2>1, <2>2
<1> HIDE DEF t
<1> QED
  BY <1>1, <1>3, <1>4, <1>5, TaskTypes, ReleaseBounded DEF QInv, CaptureTypeOK, streamVars

-----------------------------------------------------------------------------

\* Every step keeps the invariant.
LEMMA QInvNext == QInv /\ [CaptureNext]_captureVars => QInv'
<1> SUFFICES ASSUME QInv, [CaptureNext]_captureVars PROVE QInv'
  OBVIOUS
<1>1. CASE Pull
  <2>1. pull' \in PullStates /\ pull'.at = "read"
    BY <1>1 DEF Pull, QInv, CaptureTypeOK, PullStates
  <2> QED
    BY <1>1, <2>1 DEF Pull, QInv, CaptureTypeOK, PendingBounded, payloadVars, queueVars, streamVars
<1>2. CASE Returned
  BY <1>2, FinishTypes DEF Returned, QInv, CaptureTypeOK, PendingBounded, payloadVars, queueVars
<1>3. CASE PullStep
  BY <1>2, <1>3, ReadTypes, EmitTypes, SettlePullTypes, ClosePullTypes, DrainPullTypes DEF PullStep
<1>4. CASE CancelStream \/ CancelStep
  BY <1>4, CancelTypes
<1>5. CASE RunTask
  BY <1>5, RunTaskTypes
<1>6. CASE UNCHANGED captureVars
  BY <1>6 DEF captureVars, QInv, CaptureTypeOK, PendingBounded, payloadVars, queueVars, streamVars
<1> QED
  BY <1>1, <1>3, <1>4, <1>5, <1>6 DEF CaptureNext

\* The states of the callbacks, the queue and the rows are those of the code: a
\* payload is completed with one of its four ends.
THEOREM CaptureTypes == CaptureSpec => []CaptureTypeOK
<1>1. QInv => CaptureTypeOK
  BY DEF QInv
<1> QED
  BY <1>1, QInvInit, QInvNext, PTL DEF CaptureSpec

\* The queue of a stream holds no more tasks than its capacity, whatever its two
\* callbacks and the database do; who waits has found it full and it still is.
THEOREM CaptureIsBounded == CaptureSpec => []PendingBounded
<1>1. QInv => PendingBounded
  BY DEF QInv
<1> QED
  BY <1>1, QInvInit, QInvNext, PTL DEF CaptureSpec

\* Both of them at once, as the run checks them.
THEOREM QueueAlwaysBounded == CaptureSpec => []QueueIsBounded
<1>1. CaptureTypeOK /\ PendingBounded => QueueIsBounded
  BY DEF QueueIsBounded
<1> QED
  BY <1>1, CaptureTypes, CaptureIsBounded, PTL

-----------------------------------------------------------------------------
(* The record is truthful.                                                 *)

\* The tasks that are not finished, those that wait for a slot behind those that have one.
Line == tail \o waiters
Off  == IF Line # <<>> /\ Line[1].kind = "start" THEN 1 ELSE 0

\* The start comes first and the completions last, each with the word the flags allow.
LineInv ==
  /\ \A i \in DOMAIN Line : Line[i].kind = "start" => i = 1
  /\ \A i, j \in DOMAIN Line : i < j /\ Line[i].kind = "complete" => Line[j].kind = "complete"
  /\ hashed.final => \A i \in DOMAIN Line : Line[i].kind = "complete"
  /\ \A i \in DOMAIN Line : Line[i].kind = "complete" =>
       /\ terminal /\ (Line[i].of = "cancelled" <=> cancelled)
       /\ Line[i].by = "pull" => pull.at \in {"slot", "drain"}
       /\ Line[i].by = "cancel" => cancelled
       /\ ~ hashed.final /\ ~ cancelled => hashed.updates = sent

\* Each callback waits for one slot at most, when it says so.
WaitInv ==
  /\ \A i \in DOMAIN waiters : waiters[i].by \in {"pull", "cancel"}
  /\ \A i, j \in DOMAIN waiters : waiters[i].by = waiters[j].by => i = j
  /\ pull.at = "slot" <=> \E i \in DOMAIN waiters : waiters[i].by = "pull"
  /\ cancel = "slot" <=> \E i \in DOMAIN waiters : waiters[i].by = "cancel"

\* What the await of a callback says of the flags, the stream and the hash.
FlagInv ==
  /\ cancelled => stream = "cancelled" /\ terminal
  /\ cancel \notin {"none", "done"} => cancelled
  /\ pull.at \in {"idle", "read", "return"} => pull.phase = "push"
  /\ pull.at \in {"settle", "closing"} => pull.phase # "push"
  /\ pull.phase # "push" => terminal
  /\ pull.at = "drain" =>
       hashed.final \/ \E i \in DOMAIN Line : Line[i].by = "pull" /\ Line[i].kind = "complete"
  /\ stream = "closed" => pull.at = "done" /\ Line = <<>> /\ hashed.final
  /\ \/ hashed.updates = sent
     \/ /\ pull.phase = "interrupted" /\ stream # "readable"
        /\ pull.at \in {"settle", "emit", "failed"} \/ cancelled

\* As long as nothing failed, what is recorded and what waits to be are what was sent.
RecordInv ==
  ~ captureFailed =>
    /\ Len(recorded) <= sent /\ sent <= Len(recorded) + Len(Line) - Off
    /\ \A i \in DOMAIN recorded : recorded[i] = i - 1
    /\ \A i \in DOMAIN Line :
         /\ Line[i].kind = "event" <=> (i > Off /\ Len(recorded) + i - Off <= sent)
         /\ Line[i].kind = "event" => Line[i].of = Len(recorded) + i - Off - 1
    /\ row.status = "none" <=> Off = 1
    /\ hashed.final => row.capture = "complete"

\* What the row says of a stream that was completed.
RowInv ==
  /\ row.status \in Final => /\ hashed.final /\ terminal
                             /\ row.status = "cancelled" <=> cancelled
  /\ hashed.final /\ ~ captureFailed => row.status \in Final
  /\ row.capture = "complete" =>
       /\ hashed.final /\ Len(recorded) = sent /\ \A i \in DOMAIN recorded : recorded[i] = i - 1
       /\ ~ cancelled => row.sha = sent

CInv == QInv /\ LineInv /\ WaitInv /\ FlagInv /\ RecordInv /\ RowInv

\* What stands where in two sequences one behind the other.
LEMMA JoinIs ==
  ASSUME NEW T \in Seq(Tasks), NEW W \in Seq(Tasks)
  PROVE  /\ T \o W \in Seq(Tasks) /\ Len(T \o W) = Len(T) + Len(W)
         /\ Len(T) \in Nat /\ Len(W) \in Nat
         /\ \A i \in 1 .. Len(T) + Len(W) :
              (T \o W)[i] = IF i <= Len(T) THEN T[i] ELSE W[i - Len(T)]
BY ConcatProperties

LEMMA LineIs ==
  ASSUME QInv
  PROVE  /\ Line \in Seq(Tasks) /\ Len(Line) = Len(tail) + Len(waiters)
         /\ Len(tail) \in Nat /\ Len(waiters) \in Nat
         /\ \A i \in 1 .. Len(Line) :
              Line[i] = IF i <= Len(tail) THEN tail[i] ELSE waiters[i - Len(tail)]
<1>1. tail \in Seq(Tasks) /\ waiters \in Seq(Tasks)
  BY DEF QInv, CaptureTypeOK
<1> QED
  BY <1>1, JoinIs DEF Line

\* What is enqueued comes last, with a slot or without.
LEMMA EnqueueLine ==
  ASSUME QInv, NEW t \in Tasks, Enqueue(t), QInv'
  PROVE  /\ Len(Line') = Len(Line) + 1 /\ Line'[Len(Line) + 1] = t
         /\ \A i \in 1 .. Len(Line) : Line'[i] = Line[i]
         /\ Full(t) => waiters' = Append(waiters, t)
         /\ ~ Full(t) => waiters = <<>> /\ waiters' = <<>>
<1>1. /\ tail \in Seq(Tasks) /\ waiters \in Seq(Tasks) /\ Capacity \in Nat \ {0}
      /\ pending \in Nat
  BY QueueAssumption DEF QInv, CaptureTypeOK
<1> DEFINE n == Len(tail)
           m == Len(waiters)
<1>2. /\ n \in Nat /\ m \in Nat /\ Len(Line) = n + m
      /\ \A i \in 1 .. n + m : Line[i] = IF i <= n THEN tail[i] ELSE waiters[i - n]
  BY LineIs
<1>3. /\ Len(Line') = Len(tail') + Len(waiters')
      /\ \A i \in 1 .. Len(Line') :
           Line'[i] = IF i <= Len(tail') THEN tail'[i] ELSE waiters'[i - Len(tail')]
  <2>1. tail' \in Seq(Tasks) /\ waiters' \in Seq(Tasks)
    BY DEF QInv, CaptureTypeOK
  <2> QED
    BY <2>1, JoinIs DEF Line
<1> HIDE DEF n, m
<1>4. CASE Full(t)
  <2>1. waiters' = Append(waiters, t) /\ tail' = tail
    BY <1>4 DEF Enqueue
  <2>2. /\ Len(waiters') = m + 1 /\ waiters'[m + 1] = t
        /\ \A i \in 1 .. m : waiters'[i] = waiters[i]
    BY <1>1, <2>1 DEF m
  <2>3. Len(Line') = n + m + 1 /\ n + m + 1 \in 1 .. n + m + 1 /\ ~ (n + m + 1 <= n)
        /\ n + m + 1 - n = m + 1
    BY <1>2, <1>3, <2>1, <2>2 DEF n
  <2>4. Line'[n + m + 1] = t
    <3>1. Len(tail') = n
      BY <2>1 DEF n
    <3> DEFINE k == n + m + 1
    <3>2. k \in 1 .. Len(Line') /\ ~ (k <= n) /\ k - n = m + 1
      BY <1>2, <2>3
    <3> HIDE DEF k
    <3>3. Line'[k] = waiters'[k - n]
      BY <1>3, <3>1, <3>2
    <3>4. Line'[k] = t
      BY <2>2, <3>2, <3>3
    <3> QED
      BY <3>4 DEF k
  <2>5. ASSUME NEW i \in 1 .. n + m PROVE Line'[i] = Line[i]
    <3>1. i \in 1 .. n + m + 1 /\ (~ (i <= n) => i - n \in 1 .. m)
      BY <1>2
    <3> QED
      BY <1>2, <1>3, <2>1, <2>2, <2>3, <3>1 DEF n
  <2> QED
    BY <1>2, <1>4, <2>1, <2>3, <2>4, <2>5
<1>5. CASE ~ Full(t)
  <2>1. waiters = <<>> /\ waiters' = <<>> /\ tail' = Append(tail, t) /\ m = 0
    BY <1>1, <1>5 DEF Enqueue, Full, QInv, PendingBounded, m
  <2>2. Len(tail') = n + 1 /\ tail'[n + 1] = t /\ \A i \in 1 .. n : tail'[i] = tail[i]
    BY <1>1, <2>1 DEF n
  <2>3. Len(Line') = n + 1 /\ n + 1 \in 1 .. n + 1 /\ n + m = n /\ Len(<<>>) = 0
    BY <1>2, <1>3, <2>1, <2>2
  <2>4. Line'[n + 1] = t
    BY <1>3, <2>2, <2>3
  <2>5. ASSUME NEW i \in 1 .. n PROVE Line'[i] = Line[i]
    <3>1. i \in 1 .. n + 1 /\ i <= n /\ i <= n + 1
      BY <1>2
    <3> QED
      BY <1>2, <1>3, <2>2, <2>3, <3>1
  <2> QED
    BY <1>2, <1>5, <2>1, <2>3, <2>4, <2>5
<1> QED
  BY <1>4, <1>5

\* The end of a task moves the whole line by one.
LEMMA ReleaseLine ==
  ASSUME QInv, QInv', tail # <<>>, Release
  PROVE  /\ Len(Line) = Len(Line') + 1 /\ Len(Line') \in Nat /\ Line[1] = Head(tail)
         /\ \A i \in 1 .. Len(Line') : Line'[i] = Line[i + 1]
<1> DEFINE n == Len(tail)
           m == Len(waiters)
<1>1. /\ tail \in Seq(Tasks) /\ waiters \in Seq(Tasks)
  BY DEF QInv, CaptureTypeOK
<1>2. /\ n \in Nat /\ m \in Nat /\ Len(Line) = n + m /\ n > 0
      /\ \A i \in 1 .. n + m : Line[i] = IF i <= n THEN tail[i] ELSE waiters[i - n]
  BY <1>1, LineIs
<1>3. /\ Len(Line') = Len(tail') + Len(waiters')
      /\ \A i \in 1 .. Len(Line') :
           Line'[i] = IF i <= Len(tail') THEN tail'[i] ELSE waiters'[i - Len(tail')]
  <2>1. tail' \in Seq(Tasks) /\ waiters' \in Seq(Tasks)
    BY DEF QInv, CaptureTypeOK
  <2> QED
    BY <2>1, JoinIs DEF Line
<1> DEFINE rest == Tail(tail)
<1>4. /\ rest \in Seq(Tasks) /\ Len(rest) = n - 1 /\ \A i \in 1 .. n - 1 : rest[i] = tail[i + 1]
      /\ Head(tail) = tail[1]
  BY <1>1, <1>2
<1> HIDE DEF rest
<1>5. Line[1] = Head(tail)
  <2>1. 1 \in 1 .. n + m /\ 1 <= n
    BY <1>2
  <2> QED
    BY <1>2, <1>4, <2>1
<1>6. CASE waiters = <<>>
  <2>1. tail' = rest /\ waiters' = <<>> /\ m = 0 /\ Len(<<>>) = 0
    BY <1>6 DEF Release, rest
  <2> HIDE DEF n, m
  <2>2. Len(Line') = n - 1 /\ n + m = n
    BY <1>2, <1>3, <1>4, <2>1
  <2>3. ASSUME NEW i \in 1 .. n - 1 PROVE Line'[i] = Line[i + 1]
    <3>1. i + 1 \in 1 .. n + m /\ i + 1 <= n /\ i <= n - 1
      BY <1>2
    <3> QED
      BY <1>2, <1>3, <1>4, <2>1, <2>2, <3>1
  <2> QED
    BY <1>2, <1>5, <2>2, <2>3
<1>7. CASE waiters # <<>>
  <2> DEFINE t == Head(waiters)
             others == Tail(waiters)
  <2>1. tail' = Append(rest, t) /\ waiters' = others
    BY <1>7 DEF Release, rest
  <2>2. /\ t \in Tasks /\ m > 0 /\ others \in Seq(Tasks) /\ Len(others) = m - 1 /\ t = waiters[1]
        /\ \A i \in 1 .. m - 1 : others[i] = waiters[i + 1]
    BY <1>1, <1>7
  <2> HIDE DEF t, others, n, m
  <2>3. /\ Len(tail') = n /\ tail'[n] = t /\ \A i \in 1 .. n - 1 : tail'[i] = rest[i]
    <3>1. Len(Append(rest, t)) = (n - 1) + 1 /\ (n - 1) + 1 = n
      BY <1>2, <1>4, <2>2
    <3> QED
      BY <1>2, <1>4, <2>1, <2>2, <3>1
  <2>4. Len(Line') = n + m - 1
    BY <1>2, <1>3, <2>1, <2>2, <2>3
  <2>5. ASSUME NEW i \in 1 .. n + m - 1 PROVE Line'[i] = Line[i + 1]
    <3>1. Line'[i] = IF i <= n THEN tail'[i] ELSE others[i - n]
      BY <1>3, <2>1, <2>3, <2>4
    <3>2. i + 1 \in 1 .. n + m
      BY <1>2, <2>2
    <3>3. Line[i + 1] = IF i + 1 <= n THEN tail[i + 1] ELSE waiters[i + 1 - n]
      BY <1>2, <3>2
    <3>4. CASE i < n
      <4>1. i \in 1 .. n - 1 /\ i <= n /\ i + 1 <= n
        BY <1>2, <3>4
      <4> QED
        BY <1>4, <2>3, <3>1, <3>3, <4>1
    <3>5. CASE i = n
      <4>1. ~ (i + 1 <= n) /\ i + 1 - n = 1 /\ i <= n
        BY <1>2, <3>5
      <4> QED
        BY <2>2, <2>3, <3>1, <3>3, <3>5, <4>1
    <3>6. CASE i > n
      <4>1. ~ (i + 1 <= n) /\ ~ (i <= n) /\ i + 1 - n = (i - n) + 1 /\ i - n \in 1 .. m - 1
        BY <1>2, <2>2, <3>6
      <4> QED
        BY <2>2, <3>1, <3>3, <4>1
    <3> QED
      BY <1>2, <3>4, <3>5, <3>6
  <2> QED
    BY <1>2, <1>5, <2>2, <2>4, <2>5
<1> QED
  BY <1>6, <1>7

\* The line as a sequence of tasks.
LEMMA LineTasks ==
  ASSUME QInv
  PROVE  /\ Len(Line) \in Nat /\ DOMAIN Line = 1 .. Len(Line)
         /\ \A i \in 1 .. Len(Line) : Line[i] \in Tasks
         /\ Line = <<>> <=> Len(Line) = 0
         /\ Line = <<>> => tail = <<>>
         /\ DOMAIN waiters = 1 .. Len(waiters) /\ DOMAIN tail = 1 .. Len(tail)
         /\ Len(waiters) \in Nat /\ Len(tail) \in Nat
         /\ \A i \in 1 .. Len(waiters) : waiters[i] \in Tasks
<1>1. /\ Line \in Seq(Tasks) /\ Len(Line) = Len(tail) + Len(waiters)
      /\ tail \in Seq(Tasks) /\ waiters \in Seq(Tasks)
  BY LineIs DEF QInv, CaptureTypeOK
<1>2. Len(tail) \in Nat /\ Len(waiters) \in Nat
  BY <1>1
<1>3. Len(Line) = 0 => tail = <<>>
  <2>1. ASSUME NEW T \in Seq(Tasks), Len(T) = 0 PROVE T = <<>>
    BY <2>1
  <2>2. Len(Line) = 0 => Len(tail) = 0
    BY LineIs
  <2> QED
    BY <1>1, <2>1, <2>2
<1>4. /\ Len(Line) \in Nat /\ DOMAIN Line = 1 .. Len(Line) /\ (Line = <<>> <=> Len(Line) = 0)
      /\ \A i \in 1 .. Len(Line) : Line[i] \in Tasks
  <2> DEFINE L == Line
  <2>1. L \in Seq(Tasks)
    BY <1>1
  <2> HIDE DEF L
  <2>2. Len(L) \in Nat /\ DOMAIN L = 1 .. Len(L) /\ (L = <<>> <=> Len(L) = 0)
    BY <2>1
  <2>3. \A i \in 1 .. Len(L) : L[i] \in Tasks
    BY <2>1
  <2> QED
    BY <2>2, <2>3 DEF L
<1>5. /\ DOMAIN waiters = 1 .. Len(waiters) /\ DOMAIN tail = 1 .. Len(tail)
      /\ \A i \in 1 .. Len(waiters) : waiters[i] \in Tasks
  BY <1>1
<1> QED
  BY <1>2, <1>3, <1>4, <1>5

LEMMA TaskIs ==
  ASSUME NEW t \in Tasks
  PROVE  /\ t.kind \in {"start", "event", "complete"}
         /\ t.kind = "event" => t.of \in Nat /\ t.by = "pull"
         /\ t.kind = "complete" => t.of \in Final /\ t.by \in {"pull", "cancel"}
         /\ t.kind = "start" => t.by = "start"
  BY DEF Tasks

\* A task of a callback in the line is in the tail, or waits for a slot.
LEMMA LineBy ==
  ASSUME QInv, NEW who, NEW i \in 1 .. Len(Line), Line[i].by = who
  PROVE  \/ \E j \in DOMAIN tail : tail[j].by = who
         \/ \E j \in DOMAIN waiters : waiters[j].by = who
<1>1. /\ Len(Line) = Len(tail) + Len(waiters) /\ Len(tail) \in Nat /\ Len(waiters) \in Nat
      /\ Line[i] = IF i <= Len(tail) THEN tail[i] ELSE waiters[i - Len(tail)]
      /\ DOMAIN waiters = 1 .. Len(waiters) /\ DOMAIN tail = 1 .. Len(tail)
  BY LineIs, LineTasks
<1>2. CASE i <= Len(tail)
  <2>1. i \in DOMAIN tail
    BY <1>1, <1>2
  <2> QED
    BY <1>1, <1>2, <2>1
<1>3. CASE ~ (i <= Len(tail))
  <2>1. i - Len(tail) \in DOMAIN waiters
    BY <1>1, <1>3
  <2> QED
    BY <1>1, <1>3, <2>1
<1> QED
  BY <1>2, <1>3

\* Where pull() goes on to when its task has a slot.
LEMMA PullAfterIs ==
  ASSUME QInv, NEW t
  PROVE  /\ PullAfter(t).phase = pull.phase
         /\ t.kind = "complete" => PullAfter(t).at = "drain"
         /\ t.kind # "complete" =>
              \/ PullAfter(t).at = "emit"
              \/ PullAfter(t).at = "idle" /\ pull.phase = "push"
              \/ PullAfter(t).at \in {"settle", "closing"} /\ pull.phase # "push"
<1>1. pull \in PullStates
  BY DEF QInv, CaptureTypeOK
<1>2. CASE t.kind = "complete"
  BY <1>1, <1>2 DEF PullAfter, PullStates
<1>3. CASE t.kind # "complete" /\ pull.left > 0
  BY <1>1, <1>3 DEF PullAfter, PullStates
<1>4. CASE t.kind # "complete" /\ ~(pull.left > 0)
  BY <1>1, <1>4 DEF PullAfter, PullStates
<1> QED
  BY <1>2, <1>3, <1>4

\* A step that leaves the queue and the rows alone, and the waits for a slot, keeps
\* what they say.
LEMMA CalmHolds ==
  ASSUME CInv, QInv', FlagInv',
         UNCHANGED <<queueVars, payloadVars, sent>>,
         hashed'.final = hashed.final, hashed'.updates = hashed.updates \/ pull.at = "emit",
         terminal => terminal',
         cancelled' = cancelled \/ (cancelled' /\ ~ terminal),
         \/ pull' = pull
         \/ pull.at # "slot" /\ pull'.at # "slot" /\ (pull.at = "drain" => Drained("pull")),
         cancel' = cancel \/ (cancel # "slot" /\ cancel' # "slot")
  PROVE  CInv'
<1>1. /\ Line' = Line /\ tail' = tail /\ waiters' = waiters /\ recorded' = recorded /\ row' = row
      /\ captureFailed' = captureFailed /\ sent' = sent
  BY DEF Line, queueVars, payloadVars
<1>2. Off' = Off
  BY <1>1 DEF Off
<1>3. /\ Len(Line) \in Nat /\ DOMAIN Line = 1 .. Len(Line)
      /\ \A i \in 1 .. Len(Line) : Line[i] \in Tasks
  BY LineTasks DEF CInv
<1>4. LineInv'
  <2>1. \A i \in DOMAIN Line' : Line'[i].kind = "start" => i = 1
    BY <1>1 DEF CInv, LineInv
  <2>2. \A i, j \in DOMAIN Line' : i < j /\ Line'[i].kind = "complete" => Line'[j].kind = "complete"
    BY <1>1 DEF CInv, LineInv
  <2>3. hashed'.final => \A i \in DOMAIN Line' : Line'[i].kind = "complete"
    BY <1>1 DEF CInv, LineInv
  <2>4. ASSUME NEW i \in DOMAIN Line, Line[i].kind = "complete"
        PROVE  /\ terminal' /\ (Line[i].of = "cancelled" <=> cancelled')
               /\ Line[i].by = "pull" => pull'.at \in {"slot", "drain"}
               /\ Line[i].by = "cancel" => cancelled'
               /\ ~ hashed'.final /\ ~ cancelled' => hashed'.updates = sent'
    <3>1. /\ terminal /\ (Line[i].of = "cancelled" <=> cancelled)
          /\ Line[i].by = "pull" => pull.at \in {"slot", "drain"}
          /\ Line[i].by = "cancel" => cancelled
          /\ ~ hashed.final /\ ~ cancelled => hashed.updates = sent
      BY <2>4 DEF CInv, LineInv
    <3>2. terminal' /\ cancelled' = cancelled
      BY <3>1
    <3>3. Line[i].by = "pull" => pull' = pull
      <4> SUFFICES ASSUME Line[i].by = "pull", pull' # pull PROVE FALSE
        OBVIOUS
      <4>1. Drained("pull") /\ pull.at # "slot"
        BY <3>1
      <4>2. \/ \E j \in DOMAIN tail : tail[j].by = "pull"
            \/ \E j \in DOMAIN waiters : waiters[j].by = "pull"
        BY <1>3, LineBy DEF CInv
      <4> QED
        BY <4>1, <4>2 DEF Drained, Unfinished, CInv, WaitInv
    <3>4. Line[i].by \in {"pull", "cancel"}
      BY <1>3, <2>4, TaskIs
    <3>5. ~ hashed.final /\ ~ cancelled => hashed'.updates = sent
      <4> SUFFICES ASSUME ~ cancelled, ~ hashed.final PROVE hashed'.updates = sent
        OBVIOUS
      <4>1. Line[i].by = "pull"
        BY <3>1, <3>4
      <4>2. pull.at # "emit"
        BY <3>1, <4>1
      <4> QED
        BY <3>1, <4>2
    <3> QED
      BY <1>1, <3>1, <3>2, <3>3, <3>5
  <2> QED
    BY <1>1, <2>1, <2>2, <2>3, <2>4 DEF LineInv
<1>5. WaitInv'
  <2>1. pull'.at = "slot" <=> pull.at = "slot"
    OBVIOUS
  <2>2. cancel' = "slot" <=> cancel = "slot"
    OBVIOUS
  <2> QED
    BY <1>1, <2>1, <2>2 DEF CInv, WaitInv
<1>6. RecordInv'
  BY <1>1, <1>2 DEF CInv, RecordInv
<1>7. RowInv'
  <2>1. row.status \in Final => cancelled' = cancelled /\ terminal'
    BY DEF CInv, RowInv
  <2>2. ~ cancelled' => ~ cancelled
    BY DEF CInv, QInv, CaptureTypeOK
  <2> QED
    BY <1>1, <2>1, <2>2 DEF CInv, RowInv
<1> QED
  BY <1>4, <1>5, <1>6, <1>7 DEF CInv

\* What an error leaves of the flags: the catch branch, or a stream given up.
LEMMA ThrowFlags ==
  ASSUME CInv, Throw \/ (Catch /\ pull.phase # "interrupted"),
         UNCHANGED <<queueVars, cancel, sent>>, hashed'.final = hashed.final,
         pull.at \in {"read", "emit", "settle", "closing", "drain"},
         pull.at \in {"closing", "drain"} => ~ cancelled \/ pull.phase # "interrupted",
         \/ hashed'.updates = hashed.updates
         \/ pull.at = "emit" /\ stream # "readable"
  PROVE  /\ FlagInv' /\ (terminal => terminal') /\ cancelled' = cancelled
         /\ pull'.at # "slot"
<1>1. Line' = Line
  BY DEF Line, queueVars
<1>2. pull \in PullStates /\ sent' = sent /\ cancel' = cancel
  BY DEF CInv, QInv, CaptureTypeOK
<1>3. stream # "closed"
  BY DEF CInv, FlagInv
<1>4. CASE Catch /\ pull.phase # "interrupted"
  <2>1. /\ pull'.at = "settle" /\ pull'.phase = "interrupted" /\ terminal' = TRUE
        /\ cancelled' = cancelled /\ stream' = stream
    BY <1>4 DEF Catch
  <2>2. hashed.updates = sent
    BY <1>4 DEF CInv, FlagInv
  <2> QED
    BY <1>1, <1>2, <1>3, <2>1, <2>2 DEF CInv, FlagInv
<1>5. CASE Reject /\ pull.phase = "interrupted"
  <2>1. /\ pull'.at = "failed" /\ pull'.phase = "interrupted"
        /\ stream' = (IF stream = "readable" THEN "errored" ELSE stream)
        /\ terminal' = terminal /\ cancelled' = cancelled
    BY <1>2, <1>5 DEF Reject, PullStates
  <2>2. stream' \notin {"readable", "closed"} /\ (cancelled => stream' = "cancelled")
    BY <1>3, <2>1 DEF CInv, FlagInv
  <2>3. terminal
    BY <1>5 DEF CInv, FlagInv
  <2> QED
    BY <1>1, <1>2, <2>1, <2>2, <2>3 DEF CInv, FlagInv
<1> QED
  BY <1>4, <1>5 DEF Throw

\* finish() is entered once, by the pull that makes the stream terminal.
LEMMA FinishFlags ==
  ASSUME CInv, FinishStream, pull.at \in {"read", "return"},
         UNCHANGED <<queueVars, cancel, sent, hashed>>
  PROVE  /\ FlagInv' /\ (terminal => terminal') /\ cancelled' = cancelled
         /\ pull'.at # "slot"
<1>1. Line' = Line
  BY DEF Line, queueVars
<1>2. pull \in PullStates /\ sent' = sent /\ cancel' = cancel /\ hashed' = hashed
  BY DEF CInv, QInv, CaptureTypeOK
<1>3. stream # "closed" /\ pull.phase = "push" /\ hashed.updates = sent
  BY DEF CInv, FlagInv
<1>4. stream' = stream /\ cancelled' = cancelled
  BY DEF FinishStream
<1>5. CASE terminal
  <2>1. pull'.at = "idle" /\ pull'.phase = "push" /\ terminal' = terminal
    BY <1>2, <1>3, <1>5 DEF FinishStream, PullStates
  <2> QED
    BY <1>1, <1>2, <1>3, <1>4, <2>1 DEF CInv, FlagInv
<1>6. CASE ~ terminal
  <2>1. /\ terminal' = TRUE
        /\ pull'.at \in {"emit", "settle"} /\ pull'.phase = "finish"
    BY <1>6 DEF FinishStream, Emitting
  <2> QED
    BY <1>1, <1>2, <1>3, <1>4, <2>1 DEF CInv, FlagInv
<1> QED
  BY <1>5, <1>6

LEMMA PullHolds ==
  ASSUME CInv, Pull, QInv'
  PROVE  CInv'
<1>1. /\ pull' = [pull EXCEPT !.at = "read"] /\ pull.at = "idle"
      /\ UNCHANGED <<cancel, streamVars, hashed, queueVars, payloadVars>>
  BY DEF Pull
<1>2. pull'.at = "read" /\ pull'.phase = pull.phase
  BY <1>1 DEF CInv, QInv, CaptureTypeOK, PullStates
<1>3. Line' = Line
  BY <1>1 DEF Line, queueVars
<1>4. FlagInv'
  BY <1>1, <1>2, <1>3 DEF CInv, FlagInv, streamVars
<1> QED
  BY <1>1, <1>2, <1>4, CalmHolds DEF streamVars

LEMMA ReadHolds ==
  ASSUME CInv, Read, QInv'
  PROVE  CInv'
<1>1. /\ pull.at = "read"
      /\ UNCHANGED <<cancel, sent, hashed, queueVars, payloadVars>>
  BY DEF Read
<1>2. Line' = Line /\ pull \in PullStates
  BY <1>1 DEF Line, queueVars, CInv, QInv, CaptureTypeOK
<1>3. pull.phase = "push" /\ hashed.updates = sent
  BY <1>1 DEF CInv, FlagInv
<1>4. FlagInv' /\ (terminal => terminal') /\ cancelled' = cancelled /\ pull'.at # "slot"
  <2>1. CASE /\ pull'.at \in {"emit", "idle", "read", "return"} /\ pull'.phase = "push"
             /\ UNCHANGED <<terminal, cancelled, stream>>
    BY <1>1, <1>2, <1>3, <2>1 DEF CInv, FlagInv
  <2>2. ASSUME NEW n \in 0 .. MaxOutputs,
               pull' = IF n > 0 THEN Emitting("push", n)
                       ELSE [pull EXCEPT !.at = IF terminal THEN "idle" ELSE "read"]
        PROVE  pull'.at \in {"emit", "idle", "read"} /\ pull'.phase = "push"
    <3>1. CASE n > 0
      BY <2>2, <3>1 DEF Emitting
    <3>2. CASE ~ (n > 0)
      BY <1>2, <1>3, <2>2, <3>2 DEF PullStates
    <3> QED
      BY <3>1, <3>2
  <2>3. CASE FinishStream
    BY <1>1, <2>3, FinishFlags
  <2>4. CASE pull' = [pull EXCEPT !.at = "return"] /\ UNCHANGED <<terminal, cancelled, stream>>
    <3>1. pull'.at = "return" /\ pull'.phase = "push"
      BY <1>2, <1>3, <2>4 DEF PullStates
    <3> QED
      BY <2>1, <2>4, <3>1
  <2>5. CASE Catch
    BY <1>1, <1>3, <2>5, ThrowFlags
  <2> QED
    BY <2>1, <2>2, <2>3, <2>4, <2>5 DEF Read
<1> QED
  BY <1>1, <1>4, CalmHolds

LEMMA ReturnedHolds ==
  ASSUME CInv, Returned, QInv'
  PROVE  CInv'
<1>1. /\ pull.at = "return" /\ FinishStream
      /\ UNCHANGED <<cancel, sent, hashed, queueVars, payloadVars>>
  BY DEF Returned
<1>2. FlagInv' /\ (terminal => terminal') /\ cancelled' = cancelled /\ pull'.at # "slot"
  BY <1>1, FinishFlags
<1> QED
  BY <1>1, <1>2, CalmHolds

LEMMA SettlePullHolds ==
  ASSUME CInv, SettlePull, QInv'
  PROVE  CInv'
<1>1. /\ pull.at = "settle"
      /\ UNCHANGED <<cancel, sent, hashed, queueVars, payloadVars>>
  BY DEF SettlePull
<1>2. Line' = Line /\ pull \in PullStates /\ terminal /\ stream # "closed"
  BY <1>1 DEF Line, queueVars, CInv, QInv, CaptureTypeOK, FlagInv
<1>3. FlagInv' /\ (terminal => terminal') /\ cancelled' = cancelled /\ pull'.at # "slot"
  <2>1. CASE /\ pull.phase = "finish"
             /\ pull'.at \in {"emit", "closing"} /\ pull'.phase \in {"failed", "complete"}
             /\ UNCHANGED <<terminal, cancelled, stream>>
    <3>1. hashed.updates = sent
      BY <2>1 DEF CInv, FlagInv
    <3> QED
      BY <1>1, <1>2, <2>1, <3>1 DEF CInv, FlagInv
  <2>2. CASE /\ pull.phase = "interrupted" /\ pull'.phase = "interrupted"
             /\ pull'.at = IF cancelled THEN "closing" ELSE "emit"
             /\ UNCHANGED <<terminal, cancelled, stream>>
    BY <1>1, <1>2, <2>2 DEF CInv, FlagInv
  <2>3. CASE Throw
    BY <1>1, <2>3, ThrowFlags
  <2>4. ASSUME pull.phase = "finish",
               \/ pull' = Emitting("failed", 1)
               \/ pull' = IF OpenAI THEN Emitting("complete", 1)
                          ELSE [at |-> "closing", phase |-> "complete", left |-> 0]
        PROVE  pull'.at \in {"emit", "closing"} /\ pull'.phase \in {"failed", "complete"}
    BY <2>4 DEF Emitting
  <2>5. ASSUME pull.phase = "interrupted",
               pull' = IF cancelled THEN [pull EXCEPT !.at = "closing"]
                       ELSE Emitting("interrupted", 1)
        PROVE  /\ pull'.phase = "interrupted"
               /\ pull'.at = IF cancelled THEN "closing" ELSE "emit"
    <3>1. CASE cancelled
      BY <1>2, <2>5, <3>1 DEF PullStates
    <3>2. CASE ~ cancelled
      BY <2>5, <3>2 DEF Emitting
    <3> QED
      BY <3>1, <3>2
  <2> QED
    BY <2>1, <2>2, <2>3, <2>4, <2>5 DEF SettlePull
<1> QED
  BY <1>1, <1>3, CalmHolds

LEMMA DrainPullHolds ==
  ASSUME CInv, DrainPull, QInv'
  PROVE  CInv'
<1>1. /\ pull.at = "drain" /\ Drained("pull")
      /\ UNCHANGED <<cancel, sent, hashed, queueVars, payloadVars>>
  BY DEF DrainPull
<1>2. Line' = Line /\ pull \in PullStates /\ stream # "closed"
  BY <1>1 DEF Line, queueVars, CInv, QInv, CaptureTypeOK, FlagInv
<1>3. CASE /\ cancelled \/ stream = "readable"
           /\ pull' = [pull EXCEPT !.at = "done"]
           /\ stream' = IF cancelled THEN stream ELSE "closed"
           /\ UNCHANGED <<terminal, cancelled>>
  <2>1. pull'.at = "done" /\ pull'.phase = pull.phase
    BY <1>2, <1>3 DEF PullStates
  <2>2. ~ cancelled => Line = <<>> /\ hashed.final
    <3> SUFFICES ASSUME ~ cancelled PROVE Line = <<>> /\ hashed.final
      OBVIOUS
    <3>1. DOMAIN Line = 1 .. Len(Line) /\ Len(Line) \in Nat /\ (Line = <<>> <=> Len(Line) = 0)
          /\ \A i \in 1 .. Len(Line) : Line[i] \in Tasks
      BY LineTasks DEF CInv
    <3>2. ASSUME NEW i \in 1 .. Len(Line), Line[i].by = "pull" PROVE FALSE
      <4>1. \/ \E j \in DOMAIN tail : tail[j].by = "pull"
            \/ \E j \in DOMAIN waiters : waiters[j].by = "pull"
        BY <3>2, LineBy DEF CInv
      <4> QED
        BY <1>1, <4>1 DEF CInv, WaitInv, Drained, Unfinished
    <3>3. hashed.final
      BY <1>1, <3>1, <3>2 DEF CInv, FlagInv
    <3>4. ASSUME NEW i \in 1 .. Len(Line) PROVE FALSE
      <4>1. Line[i].kind = "complete"
        BY <3>1, <3>3 DEF CInv, LineInv
      <4>2. Line[i].by = "cancel"
        BY <3>1, <3>2, <4>1, TaskIs
      <4> QED
        BY <3>1, <4>1, <4>2 DEF CInv, LineInv
    <3>5. Len(Line) = 0
      BY <3>1, <3>4
    <3> QED
      BY <3>1, <3>3, <3>5
  <2>3. FlagInv'
    BY <1>1, <1>2, <1>3, <2>1, <2>2 DEF CInv, FlagInv
  <2> QED
    BY <1>1, <1>3, <2>1, <2>3, CalmHolds
<1>4. CASE ~ (cancelled \/ stream = "readable") /\ Throw
  <2>1. FlagInv' /\ (terminal => terminal') /\ cancelled' = cancelled /\ pull'.at # "slot"
    BY <1>1, <1>4, ThrowFlags
  <2> QED
    BY <1>1, <2>1, CalmHolds
<1> QED
  BY <1>3, <1>4 DEF DrainPull

\* The steps of cancel() that enqueue nothing.
LEMMA CancelHolds ==
  ASSUME CInv, QInv',
         \/ CancelStream \/ CancelRoute \/ CancelReturn \/ CancelDrain
         \/ CancelSettle /\ UNCHANGED queueVars
  PROVE  CInv'
<1>1. UNCHANGED <<pull, sent, hashed, queueVars, payloadVars>>
  BY DEF CancelStream, CancelRoute, CancelReturn, CancelDrain, CancelSettle, streamVars
<1>2. Line' = Line /\ pull' = pull /\ sent' = sent /\ hashed' = hashed
  BY <1>1 DEF Line, queueVars
<1>3. CASE CancelStream
  <2>1. /\ hashed.updates = sent /\ ~ cancelled /\ cancel \in {"none", "done"}
        /\ stream = "readable" /\ stream' = "cancelled"
    BY <1>3 DEF CancelStream, CInv, FlagInv
  <2>2. \/ terminal /\ cancel' = "done" /\ terminal' = terminal /\ cancelled' = cancelled
        \/ ~ terminal /\ cancel' = "route" /\ terminal' = TRUE /\ cancelled' = TRUE
    BY <1>3 DEF CancelStream
  <2>3. FlagInv'
    BY <1>2, <2>1, <2>2 DEF CInv, FlagInv
  <2> QED
    BY <1>1, <1>2, <2>1, <2>2, <2>3, CalmHolds
<1>4. ASSUME cancel \notin {"none", "done", "slot"}, cancel' # "slot", UNCHANGED streamVars
      PROVE  CInv'
  <2>1. stream' = stream /\ terminal' = terminal /\ cancelled' = cancelled /\ cancelled
    BY <1>4 DEF streamVars, CInv, FlagInv
  <2>2. FlagInv'
    BY <1>2, <2>1 DEF CInv, FlagInv
  <2> QED
    BY <1>1, <1>2, <1>4, <2>1, <2>2, CalmHolds
<1>5. CASE CancelRoute \/ CancelReturn \/ CancelDrain
  BY <1>4, <1>5 DEF CancelRoute, CancelReturn, CancelDrain
<1>6. CASE CancelSettle /\ UNCHANGED queueVars /\ cancel' # "slot"
  BY <1>4, <1>6 DEF CancelSettle
<1>7. ASSUME CancelSettle, UNCHANGED queueVars PROVE cancel' # "slot"
  <2> SUFFICES ASSUME cancel' = "slot" PROVE FALSE
    OBVIOUS
  <2>1. waiters' = Append(waiters, Complete("cancelled", "cancel")) /\ waiters' = waiters
    BY <1>7 DEF CancelSettle, Enqueue, queueVars
  <2>2. waiters \in Seq(Tasks) /\ Complete("cancelled", "cancel") \in Tasks
    BY DEF CInv, QInv, CaptureTypeOK, Tasks, Complete, Final
  <2>3. Len(Append(waiters, Complete("cancelled", "cancel"))) = Len(waiters) + 1
        /\ Len(waiters) \in Nat
    BY <2>2
  <2> QED
    BY <2>1, <2>3
<1> QED
  BY <1>3, <1>5, <1>6, <1>7

\* Who enqueues waits for a slot if, and only if, the queue is full.
LEMMA EnqueueWaits ==
  ASSUME CInv, NEW t \in Tasks, Enqueue(t), QInv',
         \/ /\ t.by = "pull" /\ pull.at # "slot" /\ cancel' = cancel
            /\ pull'.at = "slot" <=> Full(t)
         \/ /\ t.by = "cancel" /\ cancel # "slot" /\ pull' = pull
            /\ cancel' = "slot" <=> Full(t)
  PROVE  WaitInv'
<1>1. waiters \in Seq(Tasks) /\ Len(waiters) \in Nat /\ DOMAIN waiters = 1 .. Len(waiters)
  BY LineTasks DEF CInv, QInv, CaptureTypeOK
<1> DEFINE m == Len(waiters)
<1>2. CASE Full(t)
  <2>1. /\ Len(waiters') = m + 1 /\ waiters'[m + 1] = t /\ DOMAIN waiters' = 1 .. m + 1
        /\ \A i \in 1 .. m : waiters'[i] = waiters[i]
    <3>1. waiters' = Append(waiters, t)
      BY <1>2 DEF Enqueue
    <3> QED
      BY <1>1, <3>1
  <2> HIDE DEF m
  <2>2. m \in Nat /\ DOMAIN waiters = 1 .. m /\ m + 1 \in 1 .. m + 1
    BY <1>1 DEF m
  <2>3. ASSUME NEW i \in 1 .. m + 1 PROVE i = m + 1 \/ (i \in 1 .. m /\ waiters'[i] = waiters[i])
    BY <2>1, <2>2
  <2>4. \A i \in 1 .. m : i \in 1 .. m + 1
    BY <2>2
  <2>5. \A i \in 1 .. m : waiters[i].by # t.by
    BY <2>2 DEF CInv, WaitInv
  <2>6. \A i \in DOMAIN waiters' : waiters'[i].by \in {"pull", "cancel"}
    BY <2>1, <2>2, <2>3 DEF CInv, WaitInv
  <2>7. \A i, j \in DOMAIN waiters' : waiters'[i].by = waiters'[j].by => i = j
    <3> SUFFICES ASSUME NEW i \in 1 .. m + 1, NEW j \in 1 .. m + 1,
                        waiters'[i].by = waiters'[j].by
                 PROVE  i = j
      BY <2>1
    <3>1. CASE i = m + 1 /\ j # m + 1
      BY <2>1, <2>3, <2>5, <3>1
    <3>2. CASE i # m + 1 /\ j = m + 1
      BY <2>1, <2>3, <2>5, <3>2
    <3>3. CASE i # m + 1 /\ j # m + 1
      BY <2>2, <2>3, <3>3 DEF CInv, WaitInv
    <3> QED
      BY <3>1, <3>2, <3>3
  <2>8. ASSUME NEW who \in {"pull", "cancel"}
        PROVE  (\E i \in DOMAIN waiters' : waiters'[i].by = who)
               <=> t.by = who \/ \E i \in DOMAIN waiters : waiters[i].by = who
    BY <2>1, <2>2, <2>3, <2>4
  <2> QED
    BY <1>2, <2>6, <2>7, <2>8 DEF CInv, WaitInv
<1>3. CASE ~ Full(t)
  <2>1. waiters = <<>> /\ waiters' = <<>>
    BY <1>3, EnqueueLine DEF CInv
  <2>2. DOMAIN waiters = {} /\ DOMAIN waiters' = {}
    BY <2>1
  <2> QED
    BY <1>3, <2>2 DEF CInv, WaitInv
<1> QED
  BY <1>2, <1>3

\* The line with a task more, for what does not care which.
LEMMA Longer ==
  ASSUME CInv, NEW t \in Tasks, Enqueue(t), QInv', t.kind # "start"
  PROVE  /\ Len(Line) \in Nat /\ DOMAIN Line = 1 .. Len(Line) /\ DOMAIN Line' = 1 .. Len(Line) + 1
         /\ Len(Line') = Len(Line) + 1 /\ Line'[Len(Line) + 1] = t
         /\ \A i \in 1 .. Len(Line) : Line'[i] = Line[i] /\ Line[i] \in Tasks
         /\ \A i \in 1 .. Len(Line) + 1 : i = Len(Line) + 1 \/ i \in 1 .. Len(Line)
         /\ \A i \in 1 .. Len(Line) : i \in 1 .. Len(Line) + 1 /\ i < Len(Line) + 1
         /\ Len(Line) + 1 \in 1 .. Len(Line) + 1
         /\ Off' = Off /\ Off \in {0, 1} /\ (Off = 1 => Len(Line) >= 1)
<1>1. /\ Len(Line') = Len(Line) + 1 /\ Line'[Len(Line) + 1] = t
      /\ \A i \in 1 .. Len(Line) : Line'[i] = Line[i]
  BY EnqueueLine DEF CInv
<1>2. /\ Len(Line) \in Nat /\ DOMAIN Line = 1 .. Len(Line)
      /\ \A i \in 1 .. Len(Line) : Line[i] \in Tasks
      /\ Line = <<>> <=> Len(Line) = 0
  BY LineTasks DEF CInv
<1>3. DOMAIN Line' = 1 .. Len(Line')
  <2>1. Line' \in Seq(Tasks)
    <3>1. tail' \in Seq(Tasks) /\ waiters' \in Seq(Tasks)
      BY DEF QInv, CaptureTypeOK
    <3> QED
      BY <3>1, JoinIs DEF Line
  <2> QED
    BY <2>1
<1> DEFINE n == Len(Line)
<1> HIDE DEF n
<1>4. /\ \A i \in 1 .. n + 1 : i = n + 1 \/ i \in 1 .. n
      /\ \A i \in 1 .. n : i \in 1 .. n + 1 /\ i < n + 1
      /\ n + 1 \in 1 .. n + 1
  <2>1. n \in Nat
    BY <1>2 DEF n
  <2> QED
    BY <2>1
<1>5. Line' # <<>>
  <2>1. Len(Line') # 0
    BY <1>1, <1>2
  <2> QED
    BY <2>1
<1>6. Off' = Off /\ Off \in {0, 1} /\ (Off = 1 => Len(Line) >= 1)
  <2>1. CASE Line = <<>>
    <3>1. Len(Line) = 0 /\ Line'[1] = t
      BY <1>1, <1>2, <2>1
    <3> QED
      BY <1>5, <2>1, <3>1 DEF Off
  <2>2. CASE Line # <<>>
    <3>1. Len(Line) >= 1 /\ 1 \in 1 .. Len(Line)
      BY <1>2, <2>2
    <3> QED
      BY <1>1, <1>5, <2>2, <3>1 DEF Off
  <2> QED
    BY <2>1, <2>2
<1> QED
  BY <1>1, <1>2, <1>3, <1>4, <1>6 DEF n

\* What emit() hands to the client comes next in the line.
LEMMA EmitLine ==
  ASSUME CInv, QInv', pull.at = "emit", stream = "readable", ~ hashed.final,
         Enqueue(Event(sent)), sent' = sent + 1, hashed'.final = hashed.final,
         UNCHANGED payloadVars, UNCHANGED <<terminal, cancelled>>
  PROVE  LineInv' /\ RecordInv' /\ RowInv'
<1> DEFINE t == Event(sent)
           n == Len(Line)
<1>1. /\ t \in Tasks /\ t.kind = "event" /\ t.of = sent /\ t.by = "pull"
      /\ sent \in Nat /\ recorded \in Seq(Nat) /\ Len(recorded) \in Nat
      /\ DOMAIN recorded = 1 .. Len(recorded)
  BY DEF CInv, QInv, CaptureTypeOK, Event, Tasks
<1> HIDE DEF t
<1>2. /\ n \in Nat /\ DOMAIN Line = 1 .. n /\ DOMAIN Line' = 1 .. n + 1
      /\ Len(Line') = n + 1 /\ Line'[n + 1] = t
      /\ \A i \in 1 .. n : Line'[i] = Line[i] /\ Line[i] \in Tasks
      /\ \A i \in 1 .. n + 1 : i = n + 1 \/ i \in 1 .. n
      /\ Off' = Off /\ Off \in {0, 1} /\ (Off = 1 => n >= 1)
  BY <1>1, Longer DEF t
<1> HIDE DEF n
<1>3. ASSUME NEW i \in 1 .. n PROVE Line[i].kind # "complete"
  <2> SUFFICES ASSUME Line[i].kind = "complete" PROVE FALSE
    OBVIOUS
  <2>1. Line[i].by \in {"pull", "cancel"}
    BY <1>2, TaskIs
  <2>2. ~ cancelled
    BY DEF CInv, FlagInv
  <2> QED
    BY <1>2, <2>1, <2>2 DEF CInv, LineInv
<1>4. ASSUME NEW i \in 1 .. n + 1 PROVE Line'[i].kind # "complete"
  <2>1. CASE i = n + 1
    BY <1>1, <1>2, <2>1
  <2>2. CASE i \in 1 .. n
    BY <1>2, <1>3, <2>2
  <2> QED
    BY <1>2, <2>1, <2>2
<1>5. ASSUME NEW i \in 1 .. n + 1, Line'[i].kind = "start" PROVE i = 1
  <2>1. CASE i = n + 1
    BY <1>1, <1>2, <1>5, <2>1
  <2>2. CASE i \in 1 .. n
    BY <1>2, <1>5, <2>2 DEF CInv, LineInv
  <2> QED
    BY <1>2, <2>1, <2>2
<1>6. LineInv'
  BY <1>2, <1>4, <1>5 DEF LineInv
<1>7. UNCHANGED <<captureFailed, row, recorded>>
  BY DEF payloadVars
<1>8. RecordInv'
  <2> SUFFICES ASSUME ~ captureFailed PROVE RecordInv'
    BY <1>7 DEF RecordInv
  <2> DEFINE r == Len(recorded)
  <2>1. /\ r <= sent /\ sent <= r + n - Off
        /\ \A i \in DOMAIN recorded : recorded[i] = i - 1
        /\ \A i \in 1 .. n :
             /\ Line[i].kind = "event" <=> (i > Off /\ r + i - Off <= sent)
             /\ Line[i].kind = "event" => Line[i].of = r + i - Off - 1
        /\ row.status = "none" <=> Off = 1
    BY <1>2 DEF CInv, RecordInv, n
  <2>2. r \in Nat /\ sent \in Nat
    BY <1>1
  <2> HIDE DEF r
  <2>3. sent = r + n - Off
    <3>0. n \in Nat /\ Off \in Nat /\ sent <= r + n - Off
      BY <1>2, <2>1
    <3> SUFFICES ASSUME sent < r + n - Off PROVE FALSE
      BY <2>2, <3>0
    <3>1. n \in 1 .. n /\ n > Off
      BY <1>2, <2>1, <2>2
    <3>2. Line[n].kind # "event"
      BY <2>1, <2>2, <1>2, <3>1
    <3>3. Line[n].kind = "start"
      BY <1>2, <1>3, <3>1, <3>2, TaskIs
    <3>4. n = 1
      BY <1>2, <3>1, <3>3 DEF CInv, LineInv
    <3>5. Line # <<>>
      BY <3>4, LineTasks DEF n, CInv
    <3>6. Off = 1
      BY <3>3, <3>4, <3>5 DEF Off
    <3> QED
      BY <3>1, <3>4, <3>6
  <2>4. ASSUME NEW i \in 1 .. n + 1
        PROVE  /\ Line'[i].kind = "event" <=> (i > Off /\ r + i - Off <= sent + 1)
               /\ Line'[i].kind = "event" => Line'[i].of = r + i - Off - 1
    <3>1. CASE i = n + 1
      <4>1. i > Off /\ r + i - Off <= sent + 1 /\ r + i - Off - 1 = sent
        BY <1>2, <2>2, <2>3, <3>1
      <4> QED
        BY <1>1, <1>2, <3>1, <4>1
    <3>2. CASE i \in 1 .. n
      <4>1. r + i - Off <= sent /\ r + i - Off <= sent + 1
        BY <1>2, <2>2, <2>3, <3>2
      <4> QED
        BY <1>2, <2>1, <3>2, <4>1
    <3> QED
      BY <1>2, <3>1, <3>2
  <2>5. r <= sent + 1 /\ sent + 1 <= r + (n + 1) - Off
    BY <1>2, <2>1, <2>2, <2>3
  <2>6. Len(recorded') = r /\ Len(Line') = n + 1 /\ sent' = sent + 1
    BY <1>2, <1>7 DEF r
  <2> QED
    BY <1>2, <1>7, <2>1, <2>4, <2>5, <2>6 DEF RecordInv
<1>9. RowInv'
  BY <1>7 DEF CInv, RowInv
<1> QED
  BY <1>6, <1>8, <1>9

\* A completion takes its place behind all that was sent before it.
LEMMA CompleteLine ==
  ASSUME CInv, QInv', NEW t \in Tasks, t.kind = "complete", Enqueue(t),
         terminal, t.of = "cancelled" <=> cancelled, t.by = "cancel" => cancelled,
         t.by = "pull" => pull'.at \in {"slot", "drain"},
         ~ hashed.final /\ ~ cancelled => hashed.updates = sent,
         pull' = pull \/ pull.at \notin {"slot", "drain"},
         UNCHANGED <<payloadVars, hashed, sent, terminal, cancelled>>
  PROVE  LineInv' /\ RecordInv' /\ RowInv'
<1> DEFINE n == Len(Line)
<1>1. sent \in Nat /\ recorded \in Seq(Nat) /\ Len(recorded) \in Nat
  BY DEF CInv, QInv, CaptureTypeOK
<1>2. /\ n \in Nat /\ DOMAIN Line = 1 .. n /\ DOMAIN Line' = 1 .. n + 1
      /\ Len(Line') = n + 1 /\ Line'[n + 1] = t
      /\ \A i \in 1 .. n : Line'[i] = Line[i] /\ Line[i] \in Tasks
      /\ \A i \in 1 .. n + 1 : i = n + 1 \/ i \in 1 .. n
      /\ Off' = Off /\ Off \in {0, 1} /\ (Off = 1 => n >= 1)
  BY Longer
<1>3. UNCHANGED <<captureFailed, row, recorded>>
  BY DEF payloadVars
<1> HIDE DEF n
<1>4. LineInv'
  <2>1. ASSUME NEW i \in 1 .. n + 1, Line'[i].kind = "start" PROVE i = 1
    BY <1>2, <2>1 DEF CInv, LineInv
  <2>2. ASSUME NEW i \in 1 .. n + 1, NEW j \in 1 .. n + 1, i < j, Line'[i].kind = "complete"
        PROVE  Line'[j].kind = "complete"
    <3>1. CASE j = n + 1
      BY <1>2, <3>1
    <3>2. CASE j \in 1 .. n
      <4>1. i \in 1 .. n
        BY <1>2, <2>2, <3>2
      <4> QED
        BY <1>2, <2>2, <3>2, <4>1 DEF CInv, LineInv
    <3> QED
      BY <1>2, <3>1, <3>2
  <2>3. ASSUME hashed.final, NEW i \in 1 .. n + 1 PROVE Line'[i].kind = "complete"
    BY <1>2, <2>3 DEF CInv, LineInv
  <2>4. ASSUME NEW i \in 1 .. n + 1, Line'[i].kind = "complete"
        PROVE  /\ terminal /\ (Line'[i].of = "cancelled" <=> cancelled)
               /\ Line'[i].by = "pull" => pull'.at \in {"slot", "drain"}
               /\ Line'[i].by = "cancel" => cancelled
               /\ ~ hashed.final /\ ~ cancelled => hashed.updates = sent
    <3>1. CASE i = n + 1
      BY <1>2, <3>1
    <3>2. CASE i \in 1 .. n
      BY <1>2, <2>4, <3>2 DEF CInv, LineInv
    <3> QED
      BY <1>2, <3>1, <3>2
  <2> QED
    BY <1>2, <2>1, <2>2, <2>3, <2>4 DEF LineInv
<1>5. RecordInv'
  <2> SUFFICES ASSUME ~ captureFailed PROVE RecordInv'
    BY <1>3 DEF RecordInv
  <2> DEFINE r == Len(recorded)
  <2>1. /\ r <= sent /\ sent <= r + n - Off
        /\ \A i \in DOMAIN recorded : recorded[i] = i - 1
        /\ \A i \in 1 .. n :
             /\ Line[i].kind = "event" <=> (i > Off /\ r + i - Off <= sent)
             /\ Line[i].kind = "event" => Line[i].of = r + i - Off - 1
        /\ row.status = "none" <=> Off = 1
        /\ hashed.final => row.capture = "complete"
    BY <1>2 DEF CInv, RecordInv, n
  <2>2. r \in Nat /\ sent \in Nat
    BY <1>1
  <2> HIDE DEF r
  <2>3. ASSUME NEW i \in 1 .. n + 1
        PROVE  /\ Line'[i].kind = "event" <=> (i > Off /\ r + i - Off <= sent)
               /\ Line'[i].kind = "event" => Line'[i].of = r + i - Off - 1
    <3>1. CASE i = n + 1
      <4>1. ~ (r + i - Off <= sent)
        BY <1>2, <2>1, <2>2, <3>1
      <4> QED
        BY <1>2, <3>1, <4>1
    <3>2. CASE i \in 1 .. n
      BY <1>2, <2>1, <3>2
    <3> QED
      BY <1>2, <3>1, <3>2
  <2>4. sent <= r + (n + 1) - Off
    BY <1>2, <2>1, <2>2
  <2>5. Len(recorded') = r /\ Len(Line') = n + 1
    BY <1>2, <1>3 DEF r
  <2> QED
    BY <1>2, <1>3, <2>1, <2>3, <2>4, <2>5 DEF RecordInv
<1>6. RowInv'
  BY <1>3 DEF CInv, RowInv
<1> QED
  BY <1>4, <1>5, <1>6

LEMMA EmitHolds ==
  ASSUME CInv, Emit, QInv'
  PROVE  CInv'
<1>1. /\ pull.at = "emit" /\ UNCHANGED <<cancel, payloadVars, provided>>
  BY DEF Emit
<1>2. /\ pull \in PullStates /\ hashed \in [updates : Nat, final : BOOLEAN]
  BY DEF CInv, QInv, CaptureTypeOK
<1>3. CASE /\ stream = "readable" /\ ~hashed.final
           /\ sent' = sent + 1
           /\ hashed' = [hashed EXCEPT !.updates = @ + 1]
           /\ Enqueue(Event(sent))
           /\ pull' = IF Full(Event(sent)) THEN [pull EXCEPT !.at = "slot"] ELSE PullAfter(Event(sent))
           /\ UNCHANGED <<terminal, cancelled, stream, failures>>
  <2> DEFINE t == Event(sent)
  <2>1. t \in Tasks /\ t.kind = "event" /\ t.by = "pull"
    BY DEF CInv, QInv, CaptureTypeOK, Event, Tasks
  <2>2. hashed'.final = hashed.final /\ hashed'.updates = hashed.updates + 1
    BY <1>2, <1>3
  <2>3. LineInv' /\ RecordInv' /\ RowInv'
    BY <1>1, <1>3, <2>2, EmitLine
  <2> HIDE DEF t
  <2>4. /\ pull'.phase = pull.phase /\ (pull'.at = "slot" <=> Full(t))
        /\ \/ pull'.at \in {"slot", "emit"}
           \/ pull'.at = "idle" /\ pull.phase = "push"
           \/ pull'.at \in {"settle", "closing"} /\ pull.phase # "push"
    <3>1. CASE Full(t)
      BY <1>2, <1>3, <3>1 DEF PullStates, t
    <3>2. CASE ~ Full(t)
      <4>1. pull' = PullAfter(t)
        BY <1>3, <3>2 DEF t
      <4>2. PullAfter(t).at # "slot"
        BY <2>1, PullAfterIs DEF CInv
      <4> QED
        BY <2>1, <3>2, <4>1, <4>2, PullAfterIs DEF CInv
    <3> QED
      BY <3>1, <3>2
  <2>5. WaitInv'
    <3>1. Enqueue(t) /\ cancel' = cancel /\ pull.at # "slot"
      BY <1>1, <1>3 DEF t
    <3> QED
      BY <2>1, <2>4, <3>1, EnqueueWaits
  <2>6. FlagInv'
    <3>1. hashed.updates = sent
      BY <1>3 DEF CInv, FlagInv
    <3> QED
      BY <1>1, <1>3, <2>2, <2>4, <3>1 DEF CInv, FlagInv
  <2> QED
    BY <2>3, <2>5, <2>6 DEF CInv
<1>4. CASE /\ stream # "readable" \/ hashed.final
           /\ hashed' = [hashed EXCEPT !.updates = IF hashed.final THEN @ ELSE @ + 1]
           /\ Throw
           /\ UNCHANGED <<sent, queueVars, failures>>
  <2>1. /\ hashed'.final = hashed.final
        /\ hashed'.updates = hashed.updates \/ stream # "readable"
    BY <1>2, <1>4
  <2>2. FlagInv' /\ (terminal => terminal') /\ cancelled' = cancelled /\ pull'.at # "slot"
    BY <1>1, <1>4, <2>1, ThrowFlags
  <2> QED
    BY <1>1, <1>4, <2>1, <2>2, CalmHolds
<1>5. CASE /\ pull.phase \in {"push", "finish"} /\ Throw /\ UNCHANGED <<sent, hashed, queueVars>>
  <2>1. FlagInv' /\ (terminal => terminal') /\ cancelled' = cancelled /\ pull'.at # "slot"
    BY <1>1, <1>5, ThrowFlags
  <2> QED
    BY <1>1, <1>5, <2>1, CalmHolds
<1> QED
  BY <1>3, <1>4, <1>5 DEF Emit

LEMMA ClosePullHolds ==
  ASSUME CInv, ClosePull, QInv'
  PROVE  CInv'
<1> DEFINE how == IF cancelled THEN "cancelled" ELSE pull.phase
           t == Complete(how, "pull")
<1>1. pull.at = "closing" /\ UNCHANGED <<cancel, sent, hashed, payloadVars, provided>>
  BY DEF ClosePull
<1>2. /\ pull \in PullStates /\ pull.phase \in Final /\ pull.phase # "cancelled"
      /\ terminal /\ stream # "closed"
  BY <1>1 DEF CInv, QInv, CaptureTypeOK, PullStates, FlagInv
<1>3. CASE /\ Enqueue(t)
           /\ pull' = IF Full(t) THEN [pull EXCEPT !.at = "slot"] ELSE PullAfter(t)
           /\ UNCHANGED <<terminal, cancelled, stream, failures>>
  <2>1. /\ t.kind = "complete" /\ t.by = "pull" /\ (t.of = "cancelled" <=> cancelled)
        /\ t \in Tasks
    <3>1. how \in Final /\ (how = "cancelled" <=> cancelled)
      BY <1>2 DEF Final
    <3> HIDE DEF how
    <3> QED
      BY <3>1 DEF Complete, Tasks
  <2> HIDE DEF t
  <2>2. /\ pull'.phase = pull.phase /\ (pull'.at = "slot" <=> Full(t))
        /\ pull'.at \in {"slot", "drain"}
    <3>1. CASE Full(t)
      BY <1>2, <1>3, <3>1 DEF PullStates
    <3>2. CASE ~ Full(t)
      BY <1>3, <2>1, <3>2, PullAfterIs DEF CInv
    <3> QED
      BY <3>1, <3>2
  <2>3. ~ cancelled => hashed.updates = sent
    BY <1>1 DEF CInv, FlagInv
  <2>4. LineInv' /\ RecordInv' /\ RowInv'
    BY <1>1, <1>2, <1>3, <2>1, <2>2, <2>3, CompleteLine
  <2>5. WaitInv'
    BY <1>1, <1>3, <2>1, <2>2, EnqueueWaits
  <2>6. \E i \in DOMAIN Line' : Line'[i].by = "pull" /\ Line'[i].kind = "complete"
    BY <1>3, <2>1, Longer
  <2>7. FlagInv'
    BY <1>1, <1>2, <1>3, <2>2, <2>6 DEF CInv, FlagInv
  <2> QED
    BY <2>4, <2>5, <2>7 DEF CInv
<1>4. CASE /\ pull.phase # "interrupted" /\ Catch /\ UNCHANGED queueVars
  <2>1. FlagInv' /\ (terminal => terminal') /\ cancelled' = cancelled /\ pull'.at # "slot"
    BY <1>1, <1>4, ThrowFlags
  <2> QED
    BY <1>1, <1>4, <2>1, CalmHolds
<1> QED
  BY <1>3, <1>4 DEF ClosePull

LEMMA CancelSettleHolds ==
  ASSUME CInv, CancelSettle, QInv'
  PROVE  CInv'
<1> DEFINE t == Complete("cancelled", "cancel")
<1>1. /\ cancel = "settle" /\ cancelled /\ terminal /\ stream = "cancelled"
      /\ UNCHANGED <<pull, streamVars, hashed, payloadVars, provided>>
  BY DEF CancelSettle, CInv, FlagInv
<1>2. CASE Enqueue(t) /\ cancel' = IF Full(t) THEN "slot" ELSE "drain"
  <2>1. t.kind = "complete" /\ t.by = "cancel" /\ t.of = "cancelled" /\ t \in Tasks
    BY DEF Complete, Tasks, Final
  <2> HIDE DEF t
  <2>2. LineInv' /\ RecordInv' /\ RowInv'
    BY <1>1, <1>2, <2>1, CompleteLine DEF streamVars
  <2>3. WaitInv'
    BY <1>1, <1>2, <2>1, EnqueueWaits
  <2>4. pull.at = "drain" =>
          hashed.final \/ \E i \in DOMAIN Line' : Line'[i].by = "pull" /\ Line'[i].kind = "complete"
    BY <1>2, <2>1, Longer DEF CInv, FlagInv
  <2>5. FlagInv'
    BY <1>1, <1>2, <2>4 DEF CInv, FlagInv, streamVars
  <2> QED
    BY <2>2, <2>3, <2>5 DEF CInv
<1>3. CASE UNCHANGED queueVars
  BY <1>3, CancelHolds
<1> QED
  BY <1>2, <1>3 DEF CancelSettle

\* The end of a task: the line is one shorter, and who got its slot goes on.
LEMMA Shorter ==
  ASSUME CInv, RunTask, QInv'
  PROVE  /\ Line # <<>> /\ Line[1] = Head(tail) /\ Head(tail) \in Tasks
         /\ Len(Line) \in Nat /\ Len(Line) >= 1 /\ DOMAIN Line = 1 .. Len(Line)
         /\ \A i \in 1 .. Len(Line) : Line[i] \in Tasks
         /\ Len(Line') = Len(Line) - 1 /\ DOMAIN Line' = 1 .. Len(Line) - 1
         /\ \A i \in 1 .. Len(Line) - 1 :
              /\ Line'[i] = Line[i + 1] /\ i + 1 \in 1 .. Len(Line)
              /\ i + 1 # 1 /\ 1 < i + 1 /\ i \in Nat
         /\ \A i \in 1 .. Len(Line) - 1 : Line'[i].kind # "start"
         /\ Off' = 0 /\ 1 \in 1 .. Len(Line)
         /\ Off = IF Head(tail).kind = "start" THEN 1 ELSE 0
<1>1. tail # <<>> /\ Release
  BY DEF RunTask
<1>2. /\ Len(Line) = Len(Line') + 1 /\ Len(Line') \in Nat /\ Line[1] = Head(tail)
      /\ \A i \in 1 .. Len(Line') : Line'[i] = Line[i + 1]
  BY <1>1, ReleaseLine DEF CInv
<1>3. /\ Len(Line) \in Nat /\ DOMAIN Line = 1 .. Len(Line)
      /\ \A i \in 1 .. Len(Line) : Line[i] \in Tasks
      /\ Line = <<>> <=> Len(Line) = 0
  BY LineTasks DEF CInv
<1>4. Line' \in Seq(Tasks)
  <2>1. tail' \in Seq(Tasks) /\ waiters' \in Seq(Tasks)
    BY DEF QInv, CaptureTypeOK
  <2> QED
    BY <2>1, JoinIs DEF Line
<1>5. DOMAIN Line' = 1 .. Len(Line') /\ (Len(Line') = 0 <=> Line' = <<>>)
  <2> DEFINE L == Line'
  <2>1. L \in Seq(Tasks)
    BY <1>4
  <2> HIDE DEF L
  <2>2. DOMAIN L = 1 .. Len(L) /\ (Len(L) = 0 <=> L = <<>>)
    BY <2>1
  <2> QED
    BY <2>2 DEF L
<1> DEFINE n == Len(Line)
           p == Len(Line')
<1>6. n \in Nat /\ p \in Nat /\ n = p + 1 /\ p = n - 1 /\ n >= 1 /\ n # 0 /\ 1 \in 1 .. n
  <2>1. n \in Nat /\ p \in Nat /\ n = p + 1
    BY <1>2, <1>3
  <2> HIDE DEF n, p
  <2> QED
    BY <2>1
<1> HIDE DEF n, p
<1>7. \A i \in 1 .. n - 1 : /\ Line'[i] = Line[i + 1] /\ i + 1 \in 1 .. n
                            /\ i + 1 # 1 /\ 1 < i + 1 /\ i \in Nat
  <2> SUFFICES ASSUME NEW i \in 1 .. n - 1
               PROVE  /\ Line'[i] = Line[i + 1] /\ i + 1 \in 1 .. n
                      /\ i + 1 # 1 /\ 1 < i + 1 /\ i \in Nat
    OBVIOUS
  <2>1. i + 1 \in 1 .. n /\ i + 1 # 1 /\ 1 < i + 1 /\ i \in Nat /\ i \in 1 .. p
    BY <1>6
  <2> QED
    BY <1>2, <2>1 DEF p
<1>8. \A i \in 1 .. n - 1 : Line'[i].kind # "start"
  BY <1>3, <1>7 DEF CInv, LineInv, n
<1>9. Line # <<>> /\ Line[1] \in Tasks
  BY <1>3, <1>6 DEF n
<1>10. Off' = 0
  <2>1. CASE Line' = <<>>
    BY <2>1 DEF Off
  <2>2. CASE Line' # <<>>
    <3>1. p # 0
      BY <1>5, <2>2 DEF p
    <3>2. 1 \in 1 .. n - 1
      BY <1>6, <3>1
    <3> QED
      BY <1>8, <3>2 DEF Off
  <2> QED
    BY <2>1, <2>2
<1>11. Off = IF Head(tail).kind = "start" THEN 1 ELSE 0
  BY <1>2, <1>9 DEF Off
<1> QED
  BY <1>2, <1>3, <1>5, <1>6, <1>7, <1>8, <1>9, <1>10, <1>11 DEF n, p

\* Who goes on after Release: the first that waited, and nobody else.
LEMMA ReleaseGoesOn ==
  ASSUME CInv, RunTask, QInv'
  PROVE  /\ WaitInv'
         /\ pull'.phase = pull.phase
         /\ \/ pull' = pull
            \/ /\ pull.at = "slot"
               /\ \E k \in 2 .. Len(Line) :
                    /\ Line[k].by = "pull" /\ pull' = PullAfter(Line[k])
                    /\ \A i \in 1 .. Len(Line) : Line[i].by = "pull" /\ i # k => i < k
         /\ cancel' = cancel \/ (cancel = "slot" /\ cancel' = "drain")
<1>1. /\ tail # <<>> /\ Release /\ tail \in Seq(Tasks) /\ waiters \in Seq(Tasks)
      /\ DOMAIN waiters = 1 .. Len(waiters) /\ Len(waiters) \in Nat
      /\ Len(tail) \in Nat /\ Len(Line) = Len(tail) + Len(waiters)
      /\ \A i \in 1 .. Len(Line) :
           Line[i] = IF i <= Len(tail) THEN tail[i] ELSE waiters[i - Len(tail)]
  BY LineTasks, LineIs DEF RunTask, CInv, QInv, CaptureTypeOK
<1>2. CASE waiters = <<>>
  <2>1. waiters' = waiters /\ pull' = pull /\ cancel' = cancel
    BY <1>1, <1>2 DEF Release
  <2> QED
    BY <2>1 DEF CInv, WaitInv
<1>3. CASE waiters # <<>>
  <2> DEFINE w == Head(waiters)
             rest == Tail(waiters)
             m == Len(waiters)
             n == Len(tail)
  <2>1. /\ waiters' = rest /\ w = waiters[1]
        /\ pull' = IF w.by = "pull" THEN PullAfter(w) ELSE pull
        /\ cancel' = IF w.by = "cancel" THEN "drain" ELSE cancel
    BY <1>1, <1>3 DEF Release
  <2>2. /\ m \in Nat /\ m > 0 /\ DOMAIN rest = 1 .. m - 1
        /\ \A i \in 1 .. m - 1 : rest[i] = waiters[i + 1]
    BY <1>1, <1>3
  <2>3. n \in Nat /\ n > 0 /\ Len(Line) = n + m /\ DOMAIN waiters = 1 .. m
    BY <1>1
  <2> HIDE DEF w, rest, m, n
  <2>4. /\ 1 \in 1 .. m
        /\ \A i \in 1 .. m - 1 : i + 1 \in 1 .. m /\ i + 1 # 1
        /\ \A i \in 1 .. m : i # 1 => i - 1 \in 1 .. m - 1 /\ (i - 1) + 1 = i
        /\ n + 1 \in 2 .. n + m /\ ~ (n + 1 <= n) /\ n + 1 - n = 1
    BY <2>2, <2>3
  <2>5. /\ \A i \in 1 .. m : waiters[i].by \in {"pull", "cancel"}
        /\ \A i, j \in 1 .. m : waiters[i].by = waiters[j].by => i = j
        /\ pull.at = "slot" <=> \E i \in 1 .. m : waiters[i].by = "pull"
        /\ cancel = "slot" <=> \E i \in 1 .. m : waiters[i].by = "cancel"
    BY <2>3 DEF CInv, WaitInv
  <2>6. ASSUME NEW who \in {"pull", "cancel"}
        PROVE  (\E i \in 1 .. m - 1 : rest[i].by = who)
               <=> w.by # who /\ \E i \in 1 .. m : waiters[i].by = who
    <3>1. ASSUME NEW i \in 1 .. m - 1, rest[i].by = who
          PROVE  w.by # who /\ \E j \in 1 .. m : waiters[j].by = who
      BY <2>1, <2>2, <2>4, <2>5, <3>1
    <3>2. ASSUME w.by # who, NEW i \in 1 .. m, waiters[i].by = who
          PROVE  \E j \in 1 .. m - 1 : rest[j].by = who
      <4>1. i # 1
        BY <2>1, <3>2
      <4>2. i - 1 \in 1 .. m - 1 /\ rest[i - 1] = waiters[i]
        BY <2>2, <2>4, <4>1
      <4> QED
        BY <3>2, <4>2
    <3> QED
      BY <3>1, <3>2
  <2>7. w.by \in {"pull", "cancel"}
    BY <2>1, <2>4, <2>5
  <2>8. \A i, j \in 1 .. m - 1 : rest[i].by = rest[j].by => i = j
    <3> SUFFICES ASSUME NEW i \in 1 .. m - 1, NEW j \in 1 .. m - 1, rest[i].by = rest[j].by
                 PROVE  i = j
      OBVIOUS
    <3>1. i + 1 = j + 1
      BY <2>2, <2>4, <2>5
    <3> QED
      BY <3>1
  <2>9. /\ w.by = "pull" => pull.at = "slot"
        /\ w.by = "cancel" => cancel = "slot"
    BY <2>1, <2>4, <2>5
  <2>10. \A t : PullAfter(t).at # "slot" /\ PullAfter(t).phase = pull.phase
    <3> SUFFICES ASSUME NEW t
                 PROVE  PullAfter(t).at # "slot" /\ PullAfter(t).phase = pull.phase
      OBVIOUS
    <3> QED
      BY PullAfterIs DEF CInv
  <2>11. pull'.at = "slot" <=> \E i \in 1 .. m - 1 : rest[i].by = "pull"
    <3>1. CASE w.by = "pull"
      BY <2>1, <2>6, <2>10, <3>1
    <3>2. CASE w.by # "pull"
      BY <2>1, <2>5, <2>6, <3>2
    <3> QED
      BY <3>1, <3>2
  <2>12. cancel' = "slot" <=> \E i \in 1 .. m - 1 : rest[i].by = "cancel"
    <3>1. CASE w.by = "cancel"
      BY <2>1, <2>6, <3>1
    <3>2. CASE w.by # "cancel"
      BY <2>1, <2>5, <2>6, <3>2
    <3> QED
      BY <3>1, <3>2
  <2>13. \A i \in 1 .. m - 1 : rest[i].by \in {"pull", "cancel"}
    BY <2>2, <2>4, <2>5
  <2>14. WaitInv'
    BY <2>1, <2>2, <2>8, <2>11, <2>12, <2>13 DEF WaitInv
  <2>15. w.by = "pull" =>
           \E k \in 2 .. Len(Line) :
             /\ Line[k].by = "pull" /\ pull' = PullAfter(Line[k])
             /\ \A i \in 1 .. Len(Line) : Line[i].by = "pull" /\ i # k => i < k
    <3> SUFFICES ASSUME w.by = "pull"
                 PROVE  \E k \in 2 .. Len(Line) :
                          /\ Line[k].by = "pull" /\ pull' = PullAfter(Line[k])
                          /\ \A i \in 1 .. Len(Line) : Line[i].by = "pull" /\ i # k => i < k
      OBVIOUS
    <3> DEFINE k == n + 1
    <3>1. k \in 2 .. Len(Line) /\ k \in 1 .. Len(Line) /\ ~ (k <= n) /\ k - n = 1
      BY <2>2, <2>3, <2>4
    <3>2. \A i \in 1 .. Len(Line) : ~ (i <= n) /\ i # k => i - n \in 1 .. m /\ i - n # 1
      BY <2>2, <2>3
    <3>3. \A i \in 1 .. Len(Line) : i <= n => i < k
      BY <2>3
    <3> HIDE DEF k
    <3>4. Line[k] = w
      BY <1>1, <2>1, <3>1 DEF n
    <3>5. ASSUME NEW i \in 1 .. Len(Line), Line[i].by = "pull", i # k PROVE i < k
      <4> SUFFICES ASSUME ~ (i <= n) PROVE FALSE
        BY <3>3
      <4>1. Line[i] = waiters[i - n]
        BY <1>1 DEF n
      <4> QED
        BY <2>1, <2>4, <2>5, <3>2, <3>5, <4>1
    <3> QED
      BY <2>1, <3>1, <3>4, <3>5
  <2> QED
    BY <2>1, <2>7, <2>9, <2>10, <2>14, <2>15
<1> QED
  BY <1>2, <1>3

\* What runs is the first of the line, so that nothing passes anything else.
LEMMA RunTaskLine ==
  ASSUME CInv, RunTask, QInv'
  PROVE  LineInv' /\ FlagInv'
<1> DEFINE n == Len(Line)
           t == Head(tail)
<1>1. /\ Line # <<>> /\ Line[1] = t /\ t \in Tasks
      /\ n \in Nat /\ n >= 1 /\ DOMAIN Line = 1 .. n
      /\ \A i \in 1 .. n : Line[i] \in Tasks
      /\ Len(Line') = n - 1 /\ DOMAIN Line' = 1 .. n - 1
      /\ \A i \in 1 .. n - 1 :
           /\ Line'[i] = Line[i + 1] /\ i + 1 \in 1 .. n
           /\ i + 1 # 1 /\ 1 < i + 1 /\ i \in Nat
      /\ \A i \in 1 .. n - 1 : Line'[i].kind # "start"
      /\ 1 \in 1 .. n
  BY Shorter
<1>2. /\ hashed'.final = (hashed.final \/ t.kind = "complete") /\ hashed'.updates = hashed.updates
      /\ stream' = stream /\ terminal' = terminal /\ cancelled' = cancelled /\ sent' = sent
  BY DEF RunTask, streamVars, CInv, QInv, CaptureTypeOK
<1> HIDE DEF n, t
<1>3. /\ pull'.phase = pull.phase
      /\ \/ pull' = pull
         \/ /\ pull.at = "slot"
            /\ \E k \in 2 .. n :
                 /\ Line[k].by = "pull" /\ pull' = PullAfter(Line[k])
                 /\ \A i \in 1 .. n : Line[i].by = "pull" /\ i # k => i < k
      /\ cancel' = cancel \/ (cancel = "slot" /\ cancel' = "drain")
  BY ReleaseGoesOn DEF n
<1>4. ASSUME NEW i \in 1 .. n, i # 1
      PROVE  i - 1 \in 1 .. n - 1 /\ Line'[i - 1] = Line[i]
  <2>1. i - 1 \in 1 .. n - 1 /\ (i - 1) + 1 = i
    BY <1>1, <1>4
  <2> QED
    BY <1>1, <2>1
<1>5. LineInv'
  <2>1. ASSUME NEW i \in 1 .. n - 1, NEW j \in 1 .. n - 1, i < j, Line'[i].kind = "complete"
        PROVE  Line'[j].kind = "complete"
    <3>1. i + 1 < j + 1 /\ i + 1 \in 1 .. n /\ j + 1 \in 1 .. n
      BY <1>1, <2>1
    <3>2. Line[i + 1].kind = "complete" /\ Line'[j] = Line[j + 1]
      BY <1>1, <2>1
    <3>3. Line[j + 1].kind = "complete"
      BY <1>1, <3>1, <3>2 DEF CInv, LineInv
    <3> QED
      BY <3>2, <3>3
  <2>2. ASSUME hashed'.final, NEW i \in 1 .. n - 1 PROVE Line'[i].kind = "complete"
    <3>1. /\ hashed.final => \A j \in 1 .. n : Line[j].kind = "complete"
          /\ \A j \in 1 .. n : 1 < j /\ Line[1].kind = "complete" => Line[j].kind = "complete"
      BY <1>1 DEF CInv, LineInv
    <3>2. Line'[i] = Line[i + 1] /\ i + 1 \in 1 .. n /\ 1 < i + 1
      BY <1>1
    <3>3. hashed.final \/ Line[1].kind = "complete"
      BY <1>1, <1>2, <2>2
    <3> QED
      BY <3>1, <3>2, <3>3
  <2>3. ASSUME NEW i \in 1 .. n - 1, Line'[i].kind = "complete", Line'[i].by = "pull"
        PROVE  pull'.at \in {"slot", "drain"}
    <3>1. /\ Line[i + 1].kind = "complete" /\ Line[i + 1].by = "pull" /\ i + 1 \in 1 .. n
          /\ i + 1 \in Nat
      BY <1>1, <2>3
    <3>2. CASE pull' = pull
      BY <1>1, <3>1, <3>2 DEF CInv, LineInv
    <3>3. ASSUME NEW k \in 2 .. n, Line[k].by = "pull", pull' = PullAfter(Line[k]),
                 \A j \in 1 .. n : Line[j].by = "pull" /\ j # k => j < k
          PROVE  pull'.at = "drain"
      <4>1. k \in 1 .. n
        BY <1>1
      <4>2. Line[k].kind = "complete"
        BY <1>1, <3>1, <3>3, <4>1 DEF CInv, LineInv
      <4> QED
        BY <3>3, <4>2, PullAfterIs DEF CInv
    <3> QED
      BY <1>3, <3>2, <3>3
  <2>4. ASSUME NEW i \in 1 .. n - 1, Line'[i].kind = "complete"
        PROVE  /\ terminal /\ (Line'[i].of = "cancelled" <=> cancelled)
               /\ Line'[i].by = "cancel" => cancelled
               /\ ~ hashed'.final /\ ~ cancelled => hashed.updates = sent
    <3>1. \A j \in 1 .. n : Line[j].kind = "complete" =>
            /\ terminal /\ (Line[j].of = "cancelled" <=> cancelled)
            /\ Line[j].by = "cancel" => cancelled
            /\ ~ hashed.final /\ ~ cancelled => hashed.updates = sent
      BY <1>1 DEF CInv, LineInv
    <3>2. Line'[i] = Line[i + 1] /\ i + 1 \in 1 .. n /\ (hashed.final => hashed'.final)
      BY <1>1, <1>2
    <3> QED
      BY <2>4, <3>1, <3>2
  <2> QED
    BY <1>1, <1>2, <2>1, <2>2, <2>3, <2>4 DEF LineInv
<1>6. FlagInv'
  <2>1. cancel' \notin {"none", "done"} => cancelled
    BY <1>3 DEF CInv, FlagInv
  <2>2. pull'.at = "drain" =>
          \/ hashed'.final
          \/ \E i \in DOMAIN Line' : Line'[i].by = "pull" /\ Line'[i].kind = "complete"
    <3>1. CASE pull' = pull
      <4> SUFFICES ASSUME pull.at = "drain", ~ hashed'.final
                   PROVE  \E i \in 1 .. n - 1 : Line'[i].by = "pull" /\ Line'[i].kind = "complete"
        BY <1>1, <3>1
      <4>1. PICK i \in 1 .. n : Line[i].by = "pull" /\ Line[i].kind = "complete"
        BY <1>1, <1>2 DEF CInv, FlagInv
      <4>2. i # 1
        BY <1>1, <1>2, <4>1
      <4> QED
        BY <1>4, <4>1, <4>2
    <3>2. ASSUME NEW k \in 2 .. n, Line[k].by = "pull", pull' = PullAfter(Line[k]),
                 pull'.at = "drain"
          PROVE  \E i \in 1 .. n - 1 : Line'[i].by = "pull" /\ Line'[i].kind = "complete"
      <4>1. k \in 1 .. n /\ k # 1
        BY <1>1
      <4>2. Line[k].kind = "complete"
        BY <3>2, PullAfterIs DEF CInv
      <4> QED
        BY <1>4, <3>2, <4>1, <4>2
    <3> QED
      BY <1>1, <1>3, <3>1, <3>2
  <2>3. /\ pull'.at \in {"idle", "read", "return"} => pull.phase = "push"
        /\ pull'.at \in {"settle", "closing"} => pull.phase # "push"
    <3>1. CASE pull' = pull
      BY <3>1 DEF CInv, FlagInv
    <3>2. CASE \E k \in 2 .. n : pull' = PullAfter(Line[k])
      BY <3>2, PullAfterIs DEF CInv
    <3> QED
      BY <1>3, <3>1, <3>2
  <2>4. stream # "closed"
    BY <1>1 DEF CInv, FlagInv
  <2>5. \/ hashed.updates = sent
        \/ /\ pull.phase = "interrupted" /\ stream # "readable"
           /\ pull'.at \in {"settle", "emit", "failed"} \/ cancelled
    BY <1>3 DEF CInv, FlagInv
  <2>6. /\ cancelled => stream = "cancelled" /\ terminal
        /\ pull.phase # "push" => terminal
    BY DEF CInv, FlagInv
  <2> QED
    BY <1>2, <1>3, <2>1, <2>2, <2>3, <2>4, <2>5, <2>6 DEF FlagInv
<1> QED
  BY <1>5, <1>6

\* What the first of the line says of the record, and a completion of all that was sent.
LEMMA HeadSays ==
  ASSUME CInv, RunTask, QInv', ~ captureFailed
  PROVE  LET t == Head(tail)
             r == Len(recorded)
             n == Len(Line)
         IN  /\ r \in Nat /\ n \in Nat /\ n >= 1 /\ sent \in Nat
             /\ r <= sent /\ sent <= r + n - Off
             /\ t.kind = "event" => t.of = r /\ r + 1 <= sent
             /\ t.kind = "complete" => sent = r
             /\ row.status = "none" <=> t.kind = "start"
             /\ hashed.final => t.kind = "complete"
             /\ \A i \in 1 .. n - 1 :
                  /\ Line'[i].kind = "event" <=> (i > Off - 1 /\ r + i + 1 - Off <= sent)
                  /\ Line'[i].kind = "event" => Line'[i].of = r + i - Off
<1> DEFINE n == Len(Line)
           t == Head(tail)
           r == Len(recorded)
<1>1. /\ Line # <<>> /\ Line[1] = t /\ t \in Tasks
      /\ n \in Nat /\ n >= 1 /\ DOMAIN Line = 1 .. n
      /\ \A i \in 1 .. n - 1 : Line'[i] = Line[i + 1] /\ i + 1 \in 1 .. n /\ i \in Nat
      /\ 1 \in 1 .. n
      /\ Off = IF t.kind = "start" THEN 1 ELSE 0
  BY Shorter
<1>2. r \in Nat /\ sent \in Nat
  BY DEF CInv, QInv, CaptureTypeOK
<1>3. /\ r <= sent /\ sent <= r + n - Off
      /\ \A i \in 1 .. n :
           /\ Line[i].kind = "event" <=> (i > Off /\ r + i - Off <= sent)
           /\ Line[i].kind = "event" => Line[i].of = r + i - Off - 1
      /\ row.status = "none" <=> Off = 1
  BY <1>1 DEF CInv, RecordInv
<1>4. hashed.final => t.kind = "complete"
  BY <1>1 DEF CInv, LineInv
<1> HIDE DEF n, t, r
<1>5. t.kind \in {"start", "event", "complete"}
  BY <1>1, TaskIs
<1>6. row.status = "none" <=> t.kind = "start"
  BY <1>1, <1>3
<1>7. t.kind = "event" => t.of = r /\ r + 1 <= sent
  <2> SUFFICES ASSUME t.kind = "event" PROVE t.of = r /\ r + 1 <= sent
    OBVIOUS
  <2>1. Off = 0
    BY <1>1
  <2>2. r + 1 - 0 <= sent /\ t.of = r + 1 - 0 - 1
    BY <1>1, <1>3, <2>1
  <2> QED
    BY <1>2, <2>2
<1>8. t.kind = "complete" => sent = r
  <2> SUFFICES ASSUME t.kind = "complete" PROVE sent = r
    OBVIOUS
  <2>1. Off = 0
    BY <1>1
  <2>2. ~ (1 > 0 /\ r + 1 - 0 <= sent)
    BY <1>1, <1>3, <2>1
  <2> QED
    BY <1>2, <1>3, <2>2
<1>9. ASSUME NEW i \in 1 .. n - 1
      PROVE  /\ Line'[i].kind = "event" <=> (i > Off - 1 /\ r + i + 1 - Off <= sent)
             /\ Line'[i].kind = "event" => Line'[i].of = r + i - Off
  <2>1. /\ i + 1 > Off <=> i > Off - 1
        /\ r + (i + 1) - Off = r + i + 1 - Off /\ r + (i + 1) - Off - 1 = r + i - Off
    BY <1>1, <1>2
  <2> QED
    BY <1>1, <1>3, <2>1
<1> QED
  BY <1>1, <1>2, <1>3, <1>4, <1>6, <1>7, <1>8, <1>9 DEF n, t, r

\* The record after a task: as long as none failed, it is what came first.
LEMMA RunTaskRecord ==
  ASSUME CInv, RunTask, QInv'
  PROVE  RecordInv'
<1> SUFFICES ASSUME ~ captureFailed' PROVE RecordInv'
  BY DEF RecordInv
<1> DEFINE n == Len(Line)
           t == Head(tail)
           r == Len(recorded)
<1>1. /\ t \in Tasks /\ Len(Line') = n - 1 /\ DOMAIN Line' = 1 .. n - 1
      /\ Off' = 0 /\ Off = IF t.kind = "start" THEN 1 ELSE 0
      /\ \A i \in 1 .. n - 1 : i \in Nat /\ Line'[i] = Line[i + 1]
  BY Shorter
<1>2. /\ Succeed(t) /\ sent' = sent
      /\ hashed'.final = (hashed.final \/ t.kind = "complete")
  BY DEF RunTask, Fail, streamVars, CInv, QInv, CaptureTypeOK
<1>3. ~ captureFailed /\ row \in Rows /\ recorded \in Seq(Nat)
  BY <1>2 DEF Succeed, CInv, QInv, CaptureTypeOK
<1>4. /\ r \in Nat /\ n \in Nat /\ n >= 1 /\ sent \in Nat
      /\ r <= sent /\ sent <= r + n - Off
      /\ t.kind = "event" => t.of = r /\ r + 1 <= sent
      /\ t.kind = "complete" => sent = r
      /\ row.status = "none" <=> t.kind = "start"
      /\ hashed.final => t.kind = "complete"
      /\ \A i \in 1 .. n - 1 :
           /\ Line'[i].kind = "event" <=> (i > Off - 1 /\ r + i + 1 - Off <= sent)
           /\ Line'[i].kind = "event" => Line'[i].of = r + i - Off
  BY <1>3, HeadSays
<1>5. DOMAIN recorded = 1 .. r /\ \A i \in 1 .. r : recorded[i] = i - 1
  BY <1>3 DEF CInv, RecordInv
<1> HIDE DEF n, t
<1>6. CASE t.kind = "start"
  <2>1. /\ recorded' = recorded /\ row' = [row EXCEPT !.status = "streaming", !.capture = "streaming"]
    BY <1>2, <1>6 DEF Succeed
  <2>2. row'.status = "streaming" /\ ~ hashed'.final
    BY <1>2, <1>3, <1>4, <1>6, <2>1 DEF Rows
  <2> HIDE DEF r
  <2>3. ASSUME NEW i \in 1 .. n - 1
        PROVE  /\ Line'[i].kind = "event" <=> (i > 0 /\ r + i - 0 <= sent)
               /\ Line'[i].kind = "event" => Line'[i].of = r + i - 0 - 1
    <3>1. Off = 1 /\ i > Off - 1 /\ i > 0 /\ r + i + 1 - Off = r + i - 0 /\ r + i - Off = r + i - 0 - 1
      BY <1>1, <1>4, <1>6
    <3> QED
      BY <1>4, <3>1
  <2>4. sent <= r + (n - 1) - 0
    BY <1>1, <1>4, <1>6
  <2> QED
    BY <1>1, <1>2, <1>4, <1>5, <2>1, <2>2, <2>3, <2>4 DEF RecordInv, r
<1>7. CASE t.kind = "event"
  <2>1. recorded' = Append(recorded, r) /\ row' = row
    BY <1>2, <1>4, <1>7 DEF Succeed
  <2>2. row'.status # "none" /\ ~ hashed'.final
    BY <1>2, <1>4, <1>7, <2>1
  <2>3. Len(recorded') = r + 1 /\ DOMAIN recorded' = 1 .. r + 1
        /\ \A i \in 1 .. r + 1 : recorded'[i] = i - 1
    <3>1. Len(recorded') = r + 1 /\ DOMAIN recorded' = 1 .. r + 1 /\ recorded'[r + 1] = r
          /\ \A i \in 1 .. r : recorded'[i] = recorded[i]
      BY <1>3, <1>4, <2>1
    <3> HIDE DEF r
    <3>2. ASSUME NEW i \in 1 .. r + 1 PROVE recorded'[i] = i - 1
      <4>1. CASE i = r + 1
        BY <1>4, <3>1, <4>1
      <4>2. CASE i \in 1 .. r
        BY <1>5, <3>1, <4>2
      <4> QED
        BY <1>4, <4>1, <4>2
    <3> QED
      BY <3>1, <3>2
  <2> HIDE DEF r
  <2>4. ASSUME NEW i \in 1 .. n - 1
        PROVE  /\ Line'[i].kind = "event" <=> (i > 0 /\ (r + 1) + i - 0 <= sent)
               /\ Line'[i].kind = "event" => Line'[i].of = (r + 1) + i - 0 - 1
    <3>1. Off = 0 /\ i > Off - 1 /\ i > 0 /\ r + i + 1 - Off = (r + 1) + i - 0
          /\ r + i - Off = (r + 1) + i - 0 - 1
      BY <1>1, <1>4, <1>7
    <3> QED
      BY <1>4, <3>1
  <2>5. r + 1 <= sent /\ sent <= (r + 1) + (n - 1) - 0
    BY <1>1, <1>4, <1>7
  <2> QED
    BY <1>1, <1>2, <2>2, <2>3, <2>4, <2>5 DEF RecordInv
<1>8. CASE t.kind = "complete"
  <2>1. recorded' = recorded /\ row' = Completion(t, FALSE)
    BY <1>2, <1>3, <1>8 DEF Succeed, CInv, QInv, CaptureTypeOK
  <2>2. row'.status = t.of /\ row'.capture = "complete" /\ t.of # "none"
    BY <1>1, <1>4, <1>8, <2>1, TaskIs DEF Completion, Final
  <2> HIDE DEF r
  <2>3. ASSUME NEW i \in 1 .. n - 1
        PROVE  /\ Line'[i].kind = "event" <=> (i > 0 /\ r + i - 0 <= sent)
               /\ Line'[i].kind = "event" => Line'[i].of = r + i - 0 - 1
    <3>1. /\ Off = 0 /\ sent = r
          /\ ~ (r + i + 1 - Off <= sent) /\ ~ (r + i - 0 <= sent)
      BY <1>1, <1>4, <1>8
    <3> QED
      BY <1>4, <3>1
  <2>4. sent <= r + (n - 1) - 0
    BY <1>4, <1>8
  <2>5. row'.status # "none" /\ Len(recorded') = r
    BY <2>1, <2>2 DEF r
  <2>6. r <= sent' /\ sent' <= Len(recorded') + Len(Line') - Off'
    BY <1>1, <1>2, <1>4, <2>4, <2>5
  <2>7. \A i \in DOMAIN recorded' : recorded'[i] = i - 1
    BY <1>5, <2>1
  <2>8. \A i \in DOMAIN Line' :
          /\ Line'[i].kind = "event" <=> (i > Off' /\ Len(recorded') + i - Off' <= sent')
          /\ Line'[i].kind = "event" => Line'[i].of = Len(recorded') + i - Off' - 1
    BY <1>1, <1>2, <2>3, <2>5
  <2> QED
    BY <1>1, <2>2, <2>5, <2>6, <2>7, <2>8 DEF RecordInv
<1> QED
  BY <1>1, <1>6, <1>7, <1>8, TaskIs

\* What a completion leaves in the row.
LEMMA CompletionIs ==
  ASSUME NEW t, NEW failed \in BOOLEAN
  PROVE  /\ Completion(t, failed).status = IF row.status = "none" THEN "none" ELSE t.of
         /\ Completion(t, failed).sha =
              IF row.status = "none" \/ hashed.final THEN row.sha ELSE hashed.updates
         /\ Completion(t, failed).capture = IF failed THEN "failed" ELSE "complete"
BY DEF Completion

\* The row a task that fails leaves: its word of the stream is the row's, or its own.
LEMMA FailIs ==
  ASSUME QInv, NEW t \in Tasks, Fail(t)
  PROVE  /\ captureFailed' = TRUE
         /\ row'.capture \in {"failed", row.capture}
         /\ \/ row'.status = row.status /\ row'.sha = row.sha
            \/ t.kind = "start" /\ row'.status = "streaming"
            \/ t.kind = "complete" /\ row'.status = Completion(t, TRUE).status
                                   /\ row'.sha = Completion(t, TRUE).sha
         /\ t.kind # "event" => recorded' = recorded
<1>1. PICK capture \in {"failed", row.capture} :
        row' \in {[row EXCEPT !.capture = capture]}
                 \cup CASE t.kind = "start" ->
                             {[row EXCEPT !.status = "streaming", !.capture = capture]}
                        [] t.kind = "event" -> {}
                        [] t.kind = "complete" ->
                             {[Completion(t, TRUE) EXCEPT !.capture = capture]}
  BY DEF Fail
<1>2. row \in Rows
  BY DEF QInv, CaptureTypeOK
<1>3. /\ captureFailed' = TRUE
      /\ t.kind # "event" => recorded' = recorded
  BY DEF Fail
<1>4. CASE row' = [row EXCEPT !.capture = capture]
  BY <1>2, <1>3, <1>4 DEF Rows
<1>5. CASE t.kind = "start" /\ row' = [row EXCEPT !.status = "streaming", !.capture = capture]
  BY <1>2, <1>3, <1>5 DEF Rows
<1>6. CASE t.kind = "complete" /\ row' = [Completion(t, TRUE) EXCEPT !.capture = capture]
  <2> DEFINE c == Completion(t, TRUE)
  <2>1. c = [status |-> c.status, sha |-> c.sha, capture |-> c.capture]
    BY DEF Completion
  <2> HIDE DEF c
  <2>2. row' = [c EXCEPT !.capture = capture]
    BY <1>6 DEF c
  <2>3. row'.status = c.status /\ row'.sha = c.sha /\ row'.capture = capture
    BY <2>1, <2>2
  <2> QED
    BY <1>3, <1>6, <2>3 DEF c
<1>7. t.kind \in {"start", "event", "complete"}
  BY TaskIs
<1>8. CASE t.kind = "start"
  BY <1>1, <1>4, <1>5, <1>8
<1>9. CASE t.kind = "event"
  BY <1>1, <1>4, <1>9
<1>10. CASE t.kind = "complete"
  BY <1>1, <1>4, <1>6, <1>10
<1> QED
  BY <1>7, <1>8, <1>9, <1>10

\* The row after a task: a capture is complete once a completion found it whole.
LEMMA RunTaskRow ==
  ASSUME CInv, RunTask, QInv'
  PROVE  RowInv'
<1> DEFINE t == Head(tail)
<1>1. t \in Tasks /\ Line[1] = t /\ 1 \in DOMAIN Line
  BY Shorter
<1>2. /\ Succeed(t) \/ Fail(t)
      /\ hashed'.final = (hashed.final \/ t.kind = "complete")
      /\ sent' = sent /\ terminal' = terminal /\ cancelled' = cancelled
  BY DEF RunTask, streamVars, CInv, QInv, CaptureTypeOK
<1>3. /\ row \in Rows /\ captureFailed \in BOOLEAN /\ captureFailed' \in BOOLEAN
  BY DEF CInv, QInv, CaptureTypeOK
<1>4. t.kind \in {"start", "event", "complete"} /\ (t.kind = "complete" => t.of \in Final)
  BY <1>1, TaskIs
<1>5. hashed.final => t.kind = "complete"
  BY <1>1 DEF CInv, LineInv
<1>6. t.kind = "complete" =>
        /\ terminal /\ (t.of = "cancelled" <=> cancelled)
        /\ ~ hashed.final /\ ~ cancelled => hashed.updates = sent
  BY <1>1 DEF CInv, LineInv
<1>7. /\ row.status \in Final => /\ hashed.final /\ terminal
                                 /\ row.status = "cancelled" <=> cancelled
      /\ row.capture = "complete" =>
           /\ hashed.final /\ Len(recorded) = sent
           /\ \A i \in DOMAIN recorded : recorded[i] = i - 1
           /\ ~ cancelled => row.sha = sent
  BY DEF CInv, RowInv
<1>8. ~ captureFailed =>
        /\ t.kind = "complete" => sent = Len(recorded)
        /\ row.status = "none" <=> t.kind = "start"
        /\ \A i \in DOMAIN recorded : recorded[i] = i - 1
        /\ hashed.final => row.capture = "complete"
  <2> SUFFICES ASSUME ~ captureFailed
               PROVE  /\ t.kind = "complete" => sent = Len(recorded)
                      /\ row.status = "none" <=> t.kind = "start"
                      /\ \A i \in DOMAIN recorded : recorded[i] = i - 1
                      /\ hashed.final => row.capture = "complete"
    OBVIOUS
  <2>1. (t.kind = "complete" => sent = Len(recorded)) /\ (row.status = "none" <=> t.kind = "start")
    BY HeadSays
  <2> QED
    BY <2>1 DEF CInv, RecordInv
<1> HIDE DEF t
<1>9. "streaming" \notin Final /\ "none" \notin Final
  BY DEF Final
<1>10. CASE Succeed(t) /\ t.kind = "start"
  <2>1. row'.status = "streaming" /\ row'.capture = "streaming" /\ captureFailed' = captureFailed
    BY <1>3, <1>10 DEF Succeed, Rows
  <2> QED
    BY <1>2, <1>5, <1>9, <1>10, <2>1 DEF RowInv
<1>11. CASE Succeed(t) /\ t.kind = "event"
  <2>1. row' = row /\ captureFailed' = captureFailed
    BY <1>11 DEF Succeed
  <2> QED
    BY <1>2, <1>5, <1>7, <1>11, <2>1 DEF RowInv
<1>12. CASE Succeed(t) /\ t.kind = "complete"
  <2>1. /\ row' = Completion(t, captureFailed) /\ captureFailed' = captureFailed
        /\ recorded' = recorded
    BY <1>12 DEF Succeed
  <2>2. /\ row'.status = IF row.status = "none" THEN "none" ELSE t.of
        /\ row'.sha = IF row.status = "none" \/ hashed.final THEN row.sha ELSE hashed.updates
        /\ row'.capture = IF captureFailed THEN "failed" ELSE "complete"
    BY <1>3, <2>1, CompletionIs
  <2>3. row'.status \in Final => terminal' /\ (row'.status = "cancelled" <=> cancelled')
    BY <1>2, <1>6, <1>9, <1>12, <2>2
  <2>4. ~ captureFailed => row'.status \in Final
    BY <1>4, <1>8, <1>12, <2>2
  <2>5. ~ captureFailed =>
          /\ Len(recorded') = sent /\ \A i \in DOMAIN recorded' : recorded'[i] = i - 1
          /\ ~ cancelled => row'.sha = sent
    <3> SUFFICES ASSUME ~ captureFailed
                 PROVE  /\ Len(recorded') = sent
                        /\ \A i \in DOMAIN recorded' : recorded'[i] = i - 1
                        /\ ~ cancelled => row'.sha = sent
      OBVIOUS
    <3>1. /\ Len(recorded') = sent /\ \A i \in DOMAIN recorded' : recorded'[i] = i - 1
          /\ row.status # "none"
      BY <1>8, <1>12, <2>1
    <3>2. ~ cancelled => row'.sha = sent
      BY <1>6, <1>7, <1>8, <1>12, <2>2, <3>1
    <3> QED
      BY <3>1, <3>2
  <2>6. row'.capture = "complete" => ~ captureFailed
    BY <2>2
  <2> QED
    BY <1>2, <1>12, <2>1, <2>3, <2>4, <2>5, <2>6 DEF RowInv
<1>13. CASE Fail(t)
  <2>1. /\ captureFailed' = TRUE /\ row'.capture \in {"failed", row.capture}
        /\ \/ row'.status = row.status /\ row'.sha = row.sha
           \/ t.kind = "start" /\ row'.status = "streaming"
           \/ t.kind = "complete" /\ row'.status = Completion(t, TRUE).status
                                  /\ row'.sha = Completion(t, TRUE).sha
        /\ t.kind # "event" => recorded' = recorded
    BY <1>1, <1>13, FailIs DEF CInv
  <2>2. /\ Completion(t, TRUE).status = IF row.status = "none" THEN "none" ELSE t.of
        /\ Completion(t, TRUE).sha =
             IF row.status = "none" \/ hashed.final THEN row.sha ELSE hashed.updates
    BY CompletionIs
  <2>3. row'.status \in Final =>
          hashed'.final /\ terminal' /\ (row'.status = "cancelled" <=> cancelled')
    <3>1. CASE row'.status = row.status
      BY <1>2, <1>7, <3>1
    <3>2. CASE row'.status = "streaming"
      BY <1>9, <3>2
    <3>3. CASE t.kind = "complete" /\ row'.status = Completion(t, TRUE).status
      BY <1>2, <1>6, <1>9, <2>2, <3>3
    <3> QED
      BY <2>1, <3>1, <3>2, <3>3
  <2>4. row'.capture = "complete" =>
          /\ hashed'.final /\ Len(recorded') = sent
          /\ \A i \in DOMAIN recorded' : recorded'[i] = i - 1
          /\ ~ cancelled => row'.sha = sent
    <3> SUFFICES ASSUME row'.capture = "complete"
                 PROVE  /\ hashed'.final /\ Len(recorded') = sent
                        /\ \A i \in DOMAIN recorded' : recorded'[i] = i - 1
                        /\ ~ cancelled => row'.sha = sent
      OBVIOUS
    <3>1. row.capture = "complete"
      BY <2>1
    <3>2. hashed.final /\ t.kind = "complete" /\ recorded' = recorded
      BY <1>5, <1>7, <2>1, <3>1
    <3>3. row'.sha = row.sha
      BY <2>1, <2>2, <3>2
    <3> QED
      BY <1>2, <1>7, <3>1, <3>2, <3>3
  <2> QED
    BY <1>2, <2>1, <2>3, <2>4 DEF RowInv
<1> QED
  BY <1>2, <1>4, <1>10, <1>11, <1>12, <1>13

LEMMA CInvInit == CaptureInit => CInv
<1> SUFFICES ASSUME CaptureInit PROVE CInv
  OBVIOUS
<1>1. QInv
  BY QInvInit
<1> DEFINE start == [kind |-> "start", of |-> 0, by |-> "start"]
<1>2. tail = <<start>> /\ waiters = <<>> /\ recorded = <<>> /\ captureFailed = FALSE
  BY DEF CaptureInit
<1>3. start.kind = "start"
  OBVIOUS
<1> HIDE DEF start
<1>4. Line = <<start>> /\ Len(Line) = 1 /\ DOMAIN Line = {1} /\ Line[1] = start
  <2>1. Line = <<start>>
    BY <1>2 DEF Line
  <2> QED
    BY <2>1
<1>5. Off = 1
  BY <1>3, <1>4 DEF Off
<1>6. /\ pull.at = "idle" /\ pull.phase = "push" /\ cancel = "none" /\ stream = "readable"
      /\ cancelled = FALSE /\ sent = 0 /\ hashed.updates = 0 /\ hashed.final = FALSE
      /\ row.status = "none" /\ row.capture = "request_captured"
  BY DEF CaptureInit
<1>7. LineInv
  BY <1>3, <1>4, <1>6 DEF LineInv
<1>8. WaitInv
  BY <1>2, <1>6 DEF WaitInv
<1>9. FlagInv
  BY <1>6 DEF FlagInv
<1>10. RecordInv
  <2>1. Len(recorded) = 0 /\ DOMAIN recorded = {}
    BY <1>2
  <2> QED
    BY <1>3, <1>4, <1>5, <1>6, <2>1 DEF RecordInv
<1>11. RowInv
  BY <1>6 DEF RowInv, Final
<1> QED
  BY <1>1, <1>7, <1>8, <1>9, <1>10, <1>11 DEF CInv

LEMMA CInvNext == CInv /\ [CaptureNext]_captureVars => CInv'
<1> SUFFICES ASSUME CInv, [CaptureNext]_captureVars PROVE CInv'
  OBVIOUS
<1>1. QInv'
  BY QInvNext DEF CInv
<1>2. CASE Pull
  BY <1>1, <1>2, PullHolds
<1>3. CASE PullStep
  BY <1>1, <1>3, ReadHolds, ReturnedHolds, EmitHolds, SettlePullHolds, ClosePullHolds,
     DrainPullHolds DEF PullStep
<1>4. CASE CancelStream \/ CancelStep
  BY <1>1, <1>4, CancelHolds, CancelSettleHolds DEF CancelStep
<1>5. CASE RunTask
  <2>1. LineInv' /\ FlagInv'
    BY <1>1, <1>5, RunTaskLine
  <2>2. WaitInv'
    BY <1>1, <1>5, ReleaseGoesOn
  <2> QED
    BY <1>1, <1>5, <2>1, <2>2, RunTaskRecord, RunTaskRow DEF CInv
<1>6. CASE UNCHANGED captureVars
  <2>1. UNCHANGED <<pull, cancel, streamVars, hashed, queueVars, payloadVars>>
    BY <1>6 DEF captureVars
  <2>2. FlagInv'
    BY <2>1 DEF CInv, FlagInv, Line, queueVars, streamVars
  <2> QED
    BY <1>1, <2>1, <2>2, CalmHolds DEF streamVars
<1> QED
  BY <1>2, <1>3, <1>4, <1>5, <1>6 DEF CaptureNext

\* A capture that is marked complete holds every event that was sent, in its order, and
\* their hash; and a client that sees the stream closed can find its payload completed.
THEOREM CaptureAlwaysTruthful == CaptureSpec => []CaptureIsTruthful
<1>1. CInv => CaptureIsTruthful
  <2> SUFFICES ASSUME CInv PROVE CompleteIsWhole /\ ClosedIsCaptured
    BY DEF CaptureIsTruthful
  <2>1. CompleteIsWhole
    <3> SUFFICES ASSUME row.capture = "complete"
                 PROVE  /\ recorded = [i \in 1 .. sent |-> i - 1]
                        /\ row.status \in Final \ {"cancelled"} => row.sha = sent
      BY DEF CompleteIsWhole
    <3>1. /\ Len(recorded) = sent /\ \A i \in DOMAIN recorded : recorded[i] = i - 1
          /\ ~ cancelled => row.sha = sent
          /\ row.status \in Final => (row.status = "cancelled" <=> cancelled)
      BY DEF CInv, RowInv
    <3>2. recorded \in Seq(Nat)
      BY DEF CInv, QInv, CaptureTypeOK
    <3>3. recorded = [i \in DOMAIN recorded |-> recorded[i]] /\ DOMAIN recorded = 1 .. Len(recorded)
      BY <3>2
    <3> QED
      BY <3>1, <3>3
  <2>2. ClosedIsCaptured
    BY LineTasks DEF ClosedIsCaptured, CInv, FlagInv, RowInv
  <2> QED
    BY <2>1, <2>2
<1> QED
  BY <1>1, CInvInit, CInvNext, PTL DEF CaptureSpec

\* A payload that is completed stays so, and nothing more is recorded for it: what runs
\* after the first completion are completions.
THEOREM CompletionAlwaysLast == CaptureSpec => CompletionIsLast
<1>1. CInv /\ [CaptureNext]_captureVars =>
        [row.status \in Final => recorded' = recorded /\ row'.status \in Final]_captureVars
  <2> SUFFICES ASSUME CInv, CaptureNext, row.status \in Final
               PROVE  recorded' = recorded /\ row'.status \in Final
    OBVIOUS
  <2>1. QInv'
    BY QInvNext DEF CInv
  <2>2. CASE RunTask
    <3> DEFINE t == Head(tail)
    <3>1. t \in Tasks /\ Line[1] = t /\ 1 \in DOMAIN Line
      BY <2>1, <2>2, Shorter
    <3>2. t.kind = "complete"
      BY <3>1 DEF CInv, RowInv, LineInv
    <3>3. t.of \in Final
      BY <3>1, <3>2, TaskIs
    <3> HIDE DEF t
    <3>4. \A failed \in BOOLEAN : Completion(t, failed).status = t.of
      BY CompletionIs DEF Final
    <3>5. CASE Succeed(t)
      <4>1. captureFailed \in BOOLEAN
        BY DEF CInv, QInv, CaptureTypeOK
      <4> QED
        BY <3>2, <3>3, <3>4, <3>5, <4>1 DEF Succeed
    <3>6. CASE Fail(t)
      BY <3>1, <3>2, <3>3, <3>4, <3>6, FailIs DEF CInv
    <3> QED
      BY <2>2, <3>5, <3>6 DEF RunTask, t
  <2>3. CASE UNCHANGED payloadVars
    BY <2>3 DEF payloadVars
  <2> QED
    BY <2>2, <2>3 DEF CaptureNext, Pull, PullStep, Read, Returned, Emit, SettlePull, ClosePull,
       DrainPull, CancelStream, CancelStep, CancelRoute, CancelReturn, CancelSettle, CancelDrain
<1> QED
  BY <1>1, CInvInit, CInvNext, PTL DEF CaptureSpec, CompletionIsLast

=============================================================================
