---------------------------- MODULE CaptureQueue ----------------------------
(***************************************************************************)
(* One streamed answer of the gateway: the callbacks of its ReadableStream *)
(* (pull and cancel of proxyStreaming), the bounded queue that records     *)
(* what was sent (BoundedTaskQueue), and the rows it records it in.        *)
(*                                                                         *)
(* A step is a turn of the event loop: a callback runs from the await it   *)
(* is in to the next one.  A promise that is resolved goes on in a         *)
(* microtask of the same turn, so that the producer a slot was given to    *)
(* goes on in the step that gives it.  Every await of the image observer   *)
(* counts as a turn; without an observer it is none, and the steps of two  *)
(* emits are one.                                                          *)
(***************************************************************************)
EXTENDS Integers, Sequences, FiniteSets

CONSTANTS
  Capacity,   \* of the queue: 32 in the code
  MaxEvents,  \* bound on the events of the provider
  MaxOutputs, \* bound on the outputs the adapter makes of one event
  Faults,     \* bound on the statements the database fails
  OpenAI      \* whether the client speaks the protocol that ends with [DONE]

ASSUME QueueAssumption ==
  /\ Capacity \in Nat \ {0}                              \* the constructor's check
  /\ MaxEvents \in Nat /\ MaxOutputs \in Nat /\ Faults \in Nat
  /\ OpenAI \in BOOLEAN

VARIABLES
  pull,      \* [at, phase, left]: the await pull() is in, and on behalf of what
  cancel,    \* the await cancel() is in
  stream,    \* the controller's stream
  terminal, cancelled,   \* the flags the two callbacks share
  sent,      \* sequence: the events handed to the client
  hashed,    \* [updates, final]: responseHash
  tail, pending, waiters, \* the queue: tasks not finished, their count, who waits
  captureFailed,
  row,       \* [status, sha, capture] of the response payload and its request
  recorded,  \* the sequence numbers of the recorded events, as recorded
  provided, failures

queueVars == <<tail, pending, waiters>>
payloadVars == <<captureFailed, row, recorded>>
streamVars == <<stream, terminal, cancelled, sent>>
captureVars ==
  <<pull, cancel, streamVars, hashed, queueVars, payloadVars, provided, failures>>

Final == {"complete", "failed", "interrupted", "cancelled"}
Idle == {"idle", "done", "failed"}

Event(n) == [kind |-> "event", of |-> n, by |-> "pull"]
Complete(how, who) == [kind |-> "complete", of |-> how, by |-> who]

CaptureInit ==
  /\ pull = [at |-> "idle", phase |-> "push", left |-> 0]
  /\ cancel = "none"
  /\ stream = "readable" /\ terminal = FALSE /\ cancelled = FALSE
  /\ sent = 0 /\ hashed = [updates |-> 0, final |-> FALSE]
  /\ tail = <<[kind |-> "start", of |-> 0, by |-> "start"]>>
  /\ pending = 1 /\ waiters = <<>>
  /\ captureFailed = FALSE
  /\ row = [status |-> "none", sha |-> 0, capture |-> "request_captured"]
  /\ recorded = <<>>
  /\ provided = 0 /\ failures = 0

-----------------------------------------------------------------------------
(* The queue *)

FullMutant(t) == pending > Capacity                        \* off by one
FullBypassed(t) == t.kind = "event" /\ pending >= Capacity \* completions do not wait
Full(t) == pending >= Capacity

\* The tail is extended at once, or the caller waits for a slot.
Enqueue(t) ==
  IF Full(t)
  THEN waiters' = Append(waiters, t) /\ UNCHANGED <<tail, pending>>
  ELSE tail' = Append(tail, t) /\ pending' = pending + 1 /\ UNCHANGED waiters

\* A task of the callback is not finished: its drain() waits.
Unfinished(who) == \E i \in DOMAIN tail : tail[i].by = who

Failure == failures < Faults /\ failures' = failures + 1

\* What a callback does after emit() or after enqueueing its completion.
PullAfterMutant(t) ==                                      \* one output too many
  IF t.kind = "complete" THEN [pull EXCEPT !.at = "drain"]
  ELSE IF pull.left >= 0 THEN [pull EXCEPT !.at = "emit", !.left = @ - 1]
  ELSE [pull EXCEPT !.at = "idle"]
PullAfter(t) ==
  IF t.kind = "complete" THEN [pull EXCEPT !.at = "drain"]
  ELSE IF pull.left > 0 THEN [pull EXCEPT !.at = "emit", !.left = @ - 1]
  ELSE [pull EXCEPT !.at = IF pull.phase = "push" THEN "idle"
                           ELSE IF pull.phase = "finish" THEN "settle" ELSE "closing"]

\* The end of a task gives its slot to the first that waits.
ReleaseMutant ==                                           \* who waits is not told
  tail' = Tail(tail) /\ pending' = pending - 1 /\ UNCHANGED <<waiters, pull, cancel>>
Release ==
  IF waiters = <<>>
  THEN tail' = Tail(tail) /\ pending' = pending - 1 /\ UNCHANGED <<waiters, pull, cancel>>
  ELSE LET t == Head(waiters)
       IN /\ tail' = Append(Tail(tail), t) /\ waiters' = Tail(waiters)
          /\ pull' = IF t.by = "pull" THEN PullAfter(t) ELSE pull
          /\ cancel' = IF t.by = "cancel" THEN "drain" ELSE cancel
          /\ UNCHANGED pending

-----------------------------------------------------------------------------
(* The tasks, each with what the database answers *)

\* The arrow of a completion reads the flags and the hash when it runs.
Completion(t, failed) ==
  [status |-> IF row.status = "none" THEN "none" ELSE t.of,
   sha |-> IF row.status = "none" \/ hashed.final THEN row.sha ELSE hashed.updates,
   capture |-> IF failed THEN "failed" ELSE "complete"]

Succeed(t) ==
  /\ row' = CASE t.kind = "start" -> [row EXCEPT !.status = "streaming", !.capture = "streaming"]
              [] t.kind = "event" -> row
              [] t.kind = "complete" -> Completion(t, captureFailed)
  /\ recorded' = IF t.kind = "event" THEN Append(recorded, t.of) ELSE recorded
  /\ UNCHANGED <<captureFailed, failures>>

\* The first of its two statements may have been done; onError may fail too.
FailMutant(t) ==                                           \* the flag is forgotten
  /\ Failure
  /\ row' = [row EXCEPT !.capture = "failed"]
  /\ UNCHANGED <<captureFailed, recorded>>
Fail(t) ==
  /\ Failure
  /\ captureFailed' = TRUE
  /\ \E capture \in {"failed", row.capture} :
       row' \in {[row EXCEPT !.capture = capture]}
                \cup CASE t.kind = "start" -> {[row EXCEPT !.status = "streaming", !.capture = capture]}
                       [] t.kind = "event" -> {}
                       [] t.kind = "complete" -> {[Completion(t, TRUE) EXCEPT !.capture = capture]}
  /\ recorded' \in {recorded} \cup (IF t.kind = "event" THEN {Append(recorded, t.of)} ELSE {})

RunTask ==
  /\ tail # <<>>
  /\ LET t == Head(tail)
     IN /\ Succeed(t) \/ Fail(t)
        /\ Release
        /\ hashed' = [hashed EXCEPT !.final = @ \/ t.kind = "complete"]
  /\ UNCHANGED <<streamVars, provided>>

-----------------------------------------------------------------------------
(* pull() *)

\* An error inside its try block, and one outside of it.
Catch ==
  /\ terminal' = TRUE
  /\ pull' = [at |-> "settle", phase |-> "interrupted", left |-> 0]
  /\ UNCHANGED <<cancelled, stream>>
Reject ==
  /\ pull' = [pull EXCEPT !.at = "failed"]
  /\ stream' = IF stream = "readable" THEN "errored" ELSE stream
  /\ UNCHANGED <<terminal, cancelled>>
Throw == IF pull.phase = "interrupted" THEN Reject ELSE Catch

Pull ==
  /\ pull.at = "idle" /\ stream = "readable" /\ ~terminal
  /\ pull' = [pull EXCEPT !.at = "read"]
  /\ UNCHANGED <<cancel, streamVars, hashed, queueVars, payloadVars, provided, failures>>

Emitting(phase, n) == [at |-> "emit", phase |-> phase, left |-> n - 1]

\* finish(): what the adapter still owes, then the settlement.
FinishStream ==
  IF terminal
  THEN pull' = [pull EXCEPT !.at = "idle"] /\ UNCHANGED <<terminal, cancelled, stream>>
  ELSE /\ terminal' = TRUE /\ UNCHANGED <<cancelled, stream>>
       /\ \E n \in 0 .. MaxOutputs :
            pull' = IF n > 0 THEN Emitting("finish", n)
                    ELSE [at |-> "settle", phase |-> "finish", left |-> 0]

\* An event, the end of the stream, [DONE], or an error: an abort included.
Read ==
  /\ pull.at = "read"
  /\ \/ /\ provided < MaxEvents /\ provided' = provided + 1
        /\ \E n \in 0 .. MaxOutputs :
             pull' = IF n > 0 THEN Emitting("push", n)
                     ELSE [pull EXCEPT !.at = IF terminal THEN "idle" ELSE "read"]
        /\ UNCHANGED <<terminal, cancelled, stream>>
     \/ FinishStream /\ UNCHANGED provided
     \/ pull' = [pull EXCEPT !.at = "return"] /\ UNCHANGED <<terminal, cancelled, stream, provided>>
     \/ Catch /\ UNCHANGED provided
  /\ UNCHANGED <<cancel, sent, hashed, queueVars, payloadVars, failures>>

Returned ==
  /\ pull.at = "return"
  /\ FinishStream
  /\ UNCHANGED <<cancel, sent, hashed, queueVars, payloadVars, provided, failures>>

\* The observer has answered: hash, send, record.
Emit ==
  /\ pull.at = "emit"
  /\ \/ /\ stream = "readable" /\ ~hashed.final
        /\ sent' = sent + 1
        /\ hashed' = [hashed EXCEPT !.updates = @ + 1]
        /\ Enqueue(Event(sent))
        /\ pull' = IF Full(Event(sent)) THEN [pull EXCEPT !.at = "slot"] ELSE PullAfter(Event(sent))
        /\ UNCHANGED <<terminal, cancelled, stream, failures>>
     \/ /\ stream # "readable" \/ hashed.final             \* update or enqueue throws
        /\ hashed' = [hashed EXCEPT !.updates = IF hashed.final THEN @ ELSE @ + 1]
        /\ Throw
        /\ UNCHANGED <<sent, queueVars, failures>>
     \/ /\ pull.phase \in {"push", "finish"}               \* the observer throws
        /\ Failure
        /\ Throw
        /\ UNCHANGED <<sent, hashed, queueVars>>
  /\ UNCHANGED <<cancel, payloadVars, provided>>

\* settleStream; finish() sends what is left to say, the catch branch the error.
SettlePull ==
  /\ pull.at = "settle"
  /\ \/ /\ pull.phase = "finish"
        /\ \/ pull' = Emitting("failed", 1)                \* no reliable usage
           \/ pull' = IF OpenAI THEN Emitting("complete", 1)
                      ELSE [at |-> "closing", phase |-> "complete", left |-> 0]
        /\ UNCHANGED <<terminal, cancelled, stream, failures>>
     \/ /\ pull.phase = "interrupted"
        /\ pull' = IF cancelled THEN [pull EXCEPT !.at = "closing"]
                   ELSE Emitting("interrupted", 1)
        /\ UNCHANGED <<terminal, cancelled, stream, failures>>
     \/ Failure /\ Throw
  /\ UNCHANGED <<cancel, sent, hashed, queueVars, payloadVars, provided>>

\* The completion of the payload, once the routing attempt is finished.
ClosePull ==
  /\ pull.at = "closing"
  /\ \/ LET t == Complete(IF cancelled THEN "cancelled" ELSE pull.phase, "pull")
        IN /\ Enqueue(t)
           /\ pull' = IF Full(t) THEN [pull EXCEPT !.at = "slot"] ELSE PullAfter(t)
           /\ UNCHANGED <<terminal, cancelled, stream, failures>>
     \/ /\ pull.phase # "interrupted"
        /\ Failure
        /\ Catch
        /\ UNCHANGED queueVars
  /\ UNCHANGED <<cancel, sent, hashed, payloadVars, provided>>

\* The drain has ended: controller.close(), which throws on a cancelled stream.
DrainedMutant(who) == TRUE
Drained(who) == ~Unfinished(who)

DrainPull ==
  /\ pull.at = "drain" /\ Drained("pull")
  /\ IF cancelled \/ stream = "readable"
     THEN /\ pull' = [pull EXCEPT !.at = "done"]
          /\ stream' = IF cancelled THEN stream ELSE "closed"
          /\ UNCHANGED <<terminal, cancelled>>
     ELSE Throw
  /\ UNCHANGED <<cancel, sent, hashed, queueVars, payloadVars, provided, failures>>

-----------------------------------------------------------------------------
(* cancel(), which the stream calls once, whatever pull() is doing *)

CancelStream ==
  /\ stream = "readable"
  /\ stream' = "cancelled"
  /\ IF terminal
     THEN cancel' = "done" /\ UNCHANGED <<terminal, cancelled>>
     ELSE cancel' = "route" /\ terminal' = TRUE /\ cancelled' = TRUE
  /\ UNCHANGED <<pull, sent, hashed, queueVars, payloadVars, provided, failures>>

\* finishRoutingAttempt, the abort, and the return of the iterator behind it.
CancelRoute ==
  /\ cancel = "route"
  /\ \/ cancel' = "return" /\ UNCHANGED failures
     \/ Failure /\ cancel' = "failed"
  /\ UNCHANGED <<pull, streamVars, hashed, queueVars, payloadVars, provided>>

CancelReturn ==
  /\ cancel = "return" /\ pull.at \notin {"read", "return"}
  /\ cancel' = "settle"
  /\ UNCHANGED <<pull, streamVars, hashed, queueVars, payloadVars, provided, failures>>

CancelSettle ==
  /\ cancel = "settle"
  /\ \/ LET t == Complete("cancelled", "cancel")
        IN /\ Enqueue(t)
           /\ cancel' = IF Full(t) THEN "slot" ELSE "drain"
           /\ UNCHANGED failures
     \/ Failure /\ cancel' = "failed" /\ UNCHANGED queueVars
  /\ UNCHANGED <<pull, streamVars, hashed, payloadVars, provided>>

CancelDrain ==
  /\ cancel = "drain" /\ Drained("cancel")
  /\ cancel' = "done"
  /\ UNCHANGED <<pull, streamVars, hashed, queueVars, payloadVars, provided, failures>>

-----------------------------------------------------------------------------

PullStep == Read \/ Returned \/ Emit \/ SettlePull \/ ClosePull \/ DrainPull
CancelStep == CancelRoute \/ CancelReturn \/ CancelSettle \/ CancelDrain

CaptureNext == Pull \/ PullStep \/ CancelStream \/ CancelStep \/ RunTask

\* The client need not read and need not cancel.  What awaits goes on: the
\* database answers or fails, and the idle timer bounds the wait for the provider.
CaptureFairness ==
  WF_captureVars(PullStep) /\ WF_captureVars(CancelStep) /\ WF_captureVars(RunTask)

CaptureSpec == CaptureInit /\ [][CaptureNext]_captureVars
CaptureFairSpec == CaptureSpec /\ CaptureFairness

-----------------------------------------------------------------------------
(* Properties *)

Tasks == [kind : {"start"}, of : {0}, by : {"start"}]
         \cup [kind : {"event"}, of : Nat, by : {"pull"}]
         \cup [kind : {"complete"}, of : Final, by : {"pull", "cancel"}]

PullStates ==
  [at : {"idle", "read", "return", "emit", "slot", "settle", "closing", "drain", "done",
         "failed"},
   phase : {"push", "finish", "complete", "failed", "interrupted"}, left : Nat]

Rows == [status : {"none", "streaming"} \cup Final, sha : Nat,
         capture : {"request_captured", "streaming", "failed", "complete"}]

CaptureTypeOK ==
  /\ pull \in PullStates
  /\ cancel \in {"none", "route", "return", "settle", "slot", "drain", "done", "failed"}
  /\ stream \in {"readable", "cancelled", "closed", "errored"}
  /\ terminal \in BOOLEAN /\ cancelled \in BOOLEAN /\ captureFailed \in BOOLEAN
  /\ sent \in Nat /\ hashed \in [updates : Nat, final : BOOLEAN]
  /\ tail \in Seq(Tasks) /\ waiters \in Seq(Tasks) /\ pending \in Nat
  /\ row \in Rows
  /\ recorded \in Seq(Nat)
  /\ provided \in 0 .. MaxEvents /\ failures \in 0 .. Faults

\* The queue holds no more tasks than its capacity and counts them right, a slot
\* that is handed on included, and only who found it full waits
\* (bounded-task-queue.ts: "an explicit memory bound").
PendingBounded ==
  /\ pending = Len(tail) /\ pending <= Capacity
  /\ waiters # <<>> => pending = Capacity

\* The queue is well formed, and bounded.
QueueIsBounded == CaptureTypeOK /\ PendingBounded

\* A capture marked complete is complete: the events that were sent, all of them, in
\* their order, and their hash unless a cancellation met an event on its way
\* (payload_capture_status, recordGatewayResponseEvent, finishResponseHash).
CompleteIsWhole ==
  row.capture = "complete" =>
    /\ recorded = [i \in 1 .. sent |-> i - 1]
    /\ row.status \in Final \ {"cancelled"} => row.sha = sent

\* What the provider's client sees closed is recorded: the close comes after the
\* completion of the payload, which comes after its events (drain before close).
ClosedIsCaptured ==
  stream = "closed" => tail = <<>> /\ (captureFailed \/ row.status \in Final)

\* The record of an answer never claims more than it holds: neither its own mark nor
\* the close the client sees comes before the events.
CaptureIsTruthful ==
  /\ CompleteIsWhole
  /\ ClosedIsCaptured

\* Nothing is recorded for a payload that is completed, and it is not reopened: a
\* completion never passes an event that waits for a slot.
CompletionIsLast ==
  [][row.status \in Final => recorded' = recorded /\ row'.status \in Final]_captureVars

\* Whatever is cancelled or fails, a callback that awaits something returns: no slot
\* and no drain is waited for in vain.
CallbacksReturn ==
  /\ pull.at \notin Idle ~> pull.at \in Idle
  /\ cancel \notin {"none", "done", "failed"} ~> cancel \in {"done", "failed"}

\* Expected by docs/verification/gateway-protocol-streaming-audit.md:108 of a cancel
\* ("... records `cancelled`"): no payload stays open when both callbacks are done.
CancelIsRecorded ==
  stream = "cancelled" /\ pull.at \in Idle /\ cancel = "done" /\ tail = <<>> =>
    row.status \in Final

=============================================================================
