----------------------------- MODULE TaskResults -----------------------------
(***************************************************************************)
(* Results of task sessions on their way back to the thread that started   *)
(* the task (taskSessionResultRepository.ts, taskSessionResultService.ts). *)
(* The final answer of a task makes a pending result.  A service claims    *)
(* the earliest one whose source thread is free, or a certain one, and     *)
(* gets a technical input and two grants for the source.  It settles the   *)
(* result, or a later scan does when the grants are gone.                  *)
(*                                                                         *)
(* A claim is a transaction that locks rows one after the other, so it is  *)
(* several actions: what it has written is its draft, which nobody else    *)
(* sees before it commits, and its locks are released with its end.  It    *)
(* may also be undone at any point.  The other operations lock one thread  *)
(* or one row and are one action.  A call that is refused changes nothing  *)
(* and is no action.  A revision counts the changes of a status that never *)
(* comes back, so it holds no more than the status; a result is claimed at *)
(* most once, so the ids of its claim, turn and input are not told apart.  *)
(***************************************************************************)
EXTENDS Integers, FiniteSets

CONSTANTS
  Notices,      \* the results: (task_id, target_turn_id) of tasks that return one
  SourceOf,     \* source_thread_id of each
  Rank,         \* the order of (created_at, id)
  Oversized,    \* results whose text exceeds DREAM_DATA_MAX_BODY_BYTES
  Calls,        \* requests as they arrive at the server, repeated ones included
  RequestOf,    \* request_id of result-claim-next, Nil for result-claim
  Inputs,       \* inputs of users to the source threads
  InputThread,  \* the thread of each
  Grants,       \* the purposes: server-persistence and gateway-cli
  MaxFinals,    \* bound: final messages stored for one claimed turn
  Nil

SourceThreads == {SourceOf[n] : n \in Notices}
NextRequests == {RequestOf[c] : c \in Calls} \ {Nil}

ASSUME ResultsAssumption ==
  /\ Rank \in [Notices -> Nat \ {0}]
  /\ \A n, m \in Notices : Rank[n] = Rank[m] => n = m
  /\ DOMAIN SourceOf = Notices /\ DOMAIN RequestOf = Calls /\ DOMAIN InputThread = Inputs
  /\ Oversized \subseteq Notices /\ MaxFinals \in Nat
  /\ Nil \notin Notices /\ "nothing" \notin Notices \cup {Nil}

VARIABLES
  result,     \* chat_task_result.status
  claimKey,   \* chat_task_result.claim_request_key, as the request it is made of
  technical,  \* how many technical inputs were written for the result
  finals,     \* final messages in the source thread with its turn and its id
  bearer,     \* runtime_delegations bound to its claim
  queue,      \* chat_input_queue.status
  ready,      \* the source thread can be resumed and its user is active
  nothing,    \* requests with a receipt of an empty scan
  call        \* what each call is doing

resultVars == <<result, claimKey, technical, finals, bearer, queue, ready, nothing, call>>

Same == "same"  \* what a draft says of a row it has not written

Resting == [at |-> "idle", notice |-> Nil, rows |-> {}, advisory |-> {},
            draft |-> [n \in Notices |-> Same], answer |-> Nil]

ResultsInit ==
  /\ result    = [n \in Notices |-> "none"]
  /\ claimKey  = [n \in Notices |-> Nil]
  /\ technical = [n \in Notices |-> 0]
  /\ finals    = [n \in Notices |-> 0]
  /\ bearer    = [n \in Notices |-> [x \in Grants |-> "none"]]
  /\ queue     = [i \in Inputs |-> "none"]
  /\ ready     = [s \in SourceThreads |-> TRUE]
  /\ nothing   = {}
  /\ call      = [c \in Calls |-> Resting]

-----------------------------------------------------------------------------
(* Transactions: what they lock, write and see.                            *)

Running(c) == call[c].at \in {"scan", "claim", "write"}

\* No other transaction holds the row: FOR UPDATE does not wait, SKIP LOCKED finds it.
Unlocked(c, n) == \A d \in Calls \ {c} : n \notin call[d].rows

\* pg_advisory_xact_lock on the source thread.
CanEnterMutant(c, s) == s \in SourceThreads
CanEnter(c, s) == \A d \in Calls \ {c} : s \notin call[d].advisory

\* pg_advisory_xact_lock on the request: its calls are served one at a time.
KeyFree(c) == \A d \in Calls : Running(d) => RequestOf[d] # RequestOf[c]

\* A statement reads what is committed and what its own transaction has written.
Seen(c, n) == IF call[c].draft[n] = Same THEN result[n] ELSE call[c].draft[n]

EndCall(c, answer) == [call EXCEPT ![c] = [Resting EXCEPT !.at = "over", !.answer = answer]]

\* uq_chat_task_result_source_dispatching.
Collides(c) ==
  \E n, m \in Notices :
    /\ n # m /\ SourceOf[n] = SourceOf[m]
    /\ call[c].draft[n] = "dispatching" /\ Seen(c, m) = "dispatching"

Commit(c) ==
  LET claimed == {n \in Notices : call[c].draft[n] = "dispatching"}
  IN  /\ call[c].at = "write" /\ ~ Collides(c)
      /\ result'    = [n \in Notices |-> Seen(c, n)]
      /\ claimKey'  = [n \in Notices |-> IF n \in claimed THEN RequestOf[c] ELSE claimKey[n]]
      /\ technical' = [n \in Notices |-> IF n \in claimed THEN technical[n] + 1 ELSE technical[n]]
      /\ bearer'    = [n \in Notices |-> IF n \in claimed THEN [x \in Grants |-> "live"]
                                         ELSE bearer[n]]
      /\ nothing'   = IF call[c].answer = "nothing" THEN nothing \cup {RequestOf[c]} ELSE nothing
      /\ call' = EndCall(c, call[c].answer)
      /\ UNCHANGED <<finals, queue, ready>>

\* The connection is lost, the database resolves a deadlock, or the commit is refused.
Undo(c) ==
  /\ Running(c)
  /\ call' = EndCall(c, Nil)
  /\ UNCHANGED <<result, claimKey, technical, finals, bearer, queue, ready, nothing>>

OnlyCalls == UNCHANGED <<result, claimKey, technical, finals, bearer, queue, ready, nothing>>

-----------------------------------------------------------------------------
(* result-claim-next.                                                      *)

\* A grant that has lapsed may be seen again as renewed: the renewal judges it by the
\* clock of the server, the scan by the one of the database.
Active(n) == {x \in Grants : bearer[n][x] \in {"live", "renewed"}}

\* The scan decides about a claim when no grant of it is active any more.
AbandonedMutant(n) == result[n] = "dispatching" /\ (Active(n) = {} \/ finals[n] = 1)
Abandoned(n) == result[n] = "dispatching" /\ Active(n) = {}

Exact(n) == finals[n] = 1

Recoverable(n) ==
  /\ result[n] = "dispatching" /\ ready[SourceOf[n]] /\ Active(n) = Grants

CanBegin(c) == call[c].at = "idle" /\ RequestOf[c] # Nil /\ KeyFree(c)

\* An earlier call of the request found nothing, and so does this one.
AnswerNothing(c) ==
  /\ CanBegin(c) /\ RequestOf[c] \in nothing
  /\ call' = EndCall(c, "nothing")
  /\ OnlyCalls

\* An earlier call of the request claimed a result: it is handed out again.
Recover(c) ==
  \E n \in Notices :
    /\ CanBegin(c) /\ RequestOf[c] \notin nothing
    /\ claimKey[n] = RequestOf[c] /\ Unlocked(c, n)
    /\ call' = EndCall(c, IF Recoverable(n) THEN n ELSE Nil)
    /\ OnlyCalls

\* What the reconciliation at the head of a scan writes.  It skips dispatching rows that
\* are locked and waits for unknown ones.
ScanWrites(c) ==
  [n \in Notices |->
     IF Abandoned(n) /\ Unlocked(c, n)
       THEN IF Exact(n) THEN "delivered" ELSE "state_unknown"
       ELSE IF result[n] = "state_unknown" /\ Exact(n) THEN "delivered" ELSE Same]

StartScan(c) ==
  /\ CanBegin(c) /\ RequestOf[c] \notin nothing
  /\ \A n \in Notices : claimKey[n] # RequestOf[c]
  /\ \A n \in Notices : result[n] = "state_unknown" => Unlocked(c, n)
  /\ call' = [call EXCEPT ![c].at = "scan", ![c].draft = ScanWrites(c),
                          ![c].rows = {n \in Notices : /\ result[n] \in {"dispatching", "state_unknown"}
                                                       /\ Unlocked(c, n)}]
  /\ OnlyCalls

\* The rows behind the cursor of the scan that it can lock.
Candidates(c) ==
  {n \in Notices : /\ Seen(c, n) = "pending" /\ Unlocked(c, n)
                   /\ call[c].notice # Nil => Rank[n] > Rank[call[c].notice]}

Take(c) ==
  /\ call[c].at = "scan"
  /\ \E n \in Candidates(c) :
       /\ \A m \in Candidates(c) : Rank[n] <= Rank[m]
       /\ call' = [call EXCEPT ![c].notice = n, ![c].rows = @ \cup {n},
                               ![c].at = IF ready[SourceOf[n]] THEN "claim" ELSE "scan"]
  /\ OnlyCalls

FindNothing(c) ==
  /\ call[c].at = "scan" /\ Candidates(c) = {}
  /\ call' = [call EXCEPT ![c].at = "write", ![c].answer = "nothing"]
  /\ OnlyCalls

-----------------------------------------------------------------------------
(* result-claim, by itself or for a candidate of a scan.                   *)

\* By itself it names the result, and is refused unless that is pending or its own.
ClaimNamed(c, n) ==
  /\ call[c].at = "idle" /\ RequestOf[c] = Nil /\ Unlocked(c, n)
  /\ \/ /\ result[n] = "pending" /\ ready[SourceOf[n]]
        /\ call' = [call EXCEPT ![c].at = "claim", ![c].notice = n, ![c].rows = {n}]
     \/ /\ Recoverable(n)
        /\ call' = EndCall(c, n)
  /\ OnlyCalls

Open == {"queued", "selected", "dispatching", "state_unknown"}

Blocked(c, n) ==
  \/ \E i \in Inputs : InputThread[i] = SourceOf[n] /\ queue[i] \in Open
  \/ \E m \in Notices : SourceOf[m] = SourceOf[n] /\ Seen(c, m) = "dispatching"
  \/ n \in Oversized

\* With the lock of the source thread.  A scan goes on behind a blocked result, and
\* keeps the locks it has.
Enter(c) ==
  LET n == call[c].notice
      s == SourceOf[n]
  IN  /\ call[c].at = "claim" /\ CanEnter(c, s)
      /\ \/ /\ ~ Blocked(c, n)
            /\ call' = [call EXCEPT ![c].at = "write", ![c].advisory = @ \cup {s},
                                    ![c].draft[n] = "dispatching", ![c].answer = n]
         \/ /\ Blocked(c, n) /\ RequestOf[c] # Nil
            /\ call' = [call EXCEPT ![c].at = "scan", ![c].advisory = @ \cup {s}]
         \/ /\ Blocked(c, n) /\ RequestOf[c] = Nil
            /\ call' = EndCall(c, Nil)
      /\ OnlyCalls

ClaimStep(c) ==
  \/ AnswerNothing(c) \/ Recover(c) \/ StartScan(c) \/ Take(c) \/ FindNothing(c)
  \/ (\E n \in Notices : ClaimNamed(c, n)) \/ Enter(c)
  \/ Commit(c) \/ Undo(c)

-----------------------------------------------------------------------------
(* The other operations on results.                                        *)

Free(n) == \A c \in Calls : n \notin call[c].rows

\* The final answer of the task is stored, and its result with it.
TargetFinal(n) ==
  /\ result[n] = "none"
  /\ result' = [result EXCEPT ![n] = "pending"]
  /\ UNCHANGED <<claimKey, technical, finals, bearer, queue, ready, nothing, call>>

Claimed(n) == result[n] \notin {"none", "pending"}

\* The answer to the technical input is stored in the source thread, by the grant or by
\* the user, in time or late.
StoreFinal(n) ==
  /\ Claimed(n) /\ finals[n] < MaxFinals
  /\ finals' = [finals EXCEPT ![n] = @ + 1]
  /\ UNCHANGED <<result, claimKey, technical, bearer, queue, ready, nothing, call>>

Settle(n, outcome) ==
  /\ result[n] = "dispatching" /\ Free(n)
  /\ outcome = "delivered" => Exact(n)
  /\ result' = [result EXCEPT ![n] = outcome]
  /\ UNCHANGED <<claimKey, technical, finals, bearer, queue, ready, nothing, call>>

\* Whoever lists the results of a thread upgrades those whose answer came late.
List(s) ==
  LET unknown == {n \in Notices : SourceOf[n] = s /\ result[n] = "state_unknown"}
  IN  /\ \A n \in unknown : Free(n)
      /\ \E n \in unknown : Exact(n)
      /\ result' = [n \in Notices |-> IF n \in unknown /\ Exact(n) THEN "delivered"
                                      ELSE result[n]]
      /\ UNCHANGED <<claimKey, technical, finals, bearer, queue, ready, nothing, call>>

-----------------------------------------------------------------------------
(* Grants, followed while the claim is open; inputs; threads.              *)

\* A grant lapses; a renewal that found it alive may be written after that; it is
\* revoked, or lapses for good.
GrantMoves(n, x) ==
  /\ result[n] = "dispatching"
  /\ \E to \in CASE bearer[n][x] = "live"    -> {"lapsed", "over"}
                 [] bearer[n][x] = "lapsed"  -> {"renewed", "over"}
                 [] bearer[n][x] = "renewed" -> {"over"}
                 [] OTHER                    -> {} :
       bearer' = [bearer EXCEPT ![n][x] = to]
  /\ UNCHANGED <<result, claimKey, technical, finals, queue, ready, nothing, call>>

QueueMoves(i, to) ==
  /\ queue' = [queue EXCEPT ![i] = to]
  /\ UNCHANGED <<result, claimKey, technical, finals, bearer, ready, nothing, call>>

NoneIs(i, status) == \A j \in Inputs : InputThread[j] = InputThread[i] => queue[j] # status

Enqueue(i) == queue[i] = "none" /\ QueueMoves(i, "queued")

SelectInput(i) == queue[i] = "queued" /\ NoneIs(i, "selected") /\ QueueMoves(i, "selected")

ClaimInput(i) ==
  /\ queue[i] \in {"queued", "selected"} /\ NoneIs(i, "dispatching")
  /\ queue[i] = "queued" => NoneIs(i, "selected")
  /\ QueueMoves(i, "dispatching")

\* Consumed, cancelled, failed, or moved into a task of its own: the same for the thread.
EndInput(i) == queue[i] \in {"queued", "selected", "dispatching"} /\ QueueMoves(i, "ended")

LoseInput(i) == queue[i] = "dispatching" /\ QueueMoves(i, "state_unknown")

\* The session of the thread is saved; its user is suspended and restored.
Reach(s) ==
  /\ ready' = [ready EXCEPT ![s] = ~ @]
  /\ UNCHANGED <<result, claimKey, technical, finals, bearer, queue, nothing, call>>

ResultsNext ==
  \/ \E c \in Calls : ClaimStep(c)
  \/ \E n \in Notices :
       \/ TargetFinal(n) \/ StoreFinal(n)
       \/ \E outcome \in {"delivered", "failed", "state_unknown"} : Settle(n, outcome)
       \/ \E x \in Grants : GrantMoves(n, x)
  \/ \E s \in SourceThreads : List(s) \/ Reach(s)
  \/ \E i \in Inputs :
       Enqueue(i) \/ SelectInput(i) \/ ClaimInput(i) \/ EndInput(i) \/ LoseInput(i)

ResultsSpec == ResultsInit /\ [][ResultsNext]_resultVars

-----------------------------------------------------------------------------
(* Properties.                                                             *)

ResultStatus == {"none", "pending", "dispatching", "delivered", "failed", "state_unknown"}

ResultsTypeOK ==
  /\ result    \in [Notices -> ResultStatus]
  /\ claimKey  \in [Notices -> NextRequests \cup {Nil}]
  /\ technical \in [Notices -> Nat]
  /\ finals    \in [Notices -> 0 .. MaxFinals]
  /\ bearer    \in [Notices -> [Grants -> {"none", "live", "lapsed", "renewed", "over"}]]
  /\ queue     \in [Inputs -> {"none", "ended"} \cup Open]
  /\ ready     \in [SourceThreads -> BOOLEAN]
  /\ nothing   \subseteq NextRequests
  /\ call      \in [Calls -> [at : {"idle", "scan", "claim", "write", "over"},
                             notice : Notices \cup {Nil}, rows : SUBSET Notices,
                             advisory : SUBSET SourceThreads,
                             draft : [Notices -> ResultStatus \cup {Same}],
                             answer : Notices \cup {"nothing", Nil}]]

\* One result at a time is worked on in a source thread, and that is so before the
\* index of the table is asked: a claim that meets the index would be undone with an
\* error that no scan expects.
OneDispatchPerSource ==
  /\ \A n, m \in Notices :
       /\ result[n] = "dispatching" /\ result[m] = "dispatching"
       /\ SourceOf[n] = SourceOf[m]
       => n = m
  /\ \A c \in Calls : call[c].at = "write" => ~ Collides(c)

\* A claimed result was put before the model once: one technical input for each.
OneInputPerClaim ==
  \A n \in Notices : technical[n] = IF Claimed(n) THEN 1 ELSE 0

\* The calls of one request claim one result or none, and are told the same.
OneAnswerPerRequest ==
  /\ \A n, m \in Notices : claimKey[n] = claimKey[m] /\ claimKey[n] # Nil => n = m
  /\ \A n \in Notices : claimKey[n] \notin nothing
  /\ \A c, d \in Calls :
       /\ RequestOf[c] = RequestOf[d] /\ RequestOf[c] # Nil
       /\ call[c].at = "over" /\ call[d].at = "over"
       /\ call[c].answer # Nil /\ call[d].answer # Nil
       => call[c].answer = call[d].answer

\* Nothing counts as delivered without the answer being stored.
DeliveredIsStored == \A n \in Notices : result[n] = "delivered" => finals[n] > 0

\* Results, claims and answers agree, whichever calls meet, are undone or repeated.
ResultsAreSound ==
  /\ ResultsTypeOK
  /\ OneDispatchPerSource
  /\ OneInputPerClaim
  /\ OneAnswerPerRequest
  /\ DeliveredIsStored

Moves == {<<"none", "pending">>, <<"pending", "dispatching">>,
          <<"dispatching", "delivered">>, <<"dispatching", "failed">>,
          <<"dispatching", "state_unknown">>, <<"state_unknown", "delivered">>}

\* No result is handed out a second time, an uncertain one becomes delivered or stays,
\* and what other calls wrote meanwhile is not undone by a late commit.
ResultsMoveForward ==
  \A n \in Notices : result'[n] # result[n] => <<result[n], result'[n]>> \in Moves

\* No scan takes a claim from an owner who has let no grant lapse, or only one of the
\* two: the owner may still be working on the inputs that follow.
OwnersAreLeftAlone ==
  \A n \in Notices :
    /\ result[n] = "dispatching" /\ result'[n] # "dispatching"
    /\ call' # call
    => \A x \in Grants : bearer[n][x] # "live"

HandoffsAreSafe == [][ResultsMoveForward /\ OwnersAreLeftAlone]_resultVars

(* What the repository says and the code does not do, and what it does not *)
(* say.                                                                    *)

\* "It leaves a claim in dispatching while any source grant remains active."
ActiveIsLeftAlone ==
  [][\A n \in Notices :
       /\ result[n] = "dispatching" /\ result'[n] # "dispatching"
       /\ call' # call
       => Active(n) = {}]_resultVars

\* Calls do not wait for the locks of each other.
NoCallsInACircle ==
  \A c, d \in Calls :
    ~ /\ c # d /\ call[c].at = "claim" /\ call[d].at = "claim"
      /\ SourceOf[call[c].notice] \in call[d].advisory
      /\ SourceOf[call[d].notice] \in call[c].advisory
=============================================================================
