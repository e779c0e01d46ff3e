-------------------------- MODULE TaskResultsProofs --------------------------
(***************************************************************************)
(* Results of task sessions are claimed once, one at a time for a source   *)
(* thread and one for a request, for any results, calls, requests, inputs  *)
(* and grants.  The invariant says what a running transaction knows: what  *)
(* it has written is locked by it and was written on what is committed     *)
(* now, a claim it has written holds the lock of the source thread, and    *)
(* its request has no other answer.                                        *)
(***************************************************************************)
EXTENDS TaskResults, TLAPS

CallRecord == [at : {"idle", "scan", "claim", "write", "over"},
               notice : Notices \cup {Nil}, rows : SUBSET Notices,
               advisory : SUBSET SourceThreads,
               draft : [Notices -> ResultStatus \cup {Same}],
               answer : Notices \cup {"nothing", Nil}]

NoneLive(n) == \A x \in Grants : bearer[n][x] # "live"

SeenIn(r, n) == IF r.draft[n] = Same THEN result[n] ELSE r.draft[n]

\* What a transaction has written about a result.
Written(r, n) ==
  /\ r.draft[n] # Same => n \in r.rows
  /\ r.draft[n] \in {Same, "dispatching", "delivered", "state_unknown"}
  /\ r.draft[n] = "dispatching" =>
       /\ r.at = "write" /\ r.answer = n /\ SourceOf[n] \in r.advisory /\ result[n] = "pending"
       /\ \A m \in Notices : m # n /\ SourceOf[m] = SourceOf[n] => SeenIn(r, m) # "dispatching"
  /\ r.draft[n] = "delivered" =>
       /\ finals[n] > 0
       /\ \/ result[n] = "state_unknown"
          \/ result[n] = "dispatching" /\ NoneLive(n)
  /\ r.draft[n] = "state_unknown" => result[n] = "dispatching" /\ NoneLive(n)

RunningIn(r) == r.at \in {"scan", "claim", "write"}

\* How far it is, and what its request has come to.
Placed(c, r) ==
  /\ ~ RunningIn(r) => r.rows = {} /\ r.advisory = {}
  /\ r.at \in {"idle", "scan", "claim"} => r.answer = Nil
  /\ r.at = "scan" => RequestOf[c] # Nil
  /\ r.at = "claim" => r.notice \in r.rows /\ result[r.notice] = "pending" /\ r.draft[r.notice] = Same
  /\ r.at = "write" => \/ /\ r.answer = "nothing" /\ RequestOf[c] # Nil
                          /\ \A n \in Notices : r.draft[n] # "dispatching"
                       \/ r.answer \in Notices /\ r.draft[r.answer] = "dispatching"

Answers(c, r) ==
  RequestOf[c] # Nil =>
    /\ RunningIn(r) => RequestOf[c] \notin nothing /\ \A n \in Notices : claimKey[n] # RequestOf[c]
    /\ r.at = "over" /\ r.answer = "nothing" => RequestOf[c] \in nothing
    /\ r.at = "over" /\ r.answer \in Notices => claimKey[r.answer] = RequestOf[c]

CallIsSound(c, r) ==
  /\ r \in CallRecord
  /\ \A n \in Notices : Written(r, n)
  /\ Placed(c, r)
  /\ Answers(c, r)

\* Two transactions share no row, no source thread and no request.
Apart(c, r, d) ==
  /\ r.rows \cap call[d].rows = {} /\ r.advisory \cap call[d].advisory = {}
  /\ RunningIn(r) /\ RunningIn(call[d]) /\ RequestOf[c] # Nil => RequestOf[c] # RequestOf[d]

\* What is committed.
TableIsSound ==
  /\ ResultsTypeOK
  /\ \A n, m \in Notices : /\ result[n] = "dispatching" /\ result[m] = "dispatching"
                           /\ SourceOf[n] = SourceOf[m]
                           => n = m
  /\ OneInputPerClaim
  /\ \A n \in Notices : claimKey[n] # Nil => Claimed(n)
  /\ \A n, m \in Notices : claimKey[n] = claimKey[m] /\ claimKey[n] # Nil => n = m
  /\ \A n \in Notices : claimKey[n] \notin nothing
  /\ DeliveredIsStored

RInv ==
  /\ TableIsSound
  /\ \A c \in Calls : CallIsSound(c, call[c])
  /\ \A c, d \in Calls : c # d => Apart(c, call[c], d)

RStep == RInv' /\ ResultsMoveForward /\ OwnersAreLeftAlone

\* The invariant contains what is to be shown.
LEMMA InvSuffices == RInv => ResultsAreSound
<1> SUFFICES ASSUME RInv PROVE ResultsAreSound
  OBVIOUS
<1>1. ResultsTypeOK /\ OneInputPerClaim /\ DeliveredIsStored
  BY DEF RInv, TableIsSound
<1>2. ASSUME NEW c \in Calls, call[c].at = "write" PROVE ~ Collides(c)
  <2> SUFFICES ASSUME NEW n \in Notices, NEW m \in Notices, n # m, SourceOf[n] = SourceOf[m],
                      call[c].draft[n] = "dispatching", Seen(c, m) = "dispatching"
               PROVE  FALSE
    BY DEF Collides
  <2>1. Written(call[c], n)
    BY DEF RInv, CallIsSound
  <2> QED
    BY <2>1 DEF Written, SeenIn, Seen, Same
<1>3. OneDispatchPerSource
  BY <1>2 DEF RInv, TableIsSound, OneDispatchPerSource
<1>4. ASSUME NEW c \in Calls, NEW d \in Calls, RequestOf[c] = RequestOf[d], RequestOf[c] # Nil,
             call[c].at = "over", call[d].at = "over",
             call[c].answer # Nil, call[d].answer # Nil
      PROVE  call[c].answer = call[d].answer
  <2>1. Answers(c, call[c]) /\ Answers(d, call[d]) /\ call[c] \in CallRecord /\ call[d] \in CallRecord
    BY DEF RInv, CallIsSound
  <2>2. call[c].answer \in Notices \cup {"nothing"} /\ call[d].answer \in Notices \cup {"nothing"}
    BY <1>4, <2>1 DEF CallRecord
  <2> QED
    BY <1>4, <2>1, <2>2, ResultsAssumption DEF Answers, RInv, TableIsSound
<1>5. OneAnswerPerRequest
  BY <1>4 DEF RInv, TableIsSound, OneAnswerPerRequest
<1> QED
  BY <1>1, <1>3, <1>5 DEF ResultsAreSound

\* At first nothing is claimed and no call runs.
LEMMA InitSound == ResultsInit => RInv
<1> SUFFICES ASSUME ResultsInit PROVE RInv
  OBVIOUS
<1> USE DEF ResultsInit
<1>1. Resting \in CallRecord
  BY DEF Resting, CallRecord, Same
<1>2. ResultsTypeOK
  BY <1>1, ResultsAssumption DEF ResultsTypeOK, CallRecord, ResultStatus
<1>3. TableIsSound
  BY <1>2 DEF TableIsSound, OneInputPerClaim, DeliveredIsStored, Claimed
<1>4. ASSUME NEW c \in Calls PROVE CallIsSound(c, call[c])
  BY <1>1, ResultsAssumption DEF CallIsSound, Written, Placed, Answers, RunningIn, Resting, Same
<1>5. \A c, d \in Calls : c # d => Apart(c, call[c], d)
  BY DEF Apart, RunningIn, Resting
<1> QED
  BY <1>3, <1>4, <1>5 DEF RInv

-----------------------------------------------------------------------------
(* Steps of one call that commit nothing.                                  *)

LEMMA OneCallMoves ==
  ASSUME RInv, OnlyCalls, NEW c \in Calls, NEW r, call' = [call EXCEPT ![c] = r],
         CallIsSound(c, r), \A d \in Calls \ {c} : Apart(c, r, d)
  PROVE  RStep
<1>0. r \in CallRecord /\ call \in [Calls -> CallRecord] /\ call' \in [Calls -> CallRecord]
  BY DEF RInv, CallIsSound, TableIsSound, ResultsTypeOK, CallRecord
<1>1. TableIsSound'
  BY <1>0 DEF RInv, OnlyCalls, TableIsSound, ResultsTypeOK, CallRecord, OneInputPerClaim,
     Claimed, DeliveredIsStored
<1>2. ASSUME NEW d \in Calls PROVE CallIsSound(d, call[d])'
  <2>1. /\ call'[d] = IF d = c THEN r ELSE call[d]
        /\ CallIsSound(d, call'[d])
    BY <1>0 DEF RInv
  <2> QED
    BY <2>1 DEF OnlyCalls, CallIsSound, Written, SeenIn, NoneLive, Placed, Answers, RunningIn
<1>3. ASSUME NEW d \in Calls, NEW e \in Calls, d # e PROVE Apart(d, call[d], e)'
  BY <1>0, <1>3 DEF RInv, Apart, RunningIn
<1>4. ResultsMoveForward /\ OwnersAreLeftAlone
  BY DEF OnlyCalls, ResultsMoveForward, OwnersAreLeftAlone
<1> QED
  BY <1>1, <1>2, <1>3, <1>4 DEF RStep, RInv

\* A call that ends releases what it held; it was told nothing, or what is committed.
LEMMA EndHolds ==
  ASSUME RInv, OnlyCalls, NEW c \in Calls, NEW answer \in Notices \cup {"nothing", Nil},
         call' = EndCall(c, answer),
         RequestOf[c] # Nil /\ answer = "nothing" => RequestOf[c] \in nothing,
         RequestOf[c] # Nil /\ answer \in Notices => claimKey[answer] = RequestOf[c]
  PROVE  RStep
<1> DEFINE r == [Resting EXCEPT !.at = "over", !.answer = answer]
<1>1. /\ r.at = "over" /\ r.answer = answer /\ r.rows = {} /\ r.advisory = {}
      /\ r.draft = [n \in Notices |-> Same] /\ r \in CallRecord
  BY DEF Resting, CallRecord
<1> HIDE DEF r
<1>2. CallIsSound(c, r)
  BY <1>1 DEF CallIsSound, Written, Placed, Answers, RunningIn, Same
<1>3. \A d \in Calls \ {c} : Apart(c, r, d)
  BY <1>1 DEF Apart, RunningIn
<1>4. call' = [call EXCEPT ![c] = r]
  BY DEF EndCall, r
<1> QED
  BY <1>2, <1>3, <1>4, OneCallMoves

\* What every running or resting call knows of itself, unfolded for the steps below.
LEMMA Knows ==
  ASSUME RInv, NEW c \in Calls
  PROVE  /\ call[c] \in CallRecord /\ call \in [Calls -> CallRecord]
         /\ \A n \in Notices : Written(call[c], n)
         /\ Placed(c, call[c]) /\ Answers(c, call[c])
         /\ \A d \in Calls \ {c} : Apart(c, call[c], d)
  BY DEF RInv, CallIsSound, TableIsSound, ResultsTypeOK, CallRecord

LEMMA AnswersHold ==
  ASSUME RInv, NEW c \in Calls, AnswerNothing(c) \/ Recover(c) \/ Undo(c)
  PROVE  RStep
<1>1. CASE AnswerNothing(c)
  BY <1>1, ResultsAssumption, EndHolds DEF AnswerNothing
<1>2. CASE Recover(c)
  <2>1. PICK n \in Notices : /\ claimKey[n] = RequestOf[c] /\ OnlyCalls
                             /\ call' = EndCall(c, IF Recoverable(n) THEN n ELSE Nil)
    BY <1>2 DEF Recover
  <2> QED
    BY <2>1, ResultsAssumption, EndHolds
<1>3. CASE Undo(c)
  BY <1>3, ResultsAssumption, EndHolds DEF Undo, OnlyCalls
<1> QED
  BY <1>1, <1>2, <1>3

\* A scan writes on claims that nobody else has locked and no grant protects.
LEMMA StartScanHolds == ASSUME RInv, NEW c \in Calls, StartScan(c) PROVE RStep
<1> DEFINE R == {n \in Notices : /\ result[n] \in {"dispatching", "state_unknown"}
                                 /\ Unlocked(c, n)}
           r == [call[c] EXCEPT !.at = "scan", !.draft = ScanWrites(c), !.rows = R]
<1> USE DEF StartScan, CanBegin
<1>1. /\ call[c] \in CallRecord /\ call \in [Calls -> CallRecord] /\ call[c].at = "idle"
      /\ call[c].advisory = {} /\ call[c].answer = Nil
  BY Knows DEF Placed, RunningIn
<1>2. ScanWrites(c) \in [Notices -> ResultStatus \cup {Same}]
  BY DEF ScanWrites, ResultStatus
<1>3. /\ r \in CallRecord /\ r.at = "scan" /\ r.draft = ScanWrites(c) /\ r.rows = R
      /\ r.advisory = {} /\ r.answer = Nil
  BY <1>1, <1>2 DEF CallRecord
<1> HIDE DEF r
<1>4. ASSUME NEW n \in Notices PROVE Written(r, n)
  <2>1. CASE Abandoned(n) /\ Unlocked(c, n)
    <3>1. NoneLive(n) /\ result[n] = "dispatching" /\ n \in R
      BY <2>1 DEF NoneLive, Abandoned, Active
    <3>2. r.draft[n] = IF Exact(n) THEN "delivered" ELSE "state_unknown"
      BY <1>3, <2>1 DEF ScanWrites
    <3> QED
      BY <1>3, <3>1, <3>2 DEF Written, Exact, Same
  <2>2. CASE ~ (Abandoned(n) /\ Unlocked(c, n))
    <3>1. r.draft[n] = IF result[n] = "state_unknown" /\ Exact(n) THEN "delivered" ELSE Same
      BY <1>3, <2>2 DEF ScanWrites
    <3>2. result[n] = "state_unknown" => n \in R
      OBVIOUS
    <3> QED
      BY <1>3, <3>1, <3>2 DEF Written, Exact, Same
  <2> QED
    BY <2>1, <2>2
<1>5. Placed(c, r) /\ Answers(c, r)
  BY <1>3, ResultsAssumption DEF Placed, Answers, RunningIn
<1>6. \A d \in Calls \ {c} : Apart(c, r, d)
  BY <1>3 DEF Apart, Unlocked, KeyFree, Running, RunningIn
<1>7. call' = [call EXCEPT ![c] = r]
  BY <1>1 DEF r, CallRecord
<1> QED
  BY <1>3, <1>4, <1>5, <1>6, <1>7, OneCallMoves DEF CallIsSound

\* A candidate is locked by nobody, and not written yet.
LEMMA ScanHolds == ASSUME RInv, NEW c \in Calls, Take(c) \/ FindNothing(c) PROVE RStep
<1>1. CASE Take(c)
  <2>1. PICK n \in Candidates(c) :
          call' = [call EXCEPT ![c].notice = n, ![c].rows = @ \cup {n},
                               ![c].at = IF ready[SourceOf[n]] THEN "claim" ELSE "scan"]
    BY <1>1 DEF Take
  <2> DEFINE at == IF ready[SourceOf[n]] THEN "claim" ELSE "scan"
             r  == [call[c] EXCEPT !.notice = n, !.rows = @ \cup {n}, !.at = at]
  <2>2. /\ call[c] \in CallRecord /\ call \in [Calls -> CallRecord] /\ call[c].at = "scan"
        /\ call[c].answer = Nil /\ RequestOf[c] # Nil /\ n \in Notices /\ OnlyCalls
        /\ Unlocked(c, n)
    BY <1>1, Knows DEF Take, Placed, RunningIn, Candidates
  <2>3. call[c].draft[n] = Same /\ result[n] = "pending"
    <3>1. Written(call[c], n) /\ Seen(c, n) = "pending"
      BY <2>2, Knows DEF Candidates
    <3> QED
      BY <3>1 DEF Written, Seen, Same
  <2>4. /\ r \in CallRecord /\ r.notice = n /\ r.rows = call[c].rows \cup {n} /\ r.at = at
        /\ r.advisory = call[c].advisory /\ r.answer = Nil /\ r.draft = call[c].draft
    BY <2>2 DEF CallRecord
  <2>5. at \in {"claim", "scan"}
    OBVIOUS
  <2> HIDE DEF r, at
  <2>6. ASSUME NEW m \in Notices PROVE Written(r, m)
    <3>1. Written(call[c], m)
      BY Knows
    <3> QED
      BY <2>2, <2>4, <3>1 DEF Written
  <2>7. Placed(c, r)
    BY <2>2, <2>3, <2>4, <2>5 DEF Placed, RunningIn
  <2>8. Answers(c, r)
    BY <2>2, <2>4, <2>5, Knows DEF Answers, RunningIn
  <2>9. ASSUME NEW d \in Calls \ {c} PROVE Apart(c, r, d)
    <3>1. Apart(c, call[c], d)
      BY Knows
    <3> QED
      BY <2>2, <2>4, <2>5, <3>1 DEF Apart, Unlocked, RunningIn
  <2>10. call' = [call EXCEPT ![c] = r]
    BY <2>1, <2>2 DEF r, at, CallRecord
  <2> QED
    BY <2>2, <2>4, <2>6, <2>7, <2>8, <2>9, <2>10, OneCallMoves DEF CallIsSound
<1>2. CASE FindNothing(c)
  <2> DEFINE r == [call[c] EXCEPT !.at = "write", !.answer = "nothing"]
  <2>2. /\ call[c] \in CallRecord /\ call \in [Calls -> CallRecord] /\ call[c].at = "scan"
        /\ RequestOf[c] # Nil /\ OnlyCalls
    BY <1>2, Knows DEF FindNothing, Placed
  <2>3. ASSUME NEW n \in Notices PROVE Written(call[c], n) /\ call[c].draft[n] # "dispatching"
    BY <2>2, Knows DEF Written
  <2>4. /\ r \in CallRecord /\ r.rows = call[c].rows /\ r.at = "write"
        /\ r.advisory = call[c].advisory /\ r.answer = "nothing" /\ r.draft = call[c].draft
    BY <2>2 DEF CallRecord
  <2>5. call' = [call EXCEPT ![c] = r]
    BY <1>2, <2>2 DEF FindNothing, CallRecord
  <2> HIDE DEF r
  <2>6. \A n \in Notices : Written(r, n)
    BY <2>3, <2>4 DEF Written
  <2>7. Placed(c, r) /\ Answers(c, r)
    BY <2>2, <2>3, <2>4, Knows DEF Placed, Answers, RunningIn
  <2>9. ASSUME NEW d \in Calls \ {c} PROVE Apart(c, r, d)
    <3>1. Apart(c, call[c], d)
      BY Knows
    <3> QED
      BY <2>2, <2>4, <3>1 DEF Apart, RunningIn
  <2> QED
    BY <2>2, <2>4, <2>5, <2>6, <2>7, <2>9, OneCallMoves DEF CallIsSound
<1> QED
  BY <1>1, <1>2

LEMMA ClaimNamedHolds == ASSUME RInv, NEW c \in Calls, NEW n \in Notices, ClaimNamed(c, n) PROVE RStep
<1>1. /\ call[c] \in CallRecord /\ call \in [Calls -> CallRecord] /\ call[c].at = "idle"
      /\ call[c].advisory = {} /\ call[c].rows = {} /\ call[c].answer = Nil
      /\ RequestOf[c] = Nil /\ OnlyCalls /\ Unlocked(c, n)
  BY Knows DEF ClaimNamed, Placed, RunningIn
<1>2. CASE call' = EndCall(c, n)
  BY <1>1, <1>2, EndHolds
<1>3. CASE /\ result[n] = "pending"
           /\ call' = [call EXCEPT ![c].at = "claim", ![c].notice = n, ![c].rows = {n}]
  <2> DEFINE r == [call[c] EXCEPT !.at = "claim", !.notice = n, !.rows = {n}]
  <2>1. /\ r \in CallRecord /\ r.rows = {n} /\ r.at = "claim" /\ r.notice = n
        /\ r.advisory = {} /\ r.answer = Nil /\ r.draft = call[c].draft
    BY <1>1 DEF CallRecord
  <2>2. call' = [call EXCEPT ![c] = r]
    BY <1>1, <1>3 DEF CallRecord
  <2> HIDE DEF r
  <2>3. ASSUME NEW m \in Notices PROVE call[c].draft[m] = Same
    BY <1>1, Knows DEF Written
  <2>4. \A m \in Notices : Written(r, m)
    BY <2>1, <2>3 DEF Written, Same
  <2>5. Placed(c, r) /\ Answers(c, r)
    BY <1>1, <1>3, <2>1, <2>3 DEF Placed, Answers, RunningIn
  <2>6. \A d \in Calls \ {c} : Apart(c, r, d)
    BY <1>1, <2>1 DEF Apart, Unlocked
  <2> QED
    BY <1>1, <2>1, <2>2, <2>4, <2>5, <2>6, OneCallMoves DEF CallIsSound
<1> QED
  BY <1>2, <1>3 DEF ClaimNamed

\* With the lock of the source thread nobody else can write a claim for it.
LEMMA EnterHolds == ASSUME RInv, NEW c \in Calls, Enter(c) PROVE RStep
<1> DEFINE n == call[c].notice
           s == SourceOf[n]
<1>1. /\ call[c] \in CallRecord /\ call \in [Calls -> CallRecord] /\ call[c].at = "claim"
      /\ n \in call[c].rows /\ result[n] = "pending" /\ call[c].draft[n] = Same
      /\ call[c].answer = Nil /\ OnlyCalls /\ CanEnter(c, s)
  BY Knows DEF Enter, Placed
<1>2. n \in Notices /\ s \in SourceThreads
  BY <1>1, ResultsAssumption DEF CallRecord, SourceThreads
<1>3. ASSUME NEW m \in Notices PROVE Written(call[c], m) /\ call[c].draft[m] # "dispatching"
  BY <1>1, Knows DEF Written
<1>4. CASE /\ ~ Blocked(c, n)
           /\ call' = [call EXCEPT ![c].at = "write", ![c].advisory = @ \cup {s},
                                   ![c].draft[n] = "dispatching", ![c].answer = n]
  <2> DEFINE r == [call[c] EXCEPT !.at = "write", !.advisory = @ \cup {s},
                                  !.draft = [@ EXCEPT ![n] = "dispatching"], !.answer = n]
  <2>1. /\ r \in CallRecord /\ r.rows = call[c].rows /\ r.at = "write" /\ r.answer = n
        /\ r.advisory = call[c].advisory \cup {s}
        /\ r.draft = [call[c].draft EXCEPT ![n] = "dispatching"]
    BY <1>1, <1>2 DEF CallRecord, ResultStatus
  <2>2. call' = [call EXCEPT ![c] = r]
    BY <1>1, <1>4 DEF CallRecord
  <2> HIDE DEF r
  <2>3. \A m \in Notices : r.draft[m] = IF m = n THEN "dispatching" ELSE call[c].draft[m]
    BY <1>1, <2>1 DEF CallRecord
  <2>4. Written(r, n)
    <3>1. ASSUME NEW m \in Notices, m # n, SourceOf[m] = SourceOf[n]
          PROVE  SeenIn(r, m) # "dispatching"
      BY <1>4, <2>3, <3>1 DEF Blocked, Seen, SeenIn
    <3> QED
      BY <1>1, <1>2, <2>1, <2>3, <3>1 DEF Written, Same
  <2>5. ASSUME NEW m \in Notices, m # n PROVE Written(r, m)
    BY <1>3, <2>1, <2>3, <2>5 DEF Written
  <2>6. Placed(c, r)
    BY <1>2, <2>1, <2>3, ResultsAssumption DEF Placed, RunningIn
  <2>7. Answers(c, r)
    BY <1>1, <2>1, Knows DEF Answers, RunningIn
  <2>8. ASSUME NEW d \in Calls \ {c} PROVE Apart(c, r, d)
    <3>1. Apart(c, call[c], d)
      BY Knows
    <3> QED
      BY <1>1, <2>1, <3>1 DEF Apart, CanEnter, RunningIn
  <2> QED
    BY <1>1, <2>1, <2>2, <2>4, <2>5, <2>6, <2>7, <2>8, OneCallMoves DEF CallIsSound
<1>5. CASE /\ RequestOf[c] # Nil
           /\ call' = [call EXCEPT ![c].at = "scan", ![c].advisory = @ \cup {s}]
  <2> DEFINE r == [call[c] EXCEPT !.at = "scan", !.advisory = @ \cup {s}]
  <2>1. /\ r \in CallRecord /\ r.rows = call[c].rows /\ r.at = "scan" /\ r.answer = Nil
        /\ r.advisory = call[c].advisory \cup {s} /\ r.draft = call[c].draft
    BY <1>1, <1>2 DEF CallRecord
  <2>2. call' = [call EXCEPT ![c] = r]
    BY <1>1, <1>5 DEF CallRecord
  <2> HIDE DEF r
  <2>3. \A m \in Notices : Written(r, m)
    BY <1>3, <2>1 DEF Written
  <2>4. Placed(c, r) /\ Answers(c, r)
    BY <1>1, <1>5, <2>1, Knows DEF Placed, Answers, RunningIn
  <2>5. ASSUME NEW d \in Calls \ {c} PROVE Apart(c, r, d)
    <3>1. Apart(c, call[c], d)
      BY Knows
    <3> QED
      BY <1>1, <2>1, <3>1 DEF Apart, CanEnter, RunningIn
  <2> QED
    BY <1>1, <2>1, <2>2, <2>3, <2>4, <2>5, OneCallMoves DEF CallIsSound
<1>6. CASE RequestOf[c] = Nil /\ call' = EndCall(c, Nil)
  BY <1>1, <1>6, ResultsAssumption, EndHolds
<1> QED
  BY <1>4, <1>5, <1>6 DEF Enter

-----------------------------------------------------------------------------
(* Steps that change what is committed.                                    *)

\* A call stays sound when nobody touches the rows, the source threads and the request
\* it has locked, and what has been answered stays.
LEMMA OtherCallStays ==
  ASSUME RInv, NEW d \in Calls, call'[d] = call[d],
         \A n \in call[d].rows : result'[n] = result[n] /\ (NoneLive(n) => NoneLive(n)'),
         \A n \in Notices : finals[n] > 0 => finals'[n] > 0,
         \A n \in Notices : /\ SourceOf[n] \in call[d].advisory
                            /\ result'[n] = "dispatching"
                            => result[n] = "dispatching",
         nothing \subseteq nothing',
         \A n \in Notices : claimKey[n] # Nil => claimKey'[n] = claimKey[n],
         RunningIn(call[d]) /\ RequestOf[d] # Nil
           => RequestOf[d] \notin nothing' /\ \A n \in Notices : claimKey'[n] # RequestOf[d]
  PROVE  CallIsSound(d, call[d])'
<1>1. /\ call[d] \in CallRecord /\ Placed(d, call[d]) /\ Answers(d, call[d])
      /\ \A n \in Notices : Written(call[d], n)
  BY Knows
<1>2. call[d].rows \subseteq Notices
  BY <1>1 DEF CallRecord
<1>3. ASSUME NEW n \in Notices PROVE Written(call[d], n)'
  <2>1. Written(call[d], n)
    BY <1>1
  <2>2. CASE call[d].draft[n] = Same
    BY <2>1, <2>2 DEF Written, Same
  <2>3. CASE call[d].draft[n] # Same
    <3>1. n \in call[d].rows /\ result'[n] = result[n] /\ (NoneLive(n) => NoneLive(n)')
      BY <2>1, <2>3 DEF Written
    <3>2. ASSUME call[d].draft[n] = "dispatching", NEW m \in Notices, m # n, SourceOf[m] = SourceOf[n]
          PROVE  SeenIn(call[d], m)' # "dispatching"
      BY <2>1, <3>2 DEF Written, SeenIn
    <3> QED
      BY <2>1, <3>1, <3>2 DEF Written
  <2> QED
    BY <2>2, <2>3
<1>4. Placed(d, call[d])'
  BY <1>1, <1>2 DEF Placed, RunningIn
<1>5. Answers(d, call[d])'
  BY <1>1 DEF Answers, RunningIn
<1> QED
  BY <1>1, <1>3, <1>4, <1>5 DEF CallIsSound, CallRecord

LEMMA CommitHolds == ASSUME RInv, NEW c \in Calls, Commit(c) PROVE RStep
<1> DEFINE claimed == {n \in Notices : call[c].draft[n] = "dispatching"}
<1>0. /\ call[c] \in CallRecord /\ call \in [Calls -> CallRecord] /\ call[c].at = "write"
      /\ Placed(c, call[c]) /\ Answers(c, call[c]) /\ TableIsSound
  BY Knows DEF Commit, RInv
<1>1. ASSUME NEW n \in Notices PROVE Written(call[c], n)
  BY Knows
<1>2. ASSUME NEW n \in Notices
      PROVE  /\ result'[n] = IF call[c].draft[n] = Same THEN result[n] ELSE call[c].draft[n]
             /\ n \in claimed <=> call[c].draft[n] = "dispatching"
             /\ claimKey'[n] = IF n \in claimed THEN RequestOf[c] ELSE claimKey[n]
             /\ technical'[n] = IF n \in claimed THEN technical[n] + 1 ELSE technical[n]
             /\ bearer'[n] = IF n \in claimed THEN [x \in Grants |-> "live"] ELSE bearer[n]
  BY DEF Commit, Seen
<1>3. ASSUME NEW n \in claimed
      PROVE  /\ n \in Notices /\ n = call[c].answer /\ result[n] = "pending" /\ n \in call[c].rows
             /\ SourceOf[n] \in call[c].advisory /\ claimKey[n] = Nil /\ technical[n] = 0
             /\ \A m \in Notices : m # n /\ SourceOf[m] = SourceOf[n] => result'[m] # "dispatching"
  <2>1. n \in Notices /\ call[c].draft[n] = "dispatching" /\ Written(call[c], n)
    BY <1>1
  <2>2. ~ Claimed(n)
    BY <2>1 DEF Written, Claimed
  <2>3. claimKey[n] = Nil /\ technical[n] = 0
    BY <1>0, <2>1, <2>2 DEF TableIsSound, OneInputPerClaim
  <2> QED
    BY <1>2, <2>1, <2>3 DEF Written, SeenIn, Same
<1>4. call' = EndCall(c, call[c].answer) /\ finals' = finals /\ UNCHANGED <<queue, ready>>
  BY DEF Commit
<1>5. ASSUME NEW n \in Notices
      PROVE  /\ result'[n] # result[n] => <<result[n], result'[n]>> \in Moves
             /\ result[n] = "dispatching" /\ result'[n] # "dispatching" => NoneLive(n)
             /\ Claimed(n)' <=> Claimed(n) \/ n \in claimed
             /\ result'[n] = "delivered" => finals[n] > 0
             /\ result'[n] \in ResultStatus
  <2>1. result[n] \in ResultStatus /\ (result[n] = "delivered" => finals[n] > 0)
    BY <1>0 DEF TableIsSound, ResultsTypeOK, DeliveredIsStored
  <2>2. CASE call[c].draft[n] = Same
    BY <1>2, <2>1, <2>2 DEF Claimed, Same
  <2>3. CASE call[c].draft[n] # Same
    BY <1>1, <1>2, <2>1, <2>3 DEF Written, Claimed, Moves, ResultStatus, Same
  <2> QED
    BY <2>2, <2>3
<1>6. TableIsSound'
  <2>1. ResultsTypeOK'
    <3>1. result' \in [Notices -> ResultStatus]
      BY <1>5 DEF Commit
    <3>2. claimKey' \in [Notices -> NextRequests \cup {Nil}]
      BY <1>0 DEF Commit, TableIsSound, ResultsTypeOK, NextRequests
    <3>3. technical' \in [Notices -> Nat]
      BY <1>0 DEF Commit, TableIsSound, ResultsTypeOK
    <3>4. bearer' \in [Notices -> [Grants -> {"none", "live", "lapsed", "renewed", "over"}]]
      <4>1. bearer \in [Notices -> [Grants -> {"none", "live", "lapsed", "renewed", "over"}]]
        BY <1>0 DEF TableIsSound, ResultsTypeOK
      <4>2. bearer' = [n \in Notices |-> IF n \in claimed THEN [x \in Grants |-> "live"] ELSE bearer[n]]
        BY DEF Commit
      <4>3. [x \in Grants |-> "live"] \in [Grants -> {"none", "live", "lapsed", "renewed", "over"}]
        OBVIOUS
      <4> QED
        BY <4>1, <4>2, <4>3
    <3>5. nothing' \subseteq NextRequests
      <4>1. call[c].answer = "nothing" => RequestOf[c] \in NextRequests
        BY <1>0, ResultsAssumption DEF Placed, NextRequests
      <4>2. nothing \subseteq NextRequests
        BY <1>0 DEF TableIsSound, ResultsTypeOK
      <4> QED
        BY <4>1, <4>2 DEF Commit
    <3>6. call' \in [Calls -> CallRecord]
      <4>1. [Resting EXCEPT !.at = "over", !.answer = call[c].answer] \in CallRecord
        BY <1>0 DEF Resting, CallRecord
      <4> QED
        BY <1>0, <1>4, <4>1 DEF EndCall
    <3> QED
      BY <1>0, <1>4, <3>1, <3>2, <3>3, <3>4, <3>5, <3>6 DEF TableIsSound, ResultsTypeOK, CallRecord
  <2>2. ASSUME NEW n \in Notices, NEW m \in Notices, result'[n] = "dispatching",
               result'[m] = "dispatching", SourceOf[n] = SourceOf[m]
        PROVE  n = m
    <3>1. CASE n \in claimed
      BY <1>3, <2>2, <3>1
    <3>2. CASE m \in claimed
      BY <1>3, <2>2, <3>2
    <3>3. CASE n \notin claimed /\ m \notin claimed
      BY <1>0, <1>2, <2>2, <3>3 DEF TableIsSound
    <3> QED
      BY <3>1, <3>2, <3>3
  <2>3. OneInputPerClaim'
    <3>1. ASSUME NEW n \in Notices PROVE technical'[n] = IF Claimed(n)' THEN 1 ELSE 0
      <4>1. technical[n] = IF Claimed(n) THEN 1 ELSE 0
        BY <1>0 DEF TableIsSound, OneInputPerClaim
      <4>2. CASE n \in claimed
        <5>1. technical'[n] = technical[n] + 1 /\ technical[n] = 0
          BY <1>2, <1>3, <4>2
        <5>2. Claimed(n)'
          BY <1>5, <4>2
        <5> QED
          BY <5>1, <5>2
      <4>3. CASE n \notin claimed
        BY <1>2, <1>5, <4>1, <4>3
      <4> QED
        BY <4>2, <4>3
    <3> QED
      BY <3>1 DEF OneInputPerClaim
  <2>4. \A n \in Notices : claimKey'[n] # Nil => Claimed(n)'
    BY <1>0, <1>2, <1>5 DEF TableIsSound
  <2>5. ASSUME NEW n \in Notices, NEW m \in Notices, claimKey'[n] = claimKey'[m], claimKey'[n] # Nil
        PROVE  n = m
    <3>1. \A k \in Notices : RequestOf[c] # Nil => claimKey[k] # RequestOf[c]
      BY <1>0 DEF Answers, RunningIn
    <3> QED
      BY <1>0, <1>2, <1>3, <2>5, <3>1 DEF TableIsSound
  <2>6. ASSUME NEW n \in Notices PROVE claimKey'[n] \notin nothing'
    <3>1. Nil \notin nothing
      BY <1>0 DEF TableIsSound, ResultsTypeOK, NextRequests
    <3>2. CASE call[c].answer = "nothing"
      <4>1. claimed = {} /\ nothing' = nothing \cup {RequestOf[c]} /\ RequestOf[c] # Nil
        BY <1>0, <3>2, <1>3, ResultsAssumption DEF Commit, Placed
      <4> QED
        BY <1>0, <1>2, <4>1 DEF Answers, RunningIn, TableIsSound
    <3>3. CASE call[c].answer # "nothing"
      <4>1. nothing' = nothing
        BY <3>3 DEF Commit
      <4> QED
        BY <1>0, <1>2, <3>1, <4>1 DEF Answers, RunningIn, TableIsSound
    <3> QED
      BY <3>2, <3>3
  <2>7. DeliveredIsStored'
    BY <1>4, <1>5 DEF DeliveredIsStored
  <2> QED
    BY <2>1, <2>2, <2>3, <2>4, <2>5, <2>6, <2>7 DEF TableIsSound
<1>7. ASSUME NEW d \in Calls, d # c PROVE CallIsSound(d, call[d])'
  <2>1. call'[d] = call[d] /\ Apart(c, call[c], d) /\ Placed(d, call[d]) /\ call[d] \in CallRecord
    BY <1>0, <1>4, <1>7, Knows DEF EndCall
  <2>2. ASSUME NEW n \in call[d].rows
        PROVE  result'[n] = result[n] /\ (NoneLive(n) => NoneLive(n)')
    <3>1. n \in Notices /\ n \notin call[c].rows
      BY <2>1 DEF Apart, CallRecord
    <3>2. call[c].draft[n] = Same
      BY <1>1, <3>1 DEF Written
    <3> QED
      BY <1>2, <3>1, <3>2 DEF NoneLive, Same
  <2>3. ASSUME NEW n \in Notices, SourceOf[n] \in call[d].advisory, result'[n] = "dispatching"
        PROVE  result[n] = "dispatching"
    <3>1. n \notin claimed
      BY <1>3, <2>1, <2>3 DEF Apart
    <3> QED
      BY <1>2, <2>3, <3>1
  <2>4. \A n \in Notices : claimKey[n] # Nil => claimKey'[n] = claimKey[n]
    BY <1>2, <1>3
  <2>5. RunningIn(call[d]) /\ RequestOf[d] # Nil
          => RequestOf[d] \notin nothing' /\ \A n \in Notices : claimKey'[n] # RequestOf[d]
    <3>1. ASSUME RunningIn(call[d]), RequestOf[d] # Nil PROVE RequestOf[c] # RequestOf[d]
      BY <1>0, <2>1, <3>1 DEF Apart, RunningIn
    <3> QED
      BY <1>2, <3>1, Knows DEF Answers, Commit
  <2>6. nothing \subseteq nothing'
    BY DEF Commit
  <2> QED
    BY <1>4, <2>1, <2>2, <2>3, <2>4, <2>5, <2>6, OtherCallStays
<1>8. CallIsSound(c, call[c])'
  <2> DEFINE r == [Resting EXCEPT !.at = "over", !.answer = call[c].answer]
  <2>1. /\ r.at = "over" /\ r.answer = call[c].answer /\ r.rows = {} /\ r.advisory = {}
        /\ r.draft = [n \in Notices |-> Same] /\ r \in CallRecord
    BY <1>0 DEF Resting, CallRecord
  <2>2. call'[c] = r
    BY <1>0, <1>4 DEF EndCall
  <2> HIDE DEF r
  <2>3. \A n \in Notices : Written(call[c], n)'
    BY <2>1, <2>2 DEF Written, Same
  <2>4. Placed(c, call[c])'
    BY <2>1, <2>2 DEF Placed, RunningIn
  <2>5. Answers(c, call[c])'
    <3>1. call[c].answer = "nothing" => RequestOf[c] \in nothing'
      BY DEF Commit
    <3>2. call[c].answer \in Notices => claimKey'[call[c].answer] = RequestOf[c]
      BY <1>0, <1>2, ResultsAssumption DEF Placed
    <3> QED
      BY <2>1, <2>2, <3>1, <3>2 DEF Answers, RunningIn
  <2> QED
    BY <2>1, <2>2, <2>3, <2>4, <2>5 DEF CallIsSound, CallRecord
<1>9. ASSUME NEW d \in Calls, NEW e \in Calls, d # e PROVE Apart(d, call[d], e)'
  <2>1. /\ call'[c].rows = {} /\ call'[c].advisory = {} /\ call'[c].at = "over"
        /\ \A f \in Calls \ {c} : call'[f] = call[f]
    BY <1>0, <1>4 DEF EndCall, Resting
  <2> QED
    BY <1>9, <2>1, Knows DEF Apart, RunningIn
<1> QED
  BY <1>5, <1>6, <1>7, <1>8, <1>9 DEF RStep, RInv, ResultsMoveForward, OwnersAreLeftAlone, NoneLive

\* The other operations leave the calls and their requests alone, and the rows they have
\* locked (which are never those of tasks without a result).
LEMMA CallsStay ==
  ASSUME RInv, UNCHANGED <<call, claimKey, technical, nothing>>,
         \A c \in Calls : \A n \in call[c].rows : result'[n] = result[n] \/ result[n] = "none",
         \A n \in Notices : NoneLive(n) /\ result[n] = "dispatching" => NoneLive(n)',
         \A n \in Notices : finals[n] > 0 => finals'[n] > 0,
         \A n \in Notices : result'[n] # result[n] => <<result[n], result'[n]>> \in Moves,
         \A n \in Notices : result'[n] = "dispatching" => result[n] = "dispatching",
         ResultsTypeOK', DeliveredIsStored'
  PROVE  RStep
<1>1. ASSUME NEW n \in Notices PROVE Claimed(n)' <=> Claimed(n)
  <2>1. result[n] \in ResultStatus /\ result'[n] \in ResultStatus
    BY DEF RInv, TableIsSound, ResultsTypeOK
  <2>2. CASE result'[n] = result[n]
    BY <2>2 DEF Claimed
  <2>3. CASE result'[n] # result[n]
    BY <2>1, <2>3 DEF Moves, Claimed
  <2> QED
    BY <2>2, <2>3
<1>2. TableIsSound'
  BY <1>1 DEF RInv, TableIsSound, OneInputPerClaim
<1>3. ASSUME NEW c \in Calls PROVE CallIsSound(c, call[c])'
  <2>1. /\ call[c] \in CallRecord /\ Placed(c, call[c]) /\ Answers(c, call[c])
        /\ \A n \in Notices : Written(call[c], n)
    BY Knows
  <2>2. call[c].rows \subseteq Notices
    BY <2>1 DEF CallRecord
  <2>3. ASSUME NEW n \in Notices PROVE Written(call[c], n)'
    <3>1. Written(call[c], n)
      BY <2>1
    <3>2. CASE call[c].draft[n] = Same
      BY <3>1, <3>2 DEF Written, Same
    <3>3. CASE call[c].draft[n] # Same
      <4>1. n \in call[c].rows /\ result'[n] = result[n]
        BY <3>1, <3>3 DEF Written
      <4>2. ASSUME call[c].draft[n] = "dispatching", NEW m \in Notices, m # n, SourceOf[m] = SourceOf[n]
            PROVE  SeenIn(call[c], m)' # "dispatching"
        BY <3>1, <4>2 DEF Written, SeenIn
      <4> QED
        BY <3>1, <4>1, <4>2 DEF Written
    <3> QED
      BY <3>2, <3>3
  <2>4. Placed(c, call[c])' /\ Answers(c, call[c])'
    BY <2>1, <2>2 DEF Placed, Answers, RunningIn
  <2> QED
    BY <2>1, <2>3, <2>4 DEF CallIsSound, CallRecord
<1>4. \A c, d \in Calls : c # d => Apart(c, call[c], d)'
  BY DEF RInv, Apart, RunningIn
<1> QED
  BY <1>2, <1>3, <1>4 DEF RStep, RInv, ResultsMoveForward, OwnersAreLeftAlone

\* What the other operations leave alone, and what is known of the results before them.
LEMMA RowsBefore ==
  ASSUME RInv
  PROVE  /\ result \in [Notices -> ResultStatus] /\ finals \in [Notices -> 0 .. MaxFinals]
         /\ bearer \in [Notices -> [Grants -> {"none", "live", "lapsed", "renewed", "over"}]]
         /\ queue \in [Inputs -> {"none", "ended"} \cup Open]
         /\ ready \in [SourceThreads -> BOOLEAN]
         /\ ResultsTypeOK /\ DeliveredIsStored /\ MaxFinals \in Nat
  BY ResultsAssumption DEF RInv, TableIsSound, ResultsTypeOK

LEMMA FinalHolds == ASSUME RInv, NEW n \in Notices, TargetFinal(n) PROVE RStep
<1>1. /\ result' = [result EXCEPT ![n] = "pending"] /\ result[n] = "none"
      /\ UNCHANGED <<claimKey, technical, finals, bearer, queue, ready, nothing, call>>
  BY DEF TargetFinal
<1>2. ResultsTypeOK'
  BY <1>1, RowsBefore DEF ResultsTypeOK, ResultStatus
<1>3. DeliveredIsStored'
  BY <1>1, RowsBefore DEF DeliveredIsStored
<1>4. \A m \in Notices : NoneLive(m) => NoneLive(m)'
  BY <1>1 DEF NoneLive
<1>5. \A c \in Calls : call[c].rows \subseteq Notices
  BY Knows DEF CallRecord
<1> QED
  BY <1>1, <1>2, <1>3, <1>4, <1>5, RowsBefore, CallsStay DEF Moves

LEMMA SettleHolds ==
  ASSUME RInv, NEW n \in Notices, NEW outcome \in {"delivered", "failed", "state_unknown"},
         Settle(n, outcome)
  PROVE  RStep
<1>1. /\ result' = [result EXCEPT ![n] = outcome] /\ result[n] = "dispatching" /\ Free(n)
      /\ outcome = "delivered" => finals[n] > 0
      /\ UNCHANGED <<claimKey, technical, finals, bearer, queue, ready, nothing, call>>
  BY DEF Settle, Exact
<1>2. ResultsTypeOK'
  BY <1>1, RowsBefore DEF ResultsTypeOK, ResultStatus
<1>3. DeliveredIsStored'
  BY <1>1, RowsBefore DEF DeliveredIsStored
<1>4. \A m \in Notices : NoneLive(m) => NoneLive(m)'
  BY <1>1 DEF NoneLive
<1>5. \A c \in Calls : \A m \in call[c].rows : m \in Notices /\ m # n
  BY <1>1, Knows DEF CallRecord, Free
<1> QED
  BY <1>1, <1>2, <1>3, <1>4, <1>5, RowsBefore, CallsStay DEF Moves

LEMMA ListHolds == ASSUME RInv, NEW s \in SourceThreads, List(s) PROVE RStep
<1> DEFINE late == {n \in Notices : SourceOf[n] = s /\ result[n] = "state_unknown" /\ Exact(n)}
<1>1. /\ result' = [n \in Notices |-> IF n \in late THEN "delivered" ELSE result[n]]
      /\ \A n \in late : Free(n) /\ result[n] = "state_unknown" /\ finals[n] > 0
      /\ UNCHANGED <<claimKey, technical, finals, bearer, queue, ready, nothing, call>>
  BY DEF List, Exact
<1> HIDE DEF late
<1>2. ResultsTypeOK'
  BY <1>1, RowsBefore DEF ResultsTypeOK, ResultStatus
<1>3. DeliveredIsStored'
  BY <1>1, RowsBefore DEF DeliveredIsStored
<1>4. \A m \in Notices : NoneLive(m) => NoneLive(m)'
  BY <1>1 DEF NoneLive
<1>5. \A c \in Calls : \A m \in call[c].rows : m \in Notices /\ m \notin late
  BY <1>1, Knows DEF CallRecord, Free
<1> QED
  BY <1>1, <1>2, <1>3, <1>4, <1>5, RowsBefore, CallsStay DEF Moves

\* An answer that is stored, a grant that runs out, an input or a thread that moves.
LEMMA StoreFinalHolds == ASSUME RInv, NEW n \in Notices, StoreFinal(n) PROVE RStep
<1>1. /\ finals' = [finals EXCEPT ![n] = @ + 1] /\ finals[n] < MaxFinals
      /\ UNCHANGED <<result, claimKey, technical, bearer, queue, ready, nothing, call>>
  BY DEF StoreFinal
<1>2. \A m \in Notices : finals[m] > 0 => finals'[m] > 0
  BY <1>1, RowsBefore
<1>3. ResultsTypeOK'
  BY <1>1, RowsBefore DEF ResultsTypeOK
<1>4. DeliveredIsStored'
  BY <1>1, <1>2, RowsBefore DEF DeliveredIsStored
<1>5. \A m \in Notices : NoneLive(m) => NoneLive(m)'
  BY <1>1 DEF NoneLive
<1> QED
  BY <1>1, <1>2, <1>3, <1>4, <1>5, CallsStay

LEMMA GrantHolds == ASSUME RInv, NEW n \in Notices, NEW x \in Grants, GrantMoves(n, x) PROVE RStep
<1>1. PICK to \in {"lapsed", "renewed", "over"} : bearer' = [bearer EXCEPT ![n][x] = to]
  BY DEF GrantMoves
<1>2. UNCHANGED <<result, claimKey, technical, finals, queue, ready, nothing, call>>
  BY DEF GrantMoves
<1>3. ResultsTypeOK'
  <2>1. bearer' \in [Notices -> [Grants -> {"none", "live", "lapsed", "renewed", "over"}]]
    BY <1>1, RowsBefore
  <2> QED
    BY <1>2, <2>1, RowsBefore DEF ResultsTypeOK
<1>4. DeliveredIsStored'
  BY <1>2, RowsBefore DEF DeliveredIsStored
<1>5. \A m \in Notices : NoneLive(m) => NoneLive(m)'
  BY <1>1, RowsBefore DEF NoneLive
<1> QED
  BY <1>2, <1>3, <1>4, <1>5, CallsStay

LEMMA OthersHold ==
  ASSUME RInv, UNCHANGED <<result, claimKey, technical, finals, bearer, nothing, call>>,
         queue' \in [Inputs -> {"none", "ended"} \cup Open], ready' \in [SourceThreads -> BOOLEAN]
  PROVE  RStep
<1>1. ResultsTypeOK' /\ DeliveredIsStored'
  BY RowsBefore DEF ResultsTypeOK, DeliveredIsStored
<1>2. \A m \in Notices : NoneLive(m) => NoneLive(m)'
  BY DEF NoneLive
<1> QED
  BY <1>1, <1>2, CallsStay

LEMMA StepSound == RInv /\ [ResultsNext]_resultVars => RStep
<1> SUFFICES ASSUME RInv, [ResultsNext]_resultVars PROVE RStep
  OBVIOUS
<1>1. CASE UNCHANGED resultVars
  BY <1>1, RowsBefore, OthersHold DEF resultVars
<1>2. ASSUME NEW c \in Calls, ClaimStep(c) PROVE RStep
  BY <1>2, AnswersHold, StartScanHolds, ScanHolds, ClaimNamedHolds, EnterHolds, CommitHolds
  DEF ClaimStep
<1>3. ASSUME NEW i \in Inputs,
             Enqueue(i) \/ SelectInput(i) \/ ClaimInput(i) \/ EndInput(i) \/ LoseInput(i)
      PROVE  RStep
  <2>1. PICK to \in {"ended"} \cup Open : QueueMoves(i, to)
    BY <1>3 DEF Enqueue, SelectInput, ClaimInput, EndInput, LoseInput, Open
  <2>2. queue' \in [Inputs -> {"none", "ended"} \cup Open]
    BY <2>1, RowsBefore DEF QueueMoves
  <2> QED
    BY <2>1, <2>2, RowsBefore, OthersHold DEF QueueMoves
<1>4. ASSUME NEW s \in SourceThreads, Reach(s) PROVE RStep
  <2>1. ready' \in [SourceThreads -> BOOLEAN]
    BY <1>4, RowsBefore DEF Reach
  <2> QED
    BY <1>4, <2>1, RowsBefore, OthersHold DEF Reach
<1> QED
  BY <1>1, <1>2, <1>3, <1>4, FinalHolds, SettleHolds, ListHolds, StoreFinalHolds, GrantHolds
  DEF ResultsNext

-----------------------------------------------------------------------------
\* At every moment the results, the claims, the technical inputs and the answers to the
\* calls agree: one result is worked on in a source thread, each was put before the model
\* once, a request has one answer, and what counts as delivered is stored.
THEOREM ResultsAlwaysSound == ResultsSpec => []ResultsAreSound
<1>1. RInv /\ [ResultsNext]_resultVars => RInv'
  BY StepSound DEF RStep
<1> QED
  BY InitSound, <1>1, InvSuffices, PTL DEF ResultsSpec

\* No step hands a result out again or undoes what another call has settled, and no scan
\* takes a claim away while one of its grants has not lapsed.
THEOREM HandoffsAlwaysSafe == ResultsSpec => HandoffsAreSafe
<1>1. RInv /\ [ResultsNext]_resultVars => RInv'
  BY StepSound DEF RStep
<1>2. RInv /\ [ResultsNext]_resultVars => [ResultsMoveForward /\ OwnersAreLeftAlone]_resultVars
  BY StepSound DEF RStep
<1> QED
  BY InitSound, <1>1, <1>2, PTL DEF ResultsSpec, HandoffsAreSafe
=============================================================================
