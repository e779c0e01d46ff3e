---------------------------- MODULE DreamLaunch ----------------------------
(***************************************************************************)
(* How a run comes to be.  A launch ensures its hidden source message      *)
(* (dreamLaunchSourceService.ts), executes a preflight - a chain of        *)
(* transactions of one request, which ends with a token and a receipt, or  *)
(* with a failure and a receipt (workflowPreflightExecutionService.ts) -,  *)
(* buys one run with the token (workflowRunCreationService.ts) and is      *)
(* dispatched under a claim that is fresh for a while                      *)
(* (dreamLaunchDispatchService.ts).  A run that ended can be retried under *)
(* a new key, and the failure of a run is told to the source message       *)
(* (dreamLaunchFailureService.ts).                                         *)
(*                                                                         *)
(* A key is the idempotency key of a launch or of a retry.  The actor, the *)
(* workspace, the deck and its binding are one and the same; a preflight   *)
(* has a goal, which is what its fingerprint differs in.  The receipts of  *)
(* create, retry, claim and finish replay what they stored and change      *)
(* nothing, so only the receipts of preflights, which other transactions   *)
(* consult, are in the state.                                              *)
(***************************************************************************)
EXTENDS WorkflowRuns

CONSTANTS
  Requests,      \* requests that execute a preflight
  Preflights,    \* the rows they may insert
  Goals,
  Keys,          \* idempotency keys
  GoalOf,        \* the goal of the launch with a key
  LaunchClaims   \* ids of the claims of a dispatch, each issued once

ASSUME KeysHaveGoals == GoalOf \in [Keys -> Goals]
ASSUME NoneIsNothing == None \notin Runs \cup {"checking", "passed", "failed"}

VARIABLES
  preflight,  \* workflow_preflights
  request,    \* workflow_preflight_requests and the receipt of each request
  stage,      \* what the process of each request does next
  origin,     \* the columns of a run that never change
  envelope,   \* the metadata of the source message of each key
  turn,       \* the turn Dream starts with each claim: its run, what became of it
  latest      \* the claim that was issued last for each source

launchVars == <<preflight, request, stage, origin, envelope, turn, latest>>
preVars    == <<preflight, request, stage>>
sendVars   == <<envelope, turn, latest>>

NoPreflight == [status |-> "none", goal |-> None, run |-> None, lapsed |-> FALSE]
NoRequest   == [pf |-> None, owner |-> FALSE, receipt |-> None]
NoOrigin    == [key |-> None, source |-> None, retryOf |-> None, goal |-> None]
NoTurn      == [run |-> None, state |-> "none"]
NoEnvelope  == [state |-> "none", claim |-> None, fresh |-> FALSE]

LaunchInit ==
  /\ preflight = [p \in Preflights |-> NoPreflight]
  /\ request   = [q \in Requests |-> NoRequest]
  /\ stage     = [q \in Requests |-> "idle"]
  /\ origin    = [r \in Runs |-> NoOrigin]
  /\ envelope  = [k \in Keys |-> NoEnvelope]
  /\ turn      = [x \in LaunchClaims |-> NoTurn]
  /\ latest    = [k \in Keys |-> None]

-----------------------------------------------------------------------------
(* The preflight.                                                          *)

Stages == {"binding", "snapshot", "attach", "final"}
After(s) == CASE s = "binding" -> "snapshot" [] s = "snapshot" -> "attach" [] s = "attach" -> "final"

\* What active() does first: passed rows whose time is over are expired.
Expired(g) ==
  [p \in Preflights |->
    IF preflight[p].goal = g /\ preflight[p].status = "passed" /\ preflight[p].lapsed
    THEN [preflight[p] EXCEPT !.status = "expired"] ELSE preflight[p]]
Open(rows, g) == {p \in Preflights : rows[p].goal = g /\ rows[p].run = None
                                       /\ rows[p].status \in {"checking", "passed"}}

\* The first transaction: the open row of the same fingerprint is shared, and its
\* receipt says what it is now; else a row is inserted, which this request owns.
Receive(q, g, p) ==
  LET rows == Expired(g)
  IN  /\ stage[q] = "idle"
      /\ IF Open(rows, g) # {}
         THEN /\ p \in Open(rows, g)
              /\ preflight' = rows
              /\ request' = [request EXCEPT ![q] =
                               [pf |-> p, owner |-> FALSE, receipt |-> rows[p].status]]
              /\ stage' = [stage EXCEPT ![q] = "done"]
         ELSE /\ preflight[p].status = "none"
              /\ preflight' = [rows EXCEPT ![p].status = "checking", ![p].goal = g]
              /\ request' = [request EXCEPT ![q] = [pf |-> p, owner |-> TRUE, receipt |-> None]]
              /\ stage' = [stage EXCEPT ![q] = "binding"]
      /\ UNCHANGED <<runVars, origin, sendVars>>

\* Every later transaction starts with this.
MayGoOn(q) == request[q].owner /\ preflight[request[q].pf].status = "checking"

StagePasses(q) ==
  /\ stage[q] \in Stages \ {"final"} /\ MayGoOn(q)
  /\ stage' = [stage EXCEPT ![q] = After(@)]
  /\ UNCHANGED <<runVars, preflight, request, origin, sendVars>>

\* A check refuses, or the database does: nothing of the transaction stays.
StageFails(q) ==
  /\ stage[q] \in Stages
  /\ stage' = [stage EXCEPT ![q] = "failing"]
  /\ UNCHANGED <<runVars, preflight, request, origin, sendVars>>

\* The receipt is left to another transaction.
SettledMutant(q, status) ==
  /\ preflight' = [preflight EXCEPT ![request[q].pf].status = status]
  /\ UNCHANGED request

\* Status and receipt change together.
Settled(q, status) ==
  /\ preflight' = [preflight EXCEPT ![request[q].pf].status = status]
  /\ request'   = [request EXCEPT ![q].receipt = status]

\* The last transaction; the process may be told of a failure although it committed.
Pass(q) ==
  /\ stage[q] = "final" /\ MayGoOn(q)
  /\ Settled(q, "passed")
  /\ \E next \in {"done", "failing"} : stage' = [stage EXCEPT ![q] = next]
  /\ UNCHANGED <<runVars, origin, sendVars>>

\* The failure path consults the receipt before it writes one.
FailPreflight(q) ==
  /\ stage[q] = "failing"
  /\ IF request[q].receipt # None THEN UNCHANGED <<preflight, request>>
     ELSE MayGoOn(q) /\ Settled(q, "failed")
  /\ stage' = [stage EXCEPT ![q] = "done"]
  /\ UNCHANGED <<runVars, origin, sendVars>>

\* The process stops: its row stays in checking, for ever.
Stop(q) ==
  /\ stage[q] \in Stages \cup {"failing"}
  /\ stage' = [stage EXCEPT ![q] = "done"]
  /\ UNCHANGED <<runVars, preflight, request, origin, sendVars>>

Lapse(p) ==
  /\ preflight[p].status = "passed" /\ ~preflight[p].lapsed
  /\ preflight' = [preflight EXCEPT ![p].lapsed = TRUE]
  /\ UNCHANGED <<runVars, request, stage, origin, sendVars>>

-----------------------------------------------------------------------------
(* The run.                                                                *)

EnsureSource(k) ==
  /\ envelope[k].state = "none"
  /\ envelope' = [envelope EXCEPT ![k].state = "pending"]
  /\ UNCHANGED <<runVars, preVars, origin, turn, latest>>

RunsOf(k) == {r \in Created : origin[r].key = k}

\* Only the time and the status of the preflight are looked at.
TokenValidMutant(p) == preflight[p].status = "passed" /\ ~preflight[p].lapsed

\* Whoever was answered "passed" has the token; it buys one run in its time.
HasToken(p)   == \E q \in Requests : request[q].pf = p /\ request[q].receipt = "passed"
TokenValid(p) == /\ preflight[p].status = "passed" /\ ~preflight[p].lapsed
                 /\ preflight[p].run = None

\* The run with this key, if it was bought with the same facts, or a new one.
Buy(p, facts, r) ==
  /\ HasToken(p) /\ TokenValid(p) /\ envelope[facts.source].state # "none"
  /\ IF RunsOf(facts.key) # {}
     THEN r \in RunsOf(facts.key) /\ origin[r] = facts /\ UNCHANGED <<runVars, origin>>
     ELSE Queue(r) /\ origin' = [origin EXCEPT ![r] = facts]
  /\ preflight' = [preflight EXCEPT ![p].run = r]
  /\ UNCHANGED <<request, stage, sendVars>>

Create(r, k, source, p) ==
  Buy(p, [key |-> k, source |-> source, retryOf |-> None, goal |-> preflight[p].goal], r)

\* A run that ended is retried with its own source and goal, under another key.
Retryable(o, k) == run[o].status \in {"failed", "cancelled"} /\ origin[o].key # k
Retry(r, k, o, p) ==
  /\ Retryable(o, k) /\ preflight[p].goal = origin[o].goal
  /\ Buy(p, [key |-> k, source |-> origin[o].source, retryOf |-> o, goal |-> origin[o].goal], r)

-----------------------------------------------------------------------------
(* Its dispatch.                                                           *)

\* The run is the one its source was launched for.
Dispatchable(r) == /\ r \in Created /\ origin[r].key = origin[r].source
                   /\ origin[r].goal = GoalOf[origin[r].key]

Free(e) == e.state # "dispatched" /\ ~(e.state = "dispatching" /\ e.fresh)

ClaimDispatch(r, x) ==
  LET k == origin[r].source
  IN  /\ Dispatchable(r) /\ turn[x] = NoTurn /\ Free(envelope[k])
      /\ envelope' = [envelope EXCEPT ![k] = [state |-> "dispatching", claim |-> x, fresh |-> TRUE]]
      /\ turn'     = [turn EXCEPT ![x] = [run |-> r, state |-> "running"]]
      /\ latest'   = [latest EXCEPT ![k] = x]
      /\ UNCHANGED <<runVars, preVars, origin>>

\* finish() looks at the status only.
HeldMutant(k, x) == envelope[k].state = "dispatching"

\* Dream says whether a turn was accepted; a claim that was taken over says it to
\* nobody.
Held(k, x) == envelope[k].state = "dispatching" /\ envelope[k].claim = x
FinishDispatch(x, accepted) ==
  LET k == origin[turn[x].run].source
  IN  /\ turn[x].state = "running"
      /\ turn' = [turn EXCEPT ![x].state = IF accepted THEN "accepted" ELSE "refused"]
      /\ IF Held(k, x)
         THEN envelope' = [envelope EXCEPT ![k] =
                             [state |-> IF accepted THEN "dispatched" ELSE "pending",
                              claim |-> None, fresh |-> FALSE]]
         ELSE UNCHANGED envelope
      /\ UNCHANGED <<runVars, preVars, origin, latest>>

ClaimGoesStale(k) ==
  /\ envelope[k].state = "dispatching" /\ envelope[k].fresh
  /\ envelope' = [envelope EXCEPT ![k].fresh = FALSE]
  /\ UNCHANGED <<runVars, preVars, origin, turn, latest>>

\* The failure of a run, committed before, is told to its source.
TellFailure(r) ==
  /\ run[r].status = "failed"
  /\ envelope' = [envelope EXCEPT ![origin[r].source] =
                    [state |-> "failed", claim |-> None, fresh |-> FALSE]]
  /\ UNCHANGED <<runVars, preVars, origin, turn, latest>>

LaunchNext ==
  \/ \E q \in Requests :
       \/ \E g \in Goals, p \in Preflights : Receive(q, g, p)
       \/ StagePasses(q) \/ StageFails(q) \/ Pass(q) \/ FailPreflight(q) \/ Stop(q)
  \/ \E p \in Preflights : Lapse(p)
  \/ \E k \in Keys : EnsureSource(k) \/ ClaimGoesStale(k)
  \/ \E r \in Runs, k \in Keys, p \in Preflights :
       \/ \E source \in Keys : Create(r, k, source, p)
       \/ \E o \in Created : Retry(r, k, o, p)
  \/ \E r \in Created : TellFailure(r) \/ \E x \in LaunchClaims : ClaimDispatch(r, x)
  \/ \E x \in LaunchClaims, accepted \in BOOLEAN : FinishDispatch(x, accepted)

\* The runs move on their own, too.
LaunchStep == LaunchNext \/ (RunNext /\ UNCHANGED launchVars)

LaunchSpec ==
  RunInit /\ LaunchInit /\ [][LaunchStep]_<<runVars, launchVars>>

-----------------------------------------------------------------------------

LaunchTypeOK ==
  /\ preflight \in [Preflights -> [status : {"none", "checking", "passed", "failed", "expired"},
                                   goal : Goals \cup {None}, run : Runs \cup {None}, lapsed : BOOLEAN]]
  /\ request \in [Requests -> [pf : Preflights \cup {None}, owner : BOOLEAN,
                               receipt : {"checking", "passed", "failed", None}]]
  /\ stage \in [Requests -> Stages \cup {"idle", "failing", "done"}]
  /\ origin \in [Runs -> [key : Keys \cup {None}, source : Keys \cup {None},
                          retryOf : Runs \cup {None}, goal : Goals \cup {None}]]
  /\ envelope \in [Keys -> [state : {"none", "pending", "dispatching", "dispatched", "failed"},
                            claim : LaunchClaims \cup {None}, fresh : BOOLEAN]]
  /\ turn \in [LaunchClaims -> [run : Runs \cup {None},
                               state : {"none", "running", "accepted", "refused"}]]

\* However often a launch or a retry is sent, and with however many tokens, its key
\* has one run; a token buys one run, with the goal it was issued for; every run was
\* bought; and what a retry retries has ended and had the same source and goal.
OneRunPerKey ==
  /\ \A r, s \in Created : origin[r].key = origin[s].key => r = s
  /\ \A p \in Preflights :
       preflight[p].run # None => /\ preflight[p].run \in Created
                                  /\ origin[preflight[p].run].goal = preflight[p].goal
  /\ \A r \in Created :
       /\ \E p \in Preflights : preflight[p].run = r
       /\ origin[r].retryOf # None =>
            LET o == origin[r].retryOf
            IN  /\ run[o].status \in {"failed", "cancelled"}
                /\ origin[o].source = origin[r].source /\ origin[o].goal = origin[r].goal

\* A launch buys its run once.
RunsAreBoughtOnce == LaunchTypeOK /\ OneRunPerKey

\* A request whose preflight was decided finds the decision in its receipt, also when
\* the answer to its commit was lost: the failure path turns no passed preflight into
\* a failed one.  And of one goal there is one open preflight at a time.
ReceiptTellsPreflight ==
  /\ \A q \in Requests :
       LET status == preflight[request[q].pf].status
       IN  request[q].owner =>
             /\ status \in {"passed", "expired"} <=> request[q].receipt = "passed"
             /\ status = "failed" <=> request[q].receipt = "failed"
  /\ \A g \in Goals : Cardinality(Open(preflight, g)) <= 1

\* A source says what became of the claim that was issued last: it is dispatched, or
\* free again, by the word of that claim and of no earlier one.
EnvelopeTellsLatest ==
  \A k \in Keys :
    LET x == latest[k]
    IN  x # None =>
          CASE envelope[k].state = "dispatched"  -> turn[x].state = "accepted"
            [] envelope[k].state = "pending"     -> turn[x].state = "refused"
            [] envelope[k].state = "dispatching" -> turn[x].state = "running" /\ envelope[k].claim = x
            [] OTHER -> envelope[k].state = "failed"

\* Tokens, receipts and envelopes each stand for what was done with them, however a
\* launch was repeated, lost or taken over.
LaunchesAreSound == RunsAreBoughtOnce /\ ReceiptTellsPreflight /\ EnvelopeTellsLatest
=============================================================================
