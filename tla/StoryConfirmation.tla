------------------------- MODULE StoryConfirmation -------------------------
(***************************************************************************)
(* The answer of a person to the output of a run.  submit accepts it - it  *)
(* inserts the message of the confirmation and confirms the run - and a    *)
(* dispatcher of Dream claims the message under a lease, starts a turn     *)
(* with it and acknowledges it (storyWorkspaceConfirmationService.ts).  A  *)
(* turn counts only while its claim holds the message                      *)
(* (confirmationGuard.ts), and the grant the turn works with only while    *)
(* the claim does (auth/delegationService.ts).                             *)
(*                                                                         *)
(* Each operation is one transaction.  The lease is live until the clock   *)
(* passes it, which is a step of its own; its length is not modelled.      *)
(***************************************************************************)
EXTENDS WorkflowRuns

CONSTANTS
  Commands,   \* confirmations: one message each, its id derived from its key
  RunOf,      \* the run each of them answers
  Claims      \* claim ids of the dispatchers

ASSUME CommandsAnswerRuns == RunOf \in [Commands -> Runs]

VARIABLES
  msg,      \* the metadata of the message of each confirmation
  order,    \* the confirmations as they were inserted: created_at
  grant,    \* runtime_delegations of each confirmation and claim
  told,     \* the claims that were given the message of each confirmation
  turns     \* the claims under which a turn of it was recorded

confirmVars == <<msg, order, grant, told, turns>>

NoMsg == [state |-> "absent", claim |-> None, live |-> FALSE]

Accepted == {order[i] : i \in DOMAIN order}
AcceptedFor(r) == {c \in Accepted : RunOf[c] = r}

ConfirmInit ==
  /\ msg   = [c \in Commands |-> NoMsg]
  /\ order = <<>>
  /\ grant = [c \in Commands |-> [x \in Claims |-> "none"]]
  /\ told  = [c \in Commands |-> {}]
  /\ turns = [c \in Commands |-> {}]

\* advanceToConfirmed refuses a run that is not between these.
Confirmable(r) == Between(r, "running", "confirmed")
AdvanceToConfirmed(r) ==
  IF run[r].status = "confirmed" THEN UNCHANGED runVars
  ELSE Passes(r, PathTo(r, "confirmed"), run[r].session)

\* Only the same message is looked for.
AnswerableMutant(c) == c \notin Accepted

\* A run takes one confirmation: any other is answered IDEMPOTENCY_CONFLICT, and
\* the same one again with the stored message, which changes nothing.
Answerable(c) == AcceptedFor(RunOf[c]) = {}

Submit(c) ==
  /\ msg[c].state = "absent" /\ Answerable(c) /\ Confirmable(RunOf[c])
  /\ msg' = [msg EXCEPT ![c].state = "pending"]
  /\ order' = Append(order, c)
  /\ AdvanceToConfirmed(RunOf[c])
  /\ UNCHANGED <<grant, told, turns>>

Holds(x, c)    == msg[c].state = "dispatching" /\ msg[c].claim = x
Eligible(x, c) == \/ msg[c].state = "pending" \/ Holds(x, c)
                  \/ msg[c].state = "dispatching" /\ ~msg[c].live

\* The claim of one message: its run must still be confirmable, else the whole
\* transaction is refused.
ClaimOne(x, c) ==
  /\ Confirmable(RunOf[c]) /\ AdvanceToConfirmed(RunOf[c])
  /\ msg'  = [msg EXCEPT ![c] = [state |-> "dispatching", claim |-> x, live |-> TRUE]]
  /\ told' = [told EXCEPT ![c] = @ \cup {x}]
  /\ UNCHANGED <<order, turns>>

\* A scan takes what the claim already holds first, then the oldest that is
\* eligible.  It looks no further when that one is refused.
LookedFor(x) ==
  LET held == {c \in Accepted : Holds(x, c)}
  IN  IF held # {} THEN held ELSE {c \in Accepted : Eligible(x, c)}
Scanned(x, c) ==
  \E i \in DOMAIN order : /\ order[i] = c /\ c \in LookedFor(x)
                          /\ \A j \in 1 .. i - 1 : order[j] \notin LookedFor(x)

\* The message asked for, or the one the scan comes to.
Candidate(x, c) == c \in Accepted /\ Eligible(x, c)
Claim(x, c) == Candidate(x, c) /\ ClaimOne(x, c) /\ UNCHANGED grant
Scan(x, c)  == Scanned(x, c) /\ ClaimOne(x, c) /\ UNCHANGED grant

\* claim-turn also gives the grant of the turn, or finds the one it gave; one that
\* has expired or was revoked refuses the whole claim.
Granted(x, c) ==
  /\ grant[c][x] # "dead"
  /\ grant' = [grant EXCEPT ![c][x] = "live"]
ClaimTurn(x, c) == Candidate(x, c) /\ ClaimOne(x, c) /\ Granted(x, c)
ScanTurn(x, c)  == Scanned(x, c) /\ ClaimOne(x, c) /\ Granted(x, c)

\* The holder renews its lease, even one that has passed if nobody took over.
Lease(x, c) ==
  /\ Holds(x, c)
  /\ msg' = [msg EXCEPT ![c].live = TRUE]
  /\ UNCHANGED <<runVars, order, grant, told, turns>>

LeaseLapses(c) ==
  /\ msg[c].state = "dispatching" /\ msg[c].live
  /\ msg' = [msg EXCEPT ![c].live = FALSE]
  /\ UNCHANGED <<runVars, order, grant, told, turns>>

GrantEnds(x, c) ==
  /\ grant[c][x] = "live"
  /\ grant' = [grant EXCEPT ![c][x] = "dead"]
  /\ UNCHANGED <<runVars, msg, order, told, turns>>

\* The claims of the stored and the given message are not compared.
TurnCountsMutant(x, c) == msg[c].state = "dispatching" /\ msg[c].live

\* What makes the turn of a claim, and its grant, count: the stored message.
TurnCounts(x, c) == Holds(x, c) /\ msg[c].live

\* A turn is recorded with the message it was given, by the person's own token or
\* by the grant of the claim.
PersistTurn(x, c, delegated) ==
  /\ x \in told[c] /\ TurnCounts(x, c)
  /\ delegated => grant[c][x] = "live"
  /\ turns' = [turns EXCEPT ![c] = @ \cup {x}]
  /\ UNCHANGED <<runVars, msg, order, grant, told>>

\* The second acknowledgement of a claim is answered as the first.
Ack(x, c) ==
  /\ Holds(x, c) /\ run[RunOf[c]].status = "confirmed"
  /\ msg' = [msg EXCEPT ![c] = [state |-> "dispatched", claim |-> x, live |-> FALSE]]
  /\ UNCHANGED <<runVars, order, grant, told, turns>>

ConfirmNext ==
  \/ \E c \in Commands : Submit(c) \/ LeaseLapses(c)
  \/ \E x \in Claims, c \in Commands :
       \/ Claim(x, c) \/ ClaimTurn(x, c) \/ Scan(x, c) \/ ScanTurn(x, c)
       \/ Lease(x, c) \/ Ack(x, c) \/ GrantEnds(x, c)
       \/ \E delegated \in BOOLEAN : PersistTurn(x, c, delegated)

\* Runs as the launch leaves them, answered, failed and cancelled in any order.
ConfirmStep == ConfirmNext \/ (RunNext /\ UNCHANGED confirmVars)

RunsQueued ==
  /\ run = [r \in Runs |-> [status |-> "queued", version |-> 2, session |-> FALSE]]
  /\ history = [r \in Runs |-> <<[seq |-> 1, from |-> "none", to |-> "preflight"],
                                 [seq |-> 2, from |-> "preflight", to |-> "queued"]>>]

ConfirmSpec == RunsQueued /\ ConfirmInit /\ [][ConfirmStep]_<<runVars, confirmVars>>

-----------------------------------------------------------------------------

ConfirmTypeOK ==
  /\ msg \in [Commands -> [state : {"absent", "pending", "dispatching", "dispatched"},
                           claim : Claims \cup {None}, live : BOOLEAN]]
  /\ order \in Seq(Commands)
  /\ grant \in [Commands -> [Claims -> {"none", "live", "dead"}]]
  /\ told \in [Commands -> SUBSET Claims] /\ turns \in [Commands -> SUBSET Claims]

\* However many confirmations of a run are sent at the same time, and however often,
\* one is accepted; its run was confirmed by it, and no run is confirmed without one.
OneAnswerPerRun ==
  \A r \in Runs :
    LET confirmed == {i \in DOMAIN history[r] : history[r][i].to = "confirmed"}
    IN  /\ Cardinality(AcceptedFor(r)) = Cardinality(confirmed)
        /\ Cardinality(confirmed) <= 1

\* A run is answered once.
RunsAreAnsweredOnce == ConfirmTypeOK /\ OneAnswerPerRun

\* The claim that was given the message last.
Latest(c) == msg[c].claim

\* A dispatcher that lost its message, because its lease passed and another one
\* claimed it, or because it was acknowledged, records no turn any more; and what was
\* acknowledged is not handed out, nor acknowledged by another, again.
LateClaimsAreFenced ==
  [][\A c \in Commands :
       /\ turns'[c] \subseteq turns[c] \cup {Latest(c)}
       /\ msg[c].state = "dispatched" => (msg'[c] = msg[c] /\ turns'[c] = turns[c])
       /\ msg'[c].claim # msg[c].claim =>
            (msg[c].state = "pending" \/ ~msg[c].live)]_confirmVars

\* What admin-dream-auth-data-contract.md:160 says of the scan: what is eligible, and
\* whose run is confirmed, is claimed after an interruption by whoever reconciles.
EligibleIsClaimed ==
  \A c, d \in Accepted, x \in Claims :
    Eligible(x, c) /\ Confirmable(RunOf[c]) /\ Scanned(x, d) => Confirmable(RunOf[d])
=============================================================================
