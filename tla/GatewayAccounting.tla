------------------------- MODULE GatewayAccounting -------------------------
(***************************************************************************)
(* The Token accounting of one platform user: the requests the AI gateway  *)
(* admits, the subscription allowances they are paid from, and the three   *)
(* kinds of transaction that move Tokens between "available", "reserved"   *)
(* and "consumed": preauthorization (beginGatewayRequest), settlement      *)
(* (settleGatewayRequestOnClient) and recovery (the settlement worker).    *)
(*                                                                         *)
(* A process is an HTTP handler (one callback of it: the pull and the      *)
(* cancel callback of a stream are two processes) or a run of the          *)
(* settlement worker.  A transaction that reads before it has its locks,   *)
(* or that checks something it acts on later, is split at those points; a  *)
(* rolled back transaction leaves nothing behind.  `lock' is the advisory  *)
(* lock of the account (account-lock.ts); all the requests here belong to  *)
(* the same user, users being independent of one another.                  *)
(*                                                                         *)
(* A member of Requests is the row an idempotency key can create; a call   *)
(* that carries no key is a key that is used once.                         *)
(***************************************************************************)
EXTENDS Integers, FiniteSets

CONSTANTS
  Requests,       \* the (user, idempotency key) pairs: one row each
  ImageRequests,  \* those settled with requireFullTokenAllowanceCapture
  Handlers,       \* callbacks of gateway HTTP handlers
  Workers,        \* concurrent runs of reconcileUnknownGatewayUsage
  LastPeriod,     \* bound: the billing periods are 0..LastPeriod
  Estimates,      \* values of estimatedTokens
  Usages,         \* values of the actual usage in Tokens
  PlanTokens,     \* allowance_tokens of the plan version
  Bonuses,        \* amounts of an administrator's grant
  MaxGranted,     \* bound: no grant takes an allowance beyond it
  MaxFaults,      \* bound: database failures and crashes
  Crashes,        \* whether a process may die between two statements
  None

Procs   == Handlers \cup Workers
Periods == 0 .. LastPeriod

ASSUME SetsAssumption ==
  /\ IsFiniteSet(Requests) /\ ImageRequests \subseteq Requests
  /\ Handlers \cap Workers = {}
  /\ None \notin Requests /\ None \notin Procs /\ None \notin Nat

ASSUME NumbersAssumption ==
  /\ LastPeriod \in Nat /\ PlanTokens \in Nat /\ MaxGranted \in Nat
  /\ MaxFaults \in Nat /\ Crashes \in BOOLEAN
  /\ Estimates \subseteq Nat \ {0} /\ Usages \subseteq Nat
  /\ Bonuses \subseteq Nat \ {0}

VARIABLES
  period, callable,             \* subscriptions: current period, status
  granted, reserved, consumed,  \* subscription_usage_allowances, by period
  status, bound, hold,          \* gateway_requests: status, allowance, reservation
  known, usage, charged,        \*   usageKnown, persisted usage, allowance charge
  failedAt,                     \*   rank of completed_at among the failed ones
  ledger,                       \* subscription_token_ledger_entries, by request
  lock,                         \* pg_advisory_xact_lock of the account
  pc, job,                      \* where each process is, and what it remembers
  faults

subVars       == <<period, callable>>
allowanceVars == <<granted, reserved, consumed>>
rowVars       == <<status, bound, hold, known, usage, charged, failedAt>>
vars == <<subVars, allowanceVars, rowVars, ledger, lock, pc, job, faults>>

-----------------------------------------------------------------------------

Unsettled == {"reserved", "streaming", "settlement_failed"}
Terminal  == {"settled", "rejected"}             \* the rows with a settled_at
Statuses  == {"absent"} \cup Unsettled \cup Terminal

\* Processes that are inside a transaction that holds the account lock.
InGate == {"eligible", "locked", "lockedUnknown"}
PCs == InGate \cup
       {"idle", "gate", "dispatch", "upstream", "aborted", "settle", "wait",
        "mark", "markUnknown", "readKnown", "waitUnknown"}

\* What a handler does after a settlement that failed: the catch block of a
\* stream settles again with the same usage, the one of a plain call has no
\* usage at hand and records it as unknown.
Retries == {"none", "known", "unknown"}

Job   == [req: Requests \cup {None}, allowance: Periods, tokens: Nat,
          retry: Retries]
NoJob == [req |-> None, allowance |-> 0, tokens |-> 0, retry |-> "none"]

NoEntries == [reserve |-> 0, capture |-> 0, release |-> 0]

Init ==
  /\ period = 0 /\ callable = TRUE
  /\ granted = [a \in Periods |-> IF a = 0 THEN PlanTokens ELSE 0]
  /\ reserved = [a \in Periods |-> 0]
  /\ consumed = [a \in Periods |-> 0]
  /\ status = [r \in Requests |-> "absent"]
  /\ bound = [r \in Requests |-> None]
  /\ hold = [r \in Requests |-> 0]
  /\ known = [r \in Requests |-> FALSE]
  /\ usage = [r \in Requests |-> 0]
  /\ charged = [r \in Requests |-> 0]
  /\ failedAt = [r \in Requests |-> 0]
  /\ ledger = [r \in Requests |-> NoEntries]
  /\ lock = None
  /\ pc = [p \in Procs |-> "idle"]
  /\ job = [p \in Procs |-> NoJob]
  /\ faults = 0

-----------------------------------------------------------------------------
(* Building blocks.                                                        *)

Fault == faults < MaxFaults /\ faults' = faults + 1

At(p, where) == pc[p] = where
Goto(p, where) == pc' = [pc EXCEPT ![p] = where]

\* The process returns to its caller.
Finish(p) == /\ pc' = [pc EXCEPT ![p] = "idle"]
             /\ job' = [job EXCEPT ![p] = NoJob]

Request(p) == job[p].req

\* pg_advisory_xact_lock waits until no other transaction has the account.
GateFreeMutant == TRUE                            \* the gate is not there
GateFree == lock = None

\* The COMMIT or ROLLBACK of p frees the account if p had it.
Released(p) == IF lock = p THEN None ELSE lock

Min2(a, b) == IF a <= b THEN a ELSE b
Max2(a, b) == IF a >= b THEN a ELSE b

Remaining(a) == granted[a] - reserved[a] - consumed[a]

\* The allowance a request is settled on: the one it was reserved from.
AllowanceOfMutant(r) == period                    \* the current one instead
AllowanceOf(r) == bound[r]

\* settleSubscriptionAllowanceOnClient: what the allowance of r can give to it,
\* its own reservation included, and what it gives for n Tokens of usage.
AvailableToAllMutant(r) ==                        \* others' reservations too
  granted[AllowanceOf(r)] - consumed[AllowanceOf(r)]
AvailableTo(r) ==
  granted[AllowanceOf(r)] - consumed[AllowanceOf(r)]
    - (reserved[AllowanceOf(r)] - hold[r])
ChargeFor(r, n) == Min2(n, Max2(0, AvailableTo(r)))

\* How much of a charge c comes out of the reservation; the rest is released.
FromReservationUncappedMutant(r, c) == c          \* the minimum is forgotten
FromReservationWholeMutant(r, c) == hold[r]       \* nothing is released
FromReservation(r, c) == Min2(hold[r], c)

\* The ledger rows are unique per request and kind, so a second capture or
\* release of a request cannot be inserted.
CanSettle(r) ==
  /\ AllowanceOf(r) # None
  /\ hold[r] <= reserved[AllowanceOf(r)]
  /\ Remaining(AllowanceOf(r)) >= 0
  /\ ledger[r].capture = 0 /\ ledger[r].release = 0

\* The update of the allowance, its ledger entries and the end of the row.
Settle(r, n) ==
  LET a == AllowanceOf(r)
      c == ChargeFor(r, n)
  IN  /\ reserved' = [reserved EXCEPT ![a] = @ - hold[r]]
      /\ consumed' = [consumed EXCEPT ![a] = @ + c]
      /\ charged' = [charged EXCEPT ![r] = c]
      /\ ledger' = [ledger EXCEPT ![r] =
           [reserve |-> @.reserve, capture |-> c,
            release |-> hold[r] - FromReservation(r, c)]]
      /\ status' = [status EXCEPT ![r] = "settled"]
      /\ UNCHANGED <<granted, bound, hold, failedAt>>

-----------------------------------------------------------------------------
(* Preauthorization.                                                       *)

\* A call arrives, with its idempotency key and its estimate, and opens its
\* transaction; it then waits for the account.
Arrive(h, r, e) ==
  /\ At(h, "idle")
  /\ Goto(h, "gate")
  /\ job' = [job EXCEPT ![h] = [NoJob EXCEPT !.req = r, !.tokens = e]]
  /\ UNCHANGED <<subVars, allowanceVars, rowVars, ledger, lock, faults>>

\* The key has been used: the caller gets the state of that row.
BeginReplay(h) ==
  /\ At(h, "gate") /\ GateFree
  /\ status[Request(h)] # "absent"
  /\ Finish(h)
  /\ UNCHANGED <<subVars, allowanceVars, rowVars, ledger, lock, faults>>

Eligible(e) == callable /\ Remaining(period) >= e

\* The subscription is not callable, or its allowance is exhausted.
BeginReject(h) ==
  /\ At(h, "gate") /\ GateFree
  /\ status[Request(h)] = "absent"
  /\ ~ Eligible(job[h].tokens)
  /\ status' = [status EXCEPT ![Request(h)] = "rejected"]
  /\ Finish(h)
  /\ UNCHANGED <<subVars, allowanceVars, bound, hold, known, usage, charged,
                 failedAt, ledger, lock, faults>>

\* The subscription row is read FOR SHARE, its allowance without a lock.
BeginEligible(h) ==
  /\ At(h, "gate") /\ GateFree
  /\ status[Request(h)] = "absent"
  /\ Eligible(job[h].tokens)
  /\ lock' = h
  /\ Goto(h, "eligible")
  /\ job' = [job EXCEPT ![h].allowance = period]
  /\ UNCHANGED <<subVars, allowanceVars, rowVars, ledger, faults>>

\* A rate window is full.  The row keeps the allowance and the reservation it
\* was bound to, although nothing has been reserved.
BeginLimited(h) ==
  /\ At(h, "eligible")
  /\ status' = [status EXCEPT ![Request(h)] = "rejected"]
  /\ bound' = [bound EXCEPT ![Request(h)] = job[h].allowance]
  /\ hold' = [hold EXCEPT ![Request(h)] = job[h].tokens]
  /\ lock' = Released(h)
  /\ Finish(h)
  /\ UNCHANGED <<subVars, allowanceVars, known, usage, charged, failedAt,
                 ledger, faults>>

\* The allowance, now locked, can take the reservation.
Fits(h) == Remaining(job[h].allowance) >= job[h].tokens

BeginReserve(h) ==
  LET r == Request(h)
      a == job[h].allowance
  IN  /\ At(h, "eligible") /\ Fits(h)
      /\ reserved' = [reserved EXCEPT ![a] = @ + job[h].tokens]
      /\ ledger' = [ledger EXCEPT ![r].reserve = job[h].tokens]
      /\ status' = [status EXCEPT ![r] = "reserved"]
      /\ bound' = [bound EXCEPT ![r] = a]
      /\ hold' = [hold EXCEPT ![r] = job[h].tokens]
      /\ lock' = Released(h)
      /\ Goto(h, "dispatch")
      /\ job' = [job EXCEPT ![h] = [NoJob EXCEPT !.req = r]]
      /\ UNCHANGED <<subVars, granted, consumed, known, usage, charged,
                     failedAt, faults>>

\* The transaction is rolled back, the row that had been inserted with it:
\* tokenLedgerSnapshot refuses the reservation or the database fails.
BeginFails(h) ==
  /\ At(h, "eligible")
  /\ IF Fits(h) THEN Fault ELSE UNCHANGED faults
  /\ lock' = Released(h)
  /\ Finish(h)
  /\ UNCHANGED <<subVars, allowanceVars, rowVars, ledger>>

-----------------------------------------------------------------------------
(* The provider's answer.                                                  *)

MarkStreaming(h) ==
  /\ At(h, "dispatch")
  /\ status[Request(h)] = "reserved"
  /\ status' = [status EXCEPT ![Request(h)] = "streaming"]
  /\ Goto(h, "upstream")
  /\ UNCHANGED <<subVars, allowanceVars, bound, hold, known, usage, charged,
                 failedAt, ledger, lock, job, faults>>

Answerable == {"dispatch", "upstream", "aborted"}

\* What the catch block around a settlement that threw does next.
RetryOf(h) ==
  CASE Request(h) \in ImageRequests -> {"none"}
    [] At(h, "dispatch")            -> {"none", "unknown"}
    [] At(h, "upstream")            -> {"none", "known"}
    [] OTHER                        -> {"none"}

\* Reliable usage; 0 when the provider certainly did not bill the call.
ProviderReports(h, u) ==
  /\ pc[h] \in Answerable
  /\ At(h, "aborted") => u > 0 /\ u = job[h].tokens
  /\ \E next \in RetryOf(h) :
       job' = [job EXCEPT ![h].tokens = u, ![h].retry = next]
  /\ Goto(h, "settle")
  /\ UNCHANGED <<subVars, allowanceVars, rowVars, ledger, lock, faults>>

\* No reliable usage: a failure, a timeout, an answer that has none.
ProviderSilent(h) ==
  /\ pc[h] \in Answerable
  /\ At(h, "aborted") => job[h].tokens = 0
  /\ Goto(h, "markUnknown")
  /\ UNCHANGED <<subVars, allowanceVars, rowVars, ledger, lock, job, faults>>

\* The client leaves: the cancel callback g finalizes with the usage u seen so
\* far, while the pull callback h, whose upstream is aborted, goes on to its
\* own catch block and finalizes with the same usage.
Cancel(h, g, u) ==
  /\ At(h, "upstream") /\ At(g, "idle")
  /\ Request(h) \notin ImageRequests
  /\ pc' = [pc EXCEPT ![h] = "aborted",
                       ![g] = IF u = 0 THEN "markUnknown" ELSE "settle"]
  /\ job' = [job EXCEPT ![g] = [NoJob EXCEPT !.req = Request(h), !.tokens = u],
                        ![h].tokens = u]
  /\ UNCHANGED <<subVars, allowanceVars, rowVars, ledger, lock, faults>>

-----------------------------------------------------------------------------
(* Settlement, by a handler or by the worker.                              *)

\* The first read of the row, before the account is locked.
SettleRead(p) ==
  /\ At(p, "settle")
  /\ IF status[Request(p)] \in Terminal
       THEN Finish(p)
       ELSE Goto(p, "wait") /\ UNCHANGED job
  /\ UNCHANGED <<subVars, allowanceVars, rowVars, ledger, lock, faults>>

SettleGate(p) ==
  /\ At(p, "wait") /\ GateFree
  /\ lock' = p
  /\ Goto(p, "locked")
  /\ UNCHANGED <<subVars, allowanceVars, rowVars, ledger, job, faults>>

AlreadySettled(r) == status[r] \in Terminal

\* The second read, under the locks: somebody else has settled the row.
SettleIdempotent(p) ==
  /\ At(p, "locked")
  /\ AlreadySettled(Request(p))
  /\ lock' = Released(p)
  /\ Finish(p)
  /\ UNCHANGED <<subVars, allowanceVars, rowVars, ledger, faults>>

\* Image usage is captured in full or not at all.
CapturesEnough(r, n) == r \in ImageRequests => ChargeFor(r, n) = n

\* Where a failed settlement leads: a handler records it, a worker run ends.
AfterFailure(p) ==
  IF p \in Workers THEN Finish(p)
                   ELSE Goto(p, "mark") /\ UNCHANGED job

\* The commit; its acknowledgement may get lost, and then the process believes
\* that the settlement has failed.
SettleCommit(p) ==
  LET r == Request(p)
      n == job[p].tokens
  IN  /\ At(p, "locked")
      /\ ~ AlreadySettled(r) /\ CanSettle(r) /\ CapturesEnough(r, n)
      /\ Settle(r, n)
      /\ known' = [known EXCEPT ![r] = TRUE]
      /\ usage' = [usage EXCEPT ![r] = n]
      /\ lock' = Released(p)
      /\ \/ Finish(p) /\ UNCHANGED faults
         \/ AfterFailure(p) /\ Fault
      /\ UNCHANGED subVars

\* The transaction throws, for a reason in the data or in the database.
Blocked(p) ==
  /\ At(p, "locked") /\ ~ AlreadySettled(Request(p))
  /\ ~ (CanSettle(Request(p)) /\ CapturesEnough(Request(p), job[p].tokens))

SettleFails(p) ==
  /\ pc[p] \in {"settle", "wait", "locked"}
  /\ IF Blocked(p) THEN UNCHANGED faults ELSE Fault
  /\ lock' = Released(p)
  /\ AfterFailure(p)
  /\ UNCHANGED <<subVars, allowanceVars, rowVars, ledger>>

-----------------------------------------------------------------------------
(* Recording a settlement that is still owed.                              *)

\* Only a call in flight can still become a failed settlement.
InFlightAnyMutant(r) == TRUE                      \* settled rows too
InFlightOpenMutant(r) == status[r] \in Unsettled  \* rows already marked too
InFlight(r) == status[r] \in {"reserved", "streaming"}

\* markGatewayRequestSettlementFailed: only a row whose call was in flight
\* changes, and from then on it waits for the worker.
MarkFailed(r, isKnown, n) ==
  IF InFlight(r)
    THEN /\ status' = [status EXCEPT ![r] = "settlement_failed"]
         /\ known' = [known EXCEPT ![r] = isKnown]
         /\ usage' = [usage EXCEPT ![r] = n]
         /\ failedAt' = [failedAt EXCEPT ![r] =
              1 + Cardinality({q \in Requests : failedAt[q] > 0})]
         /\ UNCHANGED <<bound, hold, charged>>
    ELSE UNCHANGED rowVars

\* A mark that fails is swallowed.
MarkLost == Fault /\ UNCHANGED rowVars

MarkKnown(h) ==
  /\ At(h, "mark")
  /\ \/ MarkFailed(Request(h), TRUE, job[h].tokens) /\ UNCHANGED faults
     \/ MarkLost
  /\ CASE job[h].retry = "none"    -> Finish(h)
       [] job[h].retry = "known"   -> /\ Goto(h, "settle")
                                      /\ job' = [job EXCEPT ![h].retry = "none"]
       [] job[h].retry = "unknown" -> /\ Goto(h, "markUnknown")
                                      /\ job' = [job EXCEPT ![h].retry = "none"]
  /\ UNCHANGED <<subVars, allowanceVars, ledger, lock>>

MarkUnknown(h) ==
  /\ At(h, "markUnknown")
  /\ \/ MarkFailed(Request(h), FALSE, usage[Request(h)]) /\ UNCHANGED faults
     \/ MarkLost
  /\ Finish(h)
  /\ UNCHANGED <<subVars, allowanceVars, ledger, lock>>

-----------------------------------------------------------------------------
(* The settlement worker.                                                  *)

\* The rows the worker looks for.
FailedMutant == {r \in Requests :                 \* unknown usage only
                   status[r] = "settlement_failed" /\ ~ known[r]}
Failed == {r \in Requests : status[r] = "settlement_failed"}

\* The candidate is the oldest one, whatever happened to it before.
WorkerSelect(w) ==
  /\ At(w, "idle")
  /\ \E r \in Failed :
       /\ \A q \in Failed : failedAt[r] <= failedAt[q]
       /\ Goto(w, IF known[r] THEN "readKnown" ELSE "waitUnknown")
       /\ job' = [job EXCEPT ![w] = [NoJob EXCEPT !.req = r]]
  /\ UNCHANGED <<subVars, allowanceVars, rowVars, ledger, lock, faults>>

\* Known usage is read again and settled like the handler would have; another
\* run may have settled it since, and then this run ends with an exception.
WorkerReadKnown(w) ==
  LET r == Request(w)
  IN  /\ At(w, "readKnown")
      /\ IF status[r] = "settlement_failed" /\ known[r]
           THEN /\ Goto(w, "settle")
                /\ job' = [job EXCEPT ![w].tokens = usage[r]]
           ELSE Finish(w)
      /\ UNCHANGED <<subVars, allowanceVars, rowVars, ledger, lock, faults>>

WorkerGate(w) ==
  /\ At(w, "waitUnknown") /\ GateFree
  /\ lock' = w
  /\ Goto(w, "lockedUnknown")
  /\ UNCHANGED <<subVars, allowanceVars, rowVars, ledger, job, faults>>

\* Unknown usage consumes exactly the reservation.
CanResolve(r) ==
  /\ status[r] = "settlement_failed" /\ ~ known[r]
  /\ CanSettle(r) /\ ChargeFor(r, hold[r]) = hold[r]

WorkerResolve(w) ==
  LET r == Request(w)
  IN  /\ At(w, "lockedUnknown")
      /\ IF CanResolve(r) /\ ~ AlreadySettled(r)
           THEN Settle(r, hold[r]) /\ UNCHANGED <<known, usage>>
           ELSE UNCHANGED <<allowanceVars, rowVars, ledger>>
      /\ lock' = Released(w)
      /\ Finish(w)
      /\ UNCHANGED <<subVars, faults>>

-----------------------------------------------------------------------------
(* Around the gateway.                                                     *)

\* A process dies, or the rest of its work is lost with an exception nobody
\* handles; PostgreSQL rolls its transaction back.
Crash(p) ==
  /\ Crashes /\ ~ At(p, "idle") /\ Fault
  /\ lock' = Released(p)
  /\ Finish(p)
  /\ UNCHANGED <<subVars, allowanceVars, rowVars, ledger>>

\* A preauthorization holds the subscription FOR SHARE until it commits.
SubscriptionUnlocked == \A h \in Handlers : ~ At(h, "eligible")

\* An administrator grants Tokens to the current period.
Grant(n) ==
  /\ SubscriptionUnlocked
  /\ callable /\ granted[period] + n <= MaxGranted
  /\ granted' = [granted EXCEPT ![period] = @ + n]
  /\ UNCHANGED <<subVars, reserved, consumed, rowVars, ledger, lock, pc, job,
                 faults>>

\* The subscription is paused, resumed, cancelled or expires.
ChangeCallable ==
  /\ SubscriptionUnlocked
  /\ callable' = ~ callable
  /\ UNCHANGED <<period, allowanceVars, rowVars, ledger, lock, pc, job, faults>>

\* The next period starts with an allowance of its own.
Renew ==
  /\ SubscriptionUnlocked
  /\ callable /\ period < LastPeriod
  /\ period' = period + 1
  /\ granted' = [granted EXCEPT ![period + 1] = PlanTokens]
  /\ UNCHANGED <<callable, reserved, consumed, rowVars, ledger, lock, pc, job,
                 faults>>

-----------------------------------------------------------------------------

HandlerStep(h) ==
  \/ \E r \in Requests, e \in Estimates : Arrive(h, r, e)
  \/ BeginReplay(h) \/ BeginReject(h) \/ BeginEligible(h)
  \/ BeginLimited(h) \/ BeginReserve(h) \/ BeginFails(h)
  \/ MarkStreaming(h)
  \/ \E u \in Usages : ProviderReports(h, u)
  \/ ProviderSilent(h)
  \/ \E g \in Handlers, u \in Usages : Cancel(h, g, u)
  \/ MarkKnown(h) \/ MarkUnknown(h)

WorkerStep(w) ==
  \/ WorkerSelect(w) \/ WorkerReadKnown(w) \/ WorkerGate(w) \/ WorkerResolve(w)

SettleStep(p) ==
  \/ SettleRead(p) \/ SettleGate(p) \/ SettleIdempotent(p)
  \/ SettleCommit(p) \/ SettleFails(p)

Next ==
  \/ \E h \in Handlers : HandlerStep(h)
  \/ \E w \in Workers : WorkerStep(w)
  \/ \E p \in Procs : SettleStep(p) \/ Crash(p)
  \/ \E n \in Bonuses : Grant(n)
  \/ ChangeCallable
  \/ Renew

Spec == Init /\ [][Next]_vars

\* The scheduling the code has: the server finishes the calls it has started,
\* every provider call ends (with a timeout at the latest), and the worker's
\* endpoint is invoked again and again once the grace period is over.
HandlerProgress(h) ==
  \/ BeginReplay(h) \/ BeginReject(h) \/ BeginEligible(h)
  \/ BeginLimited(h) \/ BeginReserve(h) \/ BeginFails(h)
  \/ MarkStreaming(h)
  \/ \E u \in Usages : ProviderReports(h, u)
  \/ ProviderSilent(h)
  \/ MarkKnown(h) \/ MarkUnknown(h)
  \/ SettleStep(h)

Fairness ==
  /\ \A h \in Handlers : WF_vars(HandlerProgress(h))
  /\ \A w \in Workers : WF_vars(WorkerStep(w) \/ SettleStep(w))

FairSpec == Spec /\ Fairness

-----------------------------------------------------------------------------
(* Properties.                                                             *)

\* Every variable keeps its type; an account that is locked is locked by a
\* process that is inside a transaction.
TypeOK ==
  /\ period \in Periods /\ callable \in BOOLEAN
  /\ granted \in [Periods -> Nat]
  /\ reserved \in [Periods -> Nat]
  /\ consumed \in [Periods -> Nat]
  /\ status \in [Requests -> Statuses]
  /\ bound \in [Requests -> Periods \cup {None}]
  /\ hold \in [Requests -> Nat]
  /\ known \in [Requests -> BOOLEAN]
  /\ usage \in [Requests -> Nat]
  /\ charged \in [Requests -> Nat]
  /\ failedAt \in [Requests -> Nat]
  /\ ledger \in [Requests -> [reserve: Nat, capture: Nat, release: Nat]]
  /\ lock \in Procs \cup {None}
  /\ pc \in [Procs -> PCs]
  /\ job \in [Procs -> Job]
  /\ faults \in Nat

\* The Tokens of the requests S when request r stands for f[r] of them, as a
\* set with one element per Token, so that a sum is a cardinality.
TokenUnits(S, f) == UNION {{r} \X (1 .. f[r]) : r \in S}

HeldFrom(a)  == {r \in Requests : status[r] \in Unsettled /\ bound[r] = a}
PaidFrom(a)  == {r \in Requests : status[r] = "settled" /\ bound[r] = a}

\* What an allowance has reserved is what the requests still in flight, or
\* failed and not yet recovered, hold of it: no reservation is lost, released
\* twice, or released from the allowance of another period.
ReservationsAccounted ==
  \A a \in Periods : reserved[a] = Cardinality(TokenUnits(HeldFrom(a), hold))

\* What an allowance has consumed is the sum of what its settled requests were
\* charged: no request is charged twice, and none to another period.
ConsumptionAccounted ==
  \A a \in Periods : consumed[a] = Cardinality(TokenUnits(PaidFrom(a), charged))

\* The allowance is never overdrawn, whatever usage providers report and
\* however settlements, grants and new reservations interleave.
NoOvercommit == \A a \in Periods : reserved[a] + consumed[a] <= granted[a]

\* The Token ledger tells the story of each request: its reservation while it
\* is open, and once it is settled a capture of what it was charged and a
\* release of what the charge left of the reservation.
EntriesOf(r) ==
  CASE status[r] \in Unsettled ->
         [reserve |-> hold[r], capture |-> 0, release |-> 0]
    [] status[r] = "settled"   ->
         [reserve |-> hold[r], capture |-> charged[r],
          release |-> hold[r] - Min2(hold[r], charged[r])]
    [] OTHER -> NoEntries

LedgerTellsAll == \A r \in Requests : ledger[r] = EntriesOf(r)

\* The three books of a Token agree whatever fails in between: the columns of the
\* allowances, the rows of the requests and the append-only ledger.
BooksBalance ==
  /\ TypeOK
  /\ ReservationsAccounted
  /\ ConsumptionAccounted
  /\ LedgerTellsAll

\* Between the unlocked check of the allowance and the locked reservation
\* nothing can take the Tokens away, so that an admitted request never loses
\* its transaction to tokenLedgerSnapshot (the 409 branch of the code is for
\* that case and is never needed).
EligibleStaysFunded == \A h \in Handlers : At(h, "eligible") => Fits(h)

\* A settlement that finds its row open can always be carried out on the
\* allowance: only the full capture of image usage can be refused.
OpenRowsCanSettle ==
  \A r \in Requests : status[r] \in Unsettled => CanSettle(r)

\* The conservative capture of the worker always gets the whole reservation.
ReservationCoversItself ==
  \A r \in Requests :
    status[r] \in Unsettled => ChargeFor(r, hold[r]) = hold[r]

\* A settled or rejected request stays as it is: replays, late settlements of
\* the other callback of a stream, lost acknowledgements and the worker leave
\* the row and its ledger alone.
TerminalIsFinal ==
  [][\A r \in Requests : status[r] \in Terminal =>
       /\ status'[r] = status[r] /\ charged'[r] = charged[r]
       /\ usage'[r] = usage[r] /\ known'[r] = known[r]
       /\ ledger'[r] = ledger[r]]_vars

\* Reliable usage that was persisted for recovery is the usage the request is
\* settled with: no later report of the same call replaces it or downgrades it
\* to unknown.
PersistedUsageSurvives ==
  [][\A r \in Requests : status[r] = "settlement_failed" /\ known[r] =>
       known'[r] /\ usage'[r] = usage[r]]_vars

\* The accounting implements the abstract account: locks, retries, lost
\* acknowledgements, crashes and the worker are steps that nobody sees there, and
\* every other one holds Tokens, refuses, charges or grants as it allows.
EntryOf(r) ==
  CASE status[r] \in Unsettled ->
         [state |-> "held", period |-> bound[r], tokens |-> hold[r]]
    [] status[r] = "settled" ->
         [state |-> "paid", period |-> bound[r], tokens |-> charged[r]]
    [] status[r] = "rejected" -> [state |-> "refused"]
    [] OTHER -> [state |-> "none"]

Account == INSTANCE TokenAccount WITH entry <- [r \in Requests |-> EntryOf(r)]

ImplementsAccount == Account!Spec

\* The worker settles every request whose settlement failed.
FailedGetsSettled ==
  \A r \in Requests : status[r] = "settlement_failed" ~> status[r] = "settled"

\* A failed settlement without known usage is closed by consuming its
\* reservation, whatever other requests wait for the worker (the comment of
\* resolveUnknownGatewayUsageOnClient).
UnknownGetsConsumed ==
  \A r \in Requests : status[r] = "settlement_failed" /\ ~ known[r]
                        ~> status[r] = "settled"

\* Every admitted request is settled or handed to the worker.
AdmittedGetsFinalized ==
  \A r \in Requests : status[r] \in {"reserved", "streaming"}
                        ~> status[r] \in {"settlement_failed", "settled"}

=============================================================================
