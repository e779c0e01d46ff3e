----------------------- MODULE SubscriptionLifecycle -----------------------
(***************************************************************************)
(* The subscriptions of the platform users and their monthly periods       *)
(* (subscriptions/service.ts, subscriptions/period-worker.ts).  Users and  *)
(* administrators send commands that name the row version they have seen;  *)
(* a worker that is called from outside advances what is due.  Every       *)
(* operation is one transaction on the locked row, so it is one action;    *)
(* what a reader has seen before it, and what a run of the worker keeps    *)
(* between two transactions, is state.                                     *)
(*                                                                         *)
(* Time is counted in months: period n of a subscription anchored at a is  *)
(* [a + n, a + n + 1), the calendar being that of CycleCalendar.  A stored *)
(* boundary is "exact" when it is a whole number of milliseconds.          *)
(***************************************************************************)
EXTENDS Naturals, FiniteSets

CONSTANTS
  Users,
  Subs,        \* bound: the subscription rows there can be
  Versions,    \* the published versions of plans; a version stays published
  Priced,      \* those with a price
  Trials,      \* those with trial days
  FreeVersion, \* the version the provisioner gives to a new user
  Scheduled,   \* rows kept from before with a cancellation at their period end,
               \* with their users: no operation makes such a row any more
  Provisioned, \* the users the provisioner runs for
  Keys,        \* bound: the idempotency keys the clients make up
  Lockable,    \* the rows that other open transactions may be found holding
  Workers,     \* concurrent calls of the period worker
  MaxTime,     \* bound on the clock
  None

ASSUME SubscriptionAssumption ==
  /\ Priced \subseteq Versions /\ Trials \subseteq Versions
  /\ FreeVersion \in Versions \ Priced /\ Provisioned \subseteq Users
  /\ Lockable \subseteq Subs
  /\ DOMAIN Scheduled \subseteq Subs /\ IsFiniteSet(DOMAIN Scheduled)
  /\ \A s \in DOMAIN Scheduled : Scheduled[s] \in Users
  /\ \A s, t \in DOMAIN Scheduled : Scheduled[s] = Scheduled[t] => s = t
  /\ MaxTime \in Nat
  /\ None \notin Users \cup Subs \cup Versions \cup Workers

VARIABLES
  now,        \* the clock
  subs,       \* subscriptions: the rows
  allowances, \* subscription_usage_allowances: who may spend in which period
  events,     \* subscription_events
  requests,   \* the commands that were sent; each may arrive late, again and again
  evaluated,  \* the keys of the users' commands between their two transactions
  runs,       \* the runs of the period worker: the time each one started at
  held        \* the rows some other open transaction holds

clientVars == <<requests, evaluated>>
subVars    == <<now, subs, allowances, events, clientVars, runs, held>>

Callable == {"trial", "active", "past_due", "paused", "cancel_at_period_end"}
Terminal == {"cancelled", "expired"}

Subscription ==
  [user : Users, version : Versions, pending : Versions \cup {None},
   status : Callable \cup Terminal, anchor : 0 .. MaxTime,
   number : 0 .. MaxTime, renewal : BOOLEAN, exact : BOOLEAN, ver : Nat \ {0}]

ASSUME NoneIsNoRow == None \notin Subscription

Row(s)        == subs[s] # None
Rows          == {s \in Subs : Row(s)}
PeriodEnd(r)  == r.anchor + r.number + 1
Due(r, at)    == PeriodEnd(r) <= at
Target(r)     == IF r.pending = None THEN r.version ELSE r.pending
KeyUsed(key)  == \E e \in events : e.key = key
CallableOf(u) == {s \in Rows : subs[s].user = u /\ subs[s].status \in Callable}
Free(s)       == s \notin held

Event(key, s, actor, number, grants) ==
  [key |-> key, sub |-> s, actor |-> actor, number |-> number, grants |-> grants]

NewRow(u, v, status, anchor, exact) ==
  [user |-> u, version |-> v, pending |-> None, status |-> status, anchor |-> anchor,
   number |-> 0, renewal |-> TRUE, exact |-> exact, ver |-> 1]

ScheduledRow(s) ==
  [NewRow(Scheduled[s], FreeVersion, "cancel_at_period_end", 0, TRUE) EXCEPT !.renewal = FALSE]

Init ==
  /\ now = 0
  /\ \E old \in SUBSET DOMAIN Scheduled :
       /\ subs = [s \in Subs |-> IF s \in old THEN ScheduledRow(s) ELSE None]
       /\ allowances = {[sub |-> s, number |-> 0, version |-> FreeVersion] : s \in old}
       /\ events = {Event(<<"before", s>>, s, "system", 0, TRUE) : s \in old}
  /\ requests = {} /\ evaluated = {}
  /\ runs = [w \in Workers |-> None]
  /\ held = {}

-----------------------------------------------------------------------------
(* What the transactions write.                                            *)

\* The trigger of the database that every UPDATE of a row must pass.
TriggerAccepts(old, new) ==
  /\ old.status \notin Terminal
  /\ new.anchor = old.anchor
  /\ new.number >= old.number
  /\ new.number = old.number => new.exact = old.exact
  /\ new.number > old.number => new.status = "active"
  /\ new.status = "past_due" /\ old.status # "past_due" =>
       /\ old.status \in {"trial", "active"} /\ Target(new) \in Priced
       /\ new.number = old.number /\ new.renewal /\ Due(new, now)
  /\ new.ver = old.ver + 1

Recorded(e) == {e}

\* An UPDATE of row s with its event, and an allowance if the period is new.
Write(s, new, key, actor, grants) ==
  /\ Free(s)
  /\ TriggerAccepts(subs[s], new)
  /\ subs' = [subs EXCEPT ![s] = new]
  /\ events' = events \cup Recorded(Event(key, s, actor, new.number, grants))
  /\ IF grants
     THEN /\ \A a \in allowances : <<a.sub, a.number>> # <<s, new.number>>
          /\ allowances' = allowances \cup
               {[sub |-> s, number |-> new.number, version |-> new.version]}
     ELSE UNCHANGED allowances

MayOwnMutant(u) == \A s \in CallableOf(u) : subs[s].status = "paused"  \* they are dormant
MayOwn(u) == CallableOf(u) = {}

\* The row is found by its id; the unique index lets one callable row per user in.
Insert(s, u, v, status, anchor, exact, key, actor) ==
  /\ ~Row(s)
  /\ MayOwn(u)
  /\ subs' = [subs EXCEPT ![s] = NewRow(u, v, status, anchor, exact)]
  /\ allowances' = allowances \cup {[sub |-> s, number |-> 0, version |-> v]}
  /\ events' = events \cup Recorded(Event(key, s, actor, 0, TRUE))

\* The period after the current one, or the one that contains the instant.
ContainingMutant(r, at) == at - r.anchor + 1             \* counted from one
Containing(r, at) == at - r.anchor
NextNumberMutant(r, at) == r.number + 1                  \* every month is granted
NextNumber(r, at) ==
  IF Containing(r, at) > r.number THEN Containing(r, at) ELSE r.number + 1

Renewed(r, at) ==
  [r EXCEPT !.version = Target(r), !.pending = None, !.status = "active",
            !.renewal = TRUE, !.number = NextNumber(r, at), !.exact = TRUE,
            !.ver = @ + 1]

-----------------------------------------------------------------------------
(* Commands.                                                               *)

MayChange(r, action) ==
  \/ action = "pause"   /\ r.status \in {"trial", "active"}
  \/ action = "resume"  /\ r.status = "paused" /\ ~Due(r, now)
  \/ action = "cancel"  /\ r.status \in Callable \cup {"expired"}
  \/ action = "revoke_cancel" /\ r.status = "cancel_at_period_end" /\ ~Due(r, now)
  \/ action = "upgrade" /\ r.status \in {"trial", "active"}

\* A change that is not a renewal leaves the boundaries to the database.
ChangedMutant(r, action, target) ==                      \* the plan changes at once
  [r EXCEPT !.ver = @ + 1,
            !.version = IF action = "upgrade" THEN target ELSE @,
            !.status = IF action = "cancel" THEN "cancelled" ELSE @]
Changed(r, action, target) ==
  LET next == [r EXCEPT !.ver = @ + 1]
  IN CASE action = "pause"  -> [next EXCEPT !.status = "paused", !.renewal = FALSE]
       [] action = "cancel" -> [next EXCEPT !.status = "cancelled",
                                            !.renewal = FALSE, !.pending = None]
       [] action = "upgrade" -> [next EXCEPT !.pending = target]
       [] OTHER -> [next EXCEPT !.status = "active", !.renewal = TRUE]

MayRenewMutant(r, actor) ==                              \* before the boundary
  /\ r.status \in {"trial", "active", "past_due"}
  /\ ~(actor = "product_user" /\ Target(r) \in Priced)
MayRenew(r, actor) ==
  /\ r.status \in {"trial", "active", "past_due"}
  /\ Due(r, now)
  /\ ~(actor = "product_user" /\ Target(r) \in Priced)

SeenMutant(s, expected) == TRUE                          \* whatever it has become
Seen(s, expected) == subs[s].ver = expected

\* transitionSubscriptionOnClient after its look-up of the key.
Transition(s, action, target, expected, key, actor) ==
  /\ Row(s) /\ Seen(s, expected)
  /\ \/ /\ action = "renew" /\ MayRenew(subs[s], actor)
        /\ Write(s, Renewed(subs[s], now), key, actor, TRUE)
     \/ /\ MayChange(subs[s], action)
        /\ Write(s, Changed(subs[s], action, target), key, actor, FALSE)

\* activateSubscriptionOnClient after its look-up of the key.
Activate(s, u, v, trial, anchor, key, actor) ==
  /\ ~(actor = "product_user" /\ v \in Priced)
  /\ Insert(s, u, v, IF trial /\ v \in Trials THEN "trial" ELSE "active",
            anchor, TRUE, key, actor)

Actions == {"pause", "resume", "cancel", "revoke_cancel", "upgrade", "renew"}
Actors  == {"admin", "product_user"}

Request(key, actor, action, u, s, target, expected) ==
  [key |-> key, actor |-> actor, action |-> action, user |-> u, sub |-> s,
   target |-> target, expected |-> expected, sent |-> now]

SendRequest(r) ==
  /\ \A other \in requests : other.key # r.key
  /\ requests' = requests \cup {r}
  /\ UNCHANGED <<now, subs, allowances, events, evaluated, runs, held>>

\* A client has read row s and sends a command for that version of it.  A user
\* is shown the callable row, and gets a receipt for the version alone.
Send(key, actor, action, s, target) ==
  /\ Row(s)
  /\ actor = "product_user" => subs[s].status \in Callable
  /\ target # None <=> action = "upgrade"
  /\ SendRequest(Request(key, actor, action, subs[s].user, s, target, subs[s].ver))

SendCreate(key, actor, u, v) ==
  SendRequest(Request(key, actor, "create", u, None, v, None))

\* The check of executeProductSubscriptionCommand, in a transaction of its own.
Allowed(r) ==
  IF r.action = "create" THEN CallableOf(r.user) = {}
  ELSE \E s \in CallableOf(r.user) :
         /\ subs[s].ver = r.expected
         /\ CASE r.action = "renew" ->
                   subs[s].status \in {"trial", "active", "past_due"} /\ Due(subs[s], now)
              [] r.action = "upgrade" ->
                   /\ subs[s].status \in {"trial", "active"}
                   /\ subs[s].pending = None /\ r.target # subs[s].version
              [] r.action = "cancel" -> subs[s].status \in {"trial", "active"}
              [] OTHER -> MayChange(subs[s], r.action)

\* A receipt is good for minutes.  A command that is refused changes nothing.
Evaluate(r) ==
  /\ r \in requests /\ r.actor = "product_user" /\ r.sent = now
  /\ Allowed(r)
  /\ evaluated' = evaluated \cup {r.key}
  /\ UNCHANGED <<now, subs, allowances, events, requests, runs, held>>

\* The command itself: at once for an administrator, after the check for a user.
Arrives(r) ==
  /\ r \in requests
  /\ r.actor = "product_user" => r.key \in evaluated
  /\ evaluated' = evaluated \ {r.key}
  /\ UNCHANGED <<now, requests, runs, held>>

\* An administrator names the row; a user's command is for whatever row of the
\* user is callable when it arrives.
Addressed(r, s) ==
  IF r.actor = "admin" THEN s = r.sub ELSE s \in CallableOf(r.user)

Execute(r, s) ==
  /\ Arrives(r) /\ ~KeyUsed(r.key)
  /\ r.action # "create" /\ Addressed(r, s)
  /\ Transition(s, r.action, r.target, r.expected, r.key, r.actor)

\* A user starts now and in the trial; an administrator chooses both.
ExecuteCreate(r, s, trial, anchor) ==
  /\ Arrives(r) /\ ~KeyUsed(r.key)
  /\ r.action = "create"
  /\ r.actor = "product_user" => trial /\ anchor = now
  /\ Activate(s, r.user, r.target, trial, anchor, r.key, r.actor)

\* The key is known: the original result is read back.
Replay(r) ==
  /\ Arrives(r) /\ KeyUsed(r.key)
  /\ UNCHANGED <<subs, allowances, events>>

\* provision_default_free_subscription, when the row of the user is inserted:
\* the boundaries come from clock_timestamp(), in microseconds.
Provision(u, s) ==
  /\ \A t \in Rows : subs[t].user # u
  /\ Insert(s, u, FreeVersion, "active", now, FALSE, <<"default-free", u>>, "system")
  /\ UNCHANGED <<now, clientVars, runs, held>>

-----------------------------------------------------------------------------
(* The period worker.                                                      *)

\* What advanceSubscriptionPeriodOnClient makes of a due row.  It writes the
\* boundaries back from JavaScript dates, so they are whole milliseconds then.
Lapse(r, status, renewal, pending) ==
  [r EXCEPT !.status = status, !.renewal = renewal, !.pending = pending,
            !.exact = TRUE, !.ver = @ + 1]

GrantsMutant(r) == r.status \in {"active", "trial"} /\ r.renewal  \* for nothing
Grants(r) ==
  r.status \in {"active", "trial"} /\ r.renewal /\ Target(r) \notin Priced

Advanced(r, at) ==
  CASE r.status = "cancel_at_period_end" -> Lapse(r, "cancelled", FALSE, None)
    [] Grants(r) -> Renewed(r, at)
    [] r.status \in {"active", "trial"} /\ r.renewal /\ ~Grants(r) ->
         [Lapse(r, "past_due", TRUE, r.pending) EXCEPT !.version = Target(r)]
    [] OTHER -> Lapse(r, "expired", FALSE, None)

Advance(s, at, key) ==
  /\ ~KeyUsed(key)
  /\ Due(subs[s], at)
  /\ Write(s, Advanced(subs[s], at), key, "system", Grants(subs[s]))

BoundaryKey(s) == <<"subscription-period", s, subs[s].number + 1>>

WorkerStart(w) ==
  /\ runs[w] = None
  /\ runs' = [runs EXCEPT ![w] = now]
  /\ UNCHANGED <<now, subs, allowances, events, clientVars, held>>

DueRowsMutant(at) ==                                     \* paused rows are left alone
  {s \in Rows : Due(subs[s], at) /\ subs[s].status \in {"trial", "active"}}
DueRows(at) ==
  {s \in Rows : Due(subs[s], at) /\ subs[s].status \in Callable \ {"past_due"}}

\* ORDER BY current_period_end, id among the rows nobody holds.
Oldest(S) == {s \in S : \A t \in S : PeriodEnd(subs[s]) <= PeriodEnd(subs[t])}
Picked(w) == Oldest(DueRows(runs[w]) \ held)

WorkerAdvance(w, s) ==
  /\ runs[w] # None /\ s \in Picked(w)
  /\ Advance(s, runs[w], BoundaryKey(s))
  /\ UNCHANGED <<now, clientVars, runs, held>>

\* The run is over: nothing is left, or the row it picked cannot be written
\* and the error leaves advanceDueSubscriptions.
Throws(w, s) == ~TriggerAccepts(subs[s], Advanced(subs[s], runs[w]))

WorkerEnd(w) ==
  /\ runs[w] # None
  /\ Picked(w) = {} \/ \E s \in Picked(w) : Throws(w, s)
  /\ runs' = [runs EXCEPT ![w] = None]
  /\ UNCHANGED <<now, subs, allowances, events, clientVars, held>>

\* An open transaction takes the lock of a row and gives it back.
Hold(s) ==
  /\ s \in Lockable /\ Row(s) /\ Free(s)
  /\ held' = held \cup {s}
  /\ UNCHANGED <<now, subs, allowances, events, clientVars, runs>>

Release(s) ==
  /\ s \in held
  /\ held' = held \ {s}
  /\ UNCHANGED <<now, subs, allowances, events, clientVars, runs>>

Tick ==
  /\ now < MaxTime
  /\ now' = now + 1
  /\ UNCHANGED <<subs, allowances, events, clientVars, runs, held>>

-----------------------------------------------------------------------------

\* A call of the worker.
Work(w) ==
  \/ WorkerStart(w)
  \/ \E s \in Subs : WorkerAdvance(w, s)
  \/ WorkerEnd(w)

Client ==
  \/ \E key \in Keys, actor \in Actors, action \in Actions, s \in Subs,
        target \in Versions \cup {None} : Send(key, actor, action, s, target)
  \/ \E key \in Keys, actor \in Actors, u \in Users, v \in Versions :
        SendCreate(key, actor, u, v)
  \/ \E r \in requests :
       \/ Evaluate(r)
       \/ \E s \in Subs : Execute(r, s)
       \/ \E s \in Subs, trial \in BOOLEAN, anchor \in 0 .. MaxTime :
            ExecuteCreate(r, s, trial, anchor)
       \/ Replay(r)

SubscriptionNext ==
  \/ Client
  \/ \E u \in Provisioned, s \in Subs : Provision(u, s)
  \/ \E w \in Workers : Work(w)
  \/ \E s \in Subs : Hold(s) \/ Release(s)
  \/ Tick

Spec == Init /\ [][SubscriptionNext]_subVars

\* The worker is called again and again and its calls return.  Nothing is asked of
\* clients, of the clock, or of the transactions that hold rows.
Fairness == \A w \in Workers : WF_subVars(Work(w))

FairSpec == Spec /\ Fairness

-----------------------------------------------------------------------------
(* What holds in every state.                                              *)

\* Rows, allowances, events and requests have the shape the schema gives them.
TypeOK ==
  /\ now \in 0 .. MaxTime
  /\ subs \in [Subs -> Subscription \cup {None}]
  /\ \A a \in allowances :
       /\ a.sub \in Rows /\ a.version \in Versions /\ a.number \in 0 .. MaxTime
  /\ \A e \in events :
       /\ e.sub \in Rows /\ e.grants \in BOOLEAN
       /\ e.actor \in Actors \cup {"system", "payment_adapter"}
  /\ \A r \in requests : r.key \in Keys /\ r.actor \in Actors
  /\ evaluated \subseteq Keys
  /\ runs \in [Workers -> {None} \cup 0 .. now]
  /\ held \subseteq Rows

\* Creations, renewals and the provisioner never leave a user with two callable
\* subscriptions, whatever commands are in flight.
OneCallable == \A u \in Users : Cardinality(CallableOf(u)) <= 1

\* The current period of every row has its one allowance, nothing has been
\* granted beyond it, and as long as it can be spent it is the allowance of the
\* row's own version.
CurrentPeriodIsFunded ==
  \A s \in Rows :
    LET granted == {a \in allowances : a.sub = s}
    IN /\ Cardinality({a \in granted : a.number = subs[s].number}) = 1
       /\ \A a \in granted : a.number <= subs[s].number
       /\ \A a \in granted :
            a.number = subs[s].number /\ a.version # subs[s].version =>
              subs[s].status \in Terminal \cup {"past_due"}

\* Every allowance goes back to one event.  Tokens of a priced version never
\* come from the boundary alone nor from a command of the user, only from an
\* administrator or from a verified payment.
GrantsAreAccountedFor ==
  \A a \in allowances :
    \E e \in events :
      /\ e.sub = a.sub /\ e.number = a.number /\ e.grants
      /\ a.version \in Priced => e.actor \in {"admin", "payment_adapter"}
      /\ \A f \in events :
           f.sub = a.sub /\ f.number = a.number /\ f.grants => f = e

\* Allowances are just: every running period has its one, and none is without its
\* event.
AllowancesAreJust ==
  /\ CurrentPeriodIsFunded
  /\ GrantsAreAccountedFor

\* The optimistic version of a row counts its events: no change of a row goes
\* unrecorded, and no repeated command or boundary changes it twice.
VersionCountsEvents ==
  \A s \in Rows : subs[s].ver = Cardinality({e \in events : e.sub = s})

\* The tables are what the schema and its unique indexes demand, and what happened
\* to a row is in them.
TablesAreSound == TypeOK /\ OneCallable /\ VersionCountsEvents

(* What a step may not do.                                                 *)

\* A renewal grants a period that has begun and that was not over when the
\* clock was read for it: nothing early, nothing for the months in between.
GrantsTheRunningPeriod ==
  [][\A a \in allowances' \ allowances :
       a.number > 0 =>
         LET r == subs'[a.sub]
         IN /\ r.anchor + a.number <= now
            /\ \/ PeriodEnd(r) > now
               \/ \E w \in Workers : runs[w] # None /\ PeriodEnd(r) > runs[w]]_subVars

\* Until its boundary a row keeps its version and its period: a change of plan
\* waits, and a paused row that was not resumed in time ends instead of renewing.
ChangesWaitForTheBoundary ==
  [][\A s \in Rows :
       /\ ~Due(subs[s], now) =>
            subs'[s].version = subs[s].version /\ subs'[s].number = subs[s].number
       /\ subs[s].status = "paused" =>
            /\ subs'[s].number = subs[s].number
            /\ Due(subs[s], now) => subs'[s].status # "active"]_subVars

\* What a boundary brings comes at the boundary: neither before it nor for one that
\* has been passed over.
BoundariesAreKept == GrantsTheRunningPeriod /\ ChangesWaitForTheBoundary

(* What happens in the end.                                                *)

Lagging(s) ==
  Row(s) /\ Due(subs[s], now) /\ subs[s].status \in Callable \ {"past_due"}

\* With the worker called regularly every due row is renewed, asked to pay, or
\* ended, although other calls run and other rows may stay locked for ever.
DueIsAdvanced == \A s \in Subs \ Lockable : Lagging(s) ~> ~Lagging(s)

(* What the repository says and the code does not do.                      *)

\* "Only renew may rewrite the boundaries": whatever is due and is not renewed
\* keeps its boundaries as the database has them.
OnlyRenewalRewritesBoundaries ==
  \A s \in Rows :
    Lagging(s) /\ ~Grants(subs[s]) => Advanced(subs[s], now).exact = subs[s].exact

\* A row that cannot be advanced does not keep the others from it.
OthersAreAdvanced ==
  \A s \in Subs : Lagging(s) /\ subs[s].exact ~> ~(Lagging(s) /\ subs[s].exact)

\* A user's command that was applied gets past the check when it is repeated
\* while its receipt is good, so that the original result is replayed.
AppliedIsReplayed ==
  \A r \in requests :
    r.actor = "product_user" /\ r.sent = now /\ KeyUsed(r.key) => Allowed(r)

\* A command for a row changes the row the user was shown, or nothing.
CommandReachesItsRow ==
  \A r \in requests, e \in events :
    r.action # "create" /\ e.key = r.key => e.sub = r.sub

\* "Access continues until the current period boundary."
CancelKeepsAccess ==
  [][\A s \in Rows, r \in requests :
       /\ subs[s].status \in {"trial", "active"} /\ ~Due(subs[s], now)
       /\ r.action = "cancel" /\ r.actor = "product_user"
       /\ KeyUsed(r.key)' /\ ~KeyUsed(r.key)
       => subs'[s].status # "cancelled"]_subVars
=============================================================================
