------------------------- MODULE SubscriptionProofs -------------------------
(***************************************************************************)
(* Theorems about SubscriptionLifecycle and, on top of it,                 *)
(* SubscriptionPayments, for any users, rows, versions, keys, calls of the *)
(* worker, payments and length of time.                                    *)
(*                                                                         *)
(* Every step that writes is one of two things: it makes a row (Creation)  *)
(* or writes a successor of an existing one (Change).  What a successor    *)
(* may look like is stated once (Follows), with a lemma for each function  *)
(* that computes one; the invariants are then proved for the two kinds of  *)
(* step and for all the others, which leave the tables alone.  Payments    *)
(* add steps of the same two kinds, and the notes of adjustments.          *)
(***************************************************************************)
EXTENDS SubscriptionPayments, FiniteSetTheorems, TLAPS

Requests ==
  [key : Keys, actor : Actors, action : Actions \cup {"create"}, user : Users,
   sub : Subs \cup {None}, target : Versions \cup {None},
   expected : Nat \cup {None}, sent : Nat]

\* TypeOK, and what the commands in flight and the events look like.
TypeInv ==
  /\ TypeOK
  /\ requests \subseteq Requests
  /\ \A r \in requests : r.action = "create" => r.target \in Versions
  /\ IsFiniteSet(events)

\* How a row may follow another: in a later period with a grant, or in the same
\* one, where it keeps its version unless it is asked to pay for another.
Follows(old, new, grants) ==
  /\ new \in Subscription
  /\ new.user = old.user
  /\ grants \in BOOLEAN
  /\ grants => new.number > old.number
  /\ ~grants =>
       /\ new.number = old.number
       /\ new.version = old.version \/ new.status = "past_due"
       /\ old.status = "past_due" => new.status \in Terminal

\* The instant an operation takes for the present: the clock's, or for a call of the
\* worker that at which it started.
Instant(at) ==
  at \in 0 .. now /\ (at = now \/ \E w \in Workers : runs[w] # None /\ at = runs[w])

\* What a boundary brings comes at the boundary, and a grant is for the period that
\* contains the instant.
KeepsBoundary(old, new, grants) ==
  /\ ~Due(old, now) => new.version = old.version /\ new.number = old.number
  /\ old.status = "paused" =>
       new.number = old.number /\ (Due(old, now) => new.status # "active")
  /\ grants => \E at : Instant(at) /\ new.anchor + new.number = at

\* Who may grant the period of a version.
Granter(actor, version) ==
  /\ actor \in Actors \cup {"system", "payment_adapter"}
  /\ version \in Priced => actor \in {"admin", "payment_adapter"}

\* The two kinds of step that write.
Change(s, new, key, actor, grants) ==
  /\ s \in Rows
  /\ ~KeyUsed(key)
  /\ Follows(subs[s], new, grants) /\ KeepsBoundary(subs[s], new, grants)
  /\ actor \in Actors \cup {"system", "payment_adapter"}
  /\ grants => Granter(actor, new.version)
  /\ Write(s, new, key, actor, grants)

Creation(s, u, v, status, anchor, exact, key, actor) ==
  /\ s \in Subs /\ u \in Users /\ v \in Versions
  /\ status \in {"trial", "active"} /\ anchor \in 0 .. MaxTime /\ exact \in BOOLEAN
  /\ Granter(actor, v)
  /\ Insert(s, u, v, status, anchor, exact, key, actor)

Changes ==
  \E s \in Subs, new \in Subscription, grants \in BOOLEAN :
    \E key, actor : Change(s, new, key, actor, grants)

Creates ==
  \E s \in Subs, u \in Users, v \in Versions, status \in {"trial", "active"},
     anchor \in 0 .. MaxTime, exact \in BOOLEAN :
    \E key, actor : Creation(s, u, v, status, anchor, exact, key, actor)

Quiet == UNCHANGED <<subs, allowances, events>>

-----------------------------------------------------------------------------
(* The functions that compute a row.                                       *)

LEMMA RowFacts ==
  ASSUME TypeOK, NEW s \in Rows
  PROVE  s \in Subs /\ subs[s] \in Subscription
BY DEF TypeOK, Rows, Row

\* The version the next period is for is a version.
LEMMA TargetIsVersion ==
  ASSUME NEW r \in Subscription
  PROVE  Target(r) \in Versions
BY DEF Target, Subscription

\* A renewal at or after the boundary leads to a later period that exists.
LEMMA RenewedFollows ==
  ASSUME NEW r \in Subscription, NEW at \in 0 .. MaxTime, Due(r, at)
  PROVE  /\ Follows(r, Renewed(r, at), TRUE)
         /\ Renewed(r, at).version = Target(r)
<1>1. /\ r.number \in 0 .. MaxTime /\ r.anchor \in 0 .. MaxTime
      /\ r.anchor + r.number + 1 <= at
  BY SubscriptionAssumption DEF Subscription, Due, PeriodEnd
<1>2. NextNumber(r, at) \in 0 .. MaxTime /\ NextNumber(r, at) > r.number
  BY <1>1, SubscriptionAssumption DEF NextNumber, Containing
<1>3. Target(r) \in Versions
  BY TargetIsVersion
<1>4. ASSUME NEW version \in Versions, NEW number \in 0 .. MaxTime, NEW ver \in Nat \ {0}
      PROVE  [r EXCEPT !.version = version, !.pending = None, !.status = "active",
                       !.renewal = TRUE, !.number = number, !.exact = TRUE,
                       !.ver = ver] \in Subscription
  BY Zenon DEF Subscription, Callable
<1>5. r.ver + 1 \in Nat \ {0}
  BY DEF Subscription
<1>6. Renewed(r, at) \in Subscription
  BY <1>2, <1>3, <1>4, <1>5, Zenon DEF Renewed
<1> QED
  BY <1>2, <1>6 DEF Follows, Renewed, Subscription

\* A command that is no renewal keeps the period and the version of the row.
LEMMA ChangedFollows ==
  ASSUME NEW r \in Subscription, NEW action \in Actions,
         NEW target \in Versions \cup {None}, MayChange(r, action)
  PROVE  Follows(r, Changed(r, action, target), FALSE)
<1> DEFINE New(status, renewal, pending) ==
      [user |-> r.user, version |-> r.version, pending |-> pending,
       status |-> status, anchor |-> r.anchor, number |-> r.number,
       renewal |-> renewal, exact |-> r.exact, ver |-> r.ver + 1]
<1>1. ASSUME NEW status \in Callable \cup Terminal, NEW renewal \in BOOLEAN,
             NEW pending \in Versions \cup {None},
             r.status = "past_due" => status \in Terminal
      PROVE  Follows(r, New(status, renewal, pending), FALSE)
  BY <1>1 DEF Follows, Subscription
<1>2. \/ /\ action = "pause"
         /\ Changed(r, action, target) = New("paused", FALSE, r.pending)
         /\ r.status # "past_due"
      \/ /\ action = "cancel"
         /\ Changed(r, action, target) = New("cancelled", FALSE, None)
      \/ /\ action = "upgrade"
         /\ Changed(r, action, target) = New(r.status, r.renewal, target)
         /\ r.status # "past_due"
      \/ /\ Changed(r, action, target) = New("active", TRUE, r.pending)
         /\ r.status # "past_due"
  BY DEF Changed, MayChange, Subscription, Actions
<1>3. r.status \in Callable \cup Terminal /\ r.renewal \in BOOLEAN
      /\ r.pending \in Versions \cup {None}
  BY DEF Subscription
<1> QED
  BY <1>1, <1>2, <1>3 DEF Callable, Terminal

\* The boundary renews for free, asks to pay, or ends the row.
LEMMA AdvancedFollows ==
  ASSUME NEW r \in Subscription, NEW at \in 0 .. MaxTime, Due(r, at)
  PROVE  /\ Follows(r, Advanced(r, at), Grants(r))
         /\ Grants(r) => Advanced(r, at).version \notin Priced
<1>1. CASE Grants(r)
  <2>1. Advanced(r, at) = Renewed(r, at)
    BY <1>1 DEF Advanced, Grants
  <2>2. Target(r) \notin Priced
    BY <1>1 DEF Grants
  <2> QED
    BY <1>1, <2>1, <2>2, RenewedFollows
<1>2. CASE ~Grants(r)
  <2>1. \/ Advanced(r, at) = Lapse(r, "cancelled", FALSE, None)
        \/ /\ Advanced(r, at) = [Lapse(r, "past_due", TRUE, r.pending) EXCEPT !.version = Target(r)]
           /\ r.status # "past_due"
        \/ Advanced(r, at) = Lapse(r, "expired", FALSE, None)
    BY <1>2 DEF Advanced
  <2>2. r.ver + 1 \in Nat \ {0} /\ Target(r) \in Versions /\ r.pending \in Versions \cup {None}
    BY TargetIsVersion DEF Subscription
  <2>3. ASSUME NEW status \in Callable \cup Terminal, NEW renewal \in BOOLEAN,
               NEW pending \in Versions \cup {None}
        PROVE  /\ Lapse(r, status, renewal, pending) \in Subscription
               /\ [Lapse(r, status, renewal, pending) EXCEPT !.version = Target(r)] \in Subscription
    BY <2>2, Zenon DEF Lapse, Subscription
  <2>4. Advanced(r, at) \in Subscription
    <3>1. /\ "cancelled" \in Callable \cup Terminal /\ "past_due" \in Callable \cup Terminal
          /\ "expired" \in Callable \cup Terminal
      BY DEF Callable, Terminal
    <3>2. /\ Lapse(r, "cancelled", FALSE, None) \in Subscription
          /\ Lapse(r, "expired", FALSE, None) \in Subscription
          /\ [Lapse(r, "past_due", TRUE, r.pending) EXCEPT !.version = Target(r)] \in Subscription
      BY <2>2, <2>3, <3>1, Zenon
    <3> QED
      BY <2>1, <3>2, Zenon
  <2>5. /\ Advanced(r, at).user = r.user /\ Advanced(r, at).number = r.number
        /\ Advanced(r, at).version = r.version \/ Advanced(r, at).status = "past_due"
        /\ r.status = "past_due" => Advanced(r, at).status \in Terminal
    <3>1. CASE Advanced(r, at) = Lapse(r, "cancelled", FALSE, None)
      BY <3>1 DEF Lapse, Subscription, Terminal
    <3>2. CASE Advanced(r, at) = Lapse(r, "expired", FALSE, None)
      BY <3>2 DEF Lapse, Subscription, Terminal
    <3>3. CASE /\ Advanced(r, at) = [Lapse(r, "past_due", TRUE, r.pending) EXCEPT !.version = Target(r)]
               /\ r.status # "past_due"
      BY <3>3 DEF Lapse, Subscription
    <3> QED
      BY <2>1, <3>1, <3>2, <3>3
  <2> QED
    BY <1>2, <2>4, <2>5 DEF Follows, Grants
<1> QED
  BY <1>1, <1>2

LEMMA RenewedKeeps ==
  ASSUME NEW r \in Subscription, now \in 0 .. MaxTime, NEW at, Instant(at), Due(r, at),
         r.status # "paused"
  PROVE  KeepsBoundary(r, Renewed(r, at), TRUE)
<1>1. /\ r.number \in Nat /\ r.anchor \in Nat /\ at \in Nat /\ now \in Nat
      /\ r.anchor + r.number + 1 <= at /\ at <= now
  BY SubscriptionAssumption DEF Subscription, Due, PeriodEnd, Instant
<1>2. Due(r, now)
  BY <1>1 DEF Due, PeriodEnd
<1>3. Renewed(r, at).anchor = r.anchor /\ Renewed(r, at).number = NextNumber(r, at)
  BY DEF Renewed, Subscription
<1>4. r.anchor + NextNumber(r, at) = at
  BY <1>1 DEF NextNumber, Containing
<1> QED
  BY <1>2, <1>3, <1>4 DEF KeepsBoundary

LEMMA ChangedKeeps ==
  ASSUME NEW r \in Subscription, NEW action \in Actions,
         NEW target \in Versions \cup {None}, MayChange(r, action)
  PROVE  KeepsBoundary(r, Changed(r, action, target), FALSE)
<1>1. /\ Changed(r, action, target).version = r.version
      /\ Changed(r, action, target).number = r.number
  BY DEF Changed, Subscription
<1>2. r.status = "paused" /\ Due(r, now) => Changed(r, action, target).status # "active"
  BY DEF Changed, MayChange, Subscription
<1> QED
  BY <1>1, <1>2 DEF KeepsBoundary

LEMMA AdvancedKeeps ==
  ASSUME NEW r \in Subscription, now \in 0 .. MaxTime, NEW at, Instant(at), Due(r, at)
  PROVE  KeepsBoundary(r, Advanced(r, at), Grants(r))
<1>1. CASE Grants(r)
  <2>1. Advanced(r, at) = Renewed(r, at) /\ r.status # "paused"
    BY <1>1 DEF Advanced, Grants
  <2>2. KeepsBoundary(r, Renewed(r, at), TRUE)
    BY <2>1, RenewedKeeps
  <2> QED
    BY <1>1, <2>1, <2>2 DEF KeepsBoundary
<1>2. CASE ~Grants(r)
  <2>1. Due(r, now)
    BY SubscriptionAssumption DEF Due, PeriodEnd, Instant, Subscription
  <2>2. Advanced(r, at).number = r.number
    BY <1>2 DEF Advanced, Lapse, Subscription
  <2>3. r.status = "paused" => Advanced(r, at).status # "active"
    BY <1>2 DEF Advanced, Lapse, Subscription
  <2> QED
    BY <1>2, <2>1, <2>2, <2>3 DEF KeepsBoundary
<1> QED
  BY <1>1, <1>2

-----------------------------------------------------------------------------
(* Every step makes a row, writes a successor of one, or writes no table.   *)

LEMMA TransitionChanges ==
  ASSUME TypeInv, NEW s \in Subs, NEW action \in Actions,
         NEW target \in Versions \cup {None}, NEW expected, NEW key,
         NEW actor \in Actors \cup {"payment_adapter"}, ~KeyUsed(key),
         Transition(s, action, target, expected, key, actor)
  PROVE  Changes
<1>1. s \in Rows /\ subs[s] \in Subscription /\ now \in 0 .. MaxTime
  BY RowFacts DEF Transition, Rows, TypeInv, TypeOK
<1>2. CASE MayRenew(subs[s], actor) /\ Write(s, Renewed(subs[s], now), key, actor, TRUE)
  <2>1. Due(subs[s], now) /\ (Target(subs[s]) \in Priced => actor # "product_user")
    BY <1>2 DEF MayRenew
  <2>2. Follows(subs[s], Renewed(subs[s], now), TRUE)
        /\ Renewed(subs[s], now).version = Target(subs[s])
    BY <1>1, <2>1, RenewedFollows
  <2>3. Granter(actor, Renewed(subs[s], now).version)
    BY <2>1, <2>2 DEF Granter, Actors
  <2>4. Instant(now) /\ subs[s].status # "paused"
    BY <1>1, <1>2, SubscriptionAssumption DEF Instant, MayRenew
  <2>5. KeepsBoundary(subs[s], Renewed(subs[s], now), TRUE)
    BY <1>1, <2>1, <2>4, RenewedKeeps
  <2>6. Change(s, Renewed(subs[s], now), key, actor, TRUE)
    BY <1>1, <1>2, <2>2, <2>3, <2>5 DEF Change
  <2> QED
    BY <2>2, <2>6 DEF Changes, Follows
<1>3. CASE MayChange(subs[s], action)
           /\ Write(s, Changed(subs[s], action, target), key, actor, FALSE)
  <2>1. /\ Follows(subs[s], Changed(subs[s], action, target), FALSE)
        /\ KeepsBoundary(subs[s], Changed(subs[s], action, target), FALSE)
    BY <1>1, <1>3, ChangedFollows, ChangedKeeps
  <2>2. Change(s, Changed(subs[s], action, target), key, actor, FALSE)
    BY <1>1, <1>3, <2>1 DEF Change
  <2> QED
    BY <2>1, <2>2 DEF Changes, Follows
<1> QED
  BY <1>2, <1>3 DEF Transition

LEMMA ActivateCreates ==
  ASSUME TypeInv, NEW s \in Subs, NEW u \in Users, NEW v \in Versions,
         NEW trial \in BOOLEAN, NEW anchor \in 0 .. MaxTime, NEW key,
         NEW actor \in Actors \cup {"payment_adapter"},
         Activate(s, u, v, trial, anchor, key, actor)
  PROVE  Creates
<1> DEFINE status == IF trial /\ v \in Trials THEN "trial" ELSE "active"
<1>1. Granter(actor, v)
  BY DEF Activate, Granter, Actors
<1>2. status \in {"trial", "active"}
  OBVIOUS
<1>3. Creation(s, u, v, status, anchor, TRUE, key, actor)
  BY <1>1, <1>2 DEF Creation, Activate
<1> QED
  BY <1>2, <1>3 DEF Creates

LEMMA AdvanceChanges ==
  ASSUME TypeInv, NEW s \in Rows, NEW at, Instant(at), NEW key, Advance(s, at, key)
  PROVE  Changes
<1>1. /\ s \in Subs /\ subs[s] \in Subscription
      /\ now \in 0 .. MaxTime /\ at \in 0 .. MaxTime
  BY RowFacts, SubscriptionAssumption DEF TypeInv, TypeOK, Instant
<1>2. /\ Follows(subs[s], Advanced(subs[s], at), Grants(subs[s]))
      /\ Grants(subs[s]) => Advanced(subs[s], at).version \notin Priced
  BY <1>1, AdvancedFollows DEF Advance
<1>3. KeepsBoundary(subs[s], Advanced(subs[s], at), Grants(subs[s]))
  BY <1>1, AdvancedKeeps DEF Advance
<1>4. Change(s, Advanced(subs[s], at), key, "system", Grants(subs[s]))
  BY <1>2, <1>3 DEF Change, Advance, Granter
<1> QED
  BY <1>1, <1>2, <1>4 DEF Changes, Follows

LEMMA StepKinds ==
  ASSUME TypeInv, [SubscriptionNext]_subVars
  PROVE  Quiet \/ Changes \/ Creates
<1>1. CASE UNCHANGED subVars
  BY <1>1 DEF subVars, Quiet
<1>2. CASE Client
  <2>1. ASSUME NEW key \in Keys, NEW actor \in Actors, NEW action \in Actions,
               NEW s \in Subs, NEW target \in Versions \cup {None},
               Send(key, actor, action, s, target)
        PROVE  Quiet
    BY <2>1 DEF Send, SendRequest, Quiet
  <2>2. ASSUME NEW key \in Keys, NEW actor \in Actors, NEW u \in Users,
               NEW v \in Versions, SendCreate(key, actor, u, v)
        PROVE  Quiet
    BY <2>2 DEF SendCreate, SendRequest, Quiet
  <2>3. ASSUME NEW r \in requests, Evaluate(r)
        PROVE  Quiet
    BY <2>3 DEF Evaluate, Quiet
  <2>4. ASSUME NEW r \in requests, NEW s \in Subs, Execute(r, s)
        PROVE  Changes
    <3>1. /\ r.action \in Actions /\ r.target \in Versions \cup {None}
          /\ r.actor \in Actors \cup {"payment_adapter"}
      BY <2>4 DEF TypeInv, Requests, Execute
    <3> QED
      BY <2>4, <3>1, TransitionChanges DEF Execute
  <2>5. ASSUME NEW r \in requests, NEW s \in Subs, NEW trial \in BOOLEAN,
               NEW anchor \in 0 .. MaxTime, ExecuteCreate(r, s, trial, anchor)
        PROVE  Creates
    <3>1. /\ r.user \in Users /\ r.target \in Versions
          /\ r.actor \in Actors \cup {"payment_adapter"}
      BY <2>5 DEF TypeInv, Requests, ExecuteCreate
    <3> QED
      BY <2>5, <3>1, ActivateCreates DEF ExecuteCreate
  <2>6. ASSUME NEW r \in requests, Replay(r)
        PROVE  Quiet
    BY <2>6 DEF Replay, Quiet
  <2> QED
    BY <1>2, <2>1, <2>2, <2>3, <2>4, <2>5, <2>6 DEF Client
<1>3. ASSUME NEW u \in Provisioned, NEW s \in Subs, Provision(u, s)
      PROVE  Creates
  <2>1. Granter("system", FreeVersion) /\ FreeVersion \in Versions
        /\ now \in 0 .. MaxTime /\ u \in Users
    BY SubscriptionAssumption DEF Granter, TypeInv, TypeOK
  <2>2. Creation(s, u, FreeVersion, "active", now, FALSE, <<"default-free", u>>, "system")
    BY <1>3, <2>1 DEF Provision, Creation
  <2> QED
    BY <2>1, <2>2 DEF Creates
<1>4. ASSUME NEW w \in Workers, Work(w)
      PROVE  Quiet \/ Changes
  <2>1. CASE WorkerStart(w) \/ WorkerEnd(w)
    BY <2>1 DEF WorkerStart, WorkerEnd, Quiet
  <2>2. ASSUME NEW s \in Subs, WorkerAdvance(w, s)
        PROVE  Changes
    <3>1. s \in Rows
      BY <2>2 DEF WorkerAdvance, Picked, Oldest, DueRows
    <3>2. Instant(runs[w])
      BY <2>2 DEF WorkerAdvance, TypeInv, TypeOK, Instant
    <3> QED
      BY <2>2, <3>1, <3>2, AdvanceChanges DEF WorkerAdvance
  <2> QED
    BY <1>4, <2>1, <2>2 DEF Work
<1>5. ASSUME NEW s \in Subs, Hold(s) \/ Release(s)
      PROVE  Quiet
  BY <1>5 DEF Hold, Release, Quiet
<1>6. CASE Tick
  BY <1>6 DEF Tick, Quiet
<1> QED
  BY <1>1, <1>2, <1>3, <1>4, <1>5, <1>6 DEF SubscriptionNext

-----------------------------------------------------------------------------
(* What the two kinds of step do to the tables.                            *)

\* The event of a write, for its fields alone.
Records(e, key, s, actor, number, grants) ==
  /\ events' = events \cup {e}
  /\ e \notin events
  /\ e.key = key /\ e.sub = s /\ e.actor = actor /\ e.number = number
  /\ e.grants \in BOOLEAN /\ e.grants = grants

LEMMA ChangeEffect ==
  ASSUME TypeInv, NEW s \in Subs, NEW new \in Subscription, NEW key, NEW actor,
         NEW grants \in BOOLEAN, Change(s, new, key, actor, grants)
  PROVE  /\ s \in Rows /\ Rows' = Rows
         /\ subs[s].status \notin Terminal
         /\ subs'[s] = new /\ \A t \in Subs \ {s} : subs'[t] = subs[t]
         /\ new.user = subs[s].user /\ new.ver = subs[s].ver + 1
         /\ \E e : Records(e, key, s, actor, new.number, grants)
         /\ subs' \in [Subs -> Subscription \cup {None}]
<1>1. subs' = [subs EXCEPT ![s] = new] /\ subs \in [Subs -> Subscription \cup {None}]
  BY DEF Change, Write, TypeInv, TypeOK
<1>2. subs'[s] = new /\ \A t \in Subs \ {s} : subs'[t] = subs[t]
  BY <1>1
<1>3. Rows' = Rows
  BY <1>1, <1>2, NoneIsNoRow DEF Rows, Row, Change
<1>4. Records(Event(key, s, actor, new.number, grants), key, s, actor, new.number, grants)
  BY DEF Change, Write, Recorded, KeyUsed, Event, Records
<1> QED
  BY <1>1, <1>2, <1>3, <1>4 DEF Change, Write, TriggerAccepts, Follows

LEMMA CreationEffect ==
  ASSUME TypeInv, NEW s, NEW u, NEW v, NEW status, NEW anchor, NEW exact, NEW key, NEW actor,
         Creation(s, u, v, status, anchor, exact, key, actor)
  PROVE  /\ s \notin Rows /\ Rows' = Rows \cup {s}
         /\ CallableOf(u) = {}
         /\ subs'[s] = NewRow(u, v, status, anchor, exact)
         /\ \A t \in Subs \ {s} : subs'[t] = subs[t]
         /\ allowances' = allowances \cup {[sub |-> s, number |-> 0, version |-> v]}
         /\ \E e : Records(e, key, s, actor, 0, TRUE)
         /\ subs' \in [Subs -> Subscription \cup {None}]
<1>1. subs' = [subs EXCEPT ![s] = NewRow(u, v, status, anchor, exact)]
      /\ subs \in [Subs -> Subscription \cup {None}]
  BY DEF Creation, Insert, TypeInv, TypeOK
<1>2. NewRow(u, v, status, anchor, exact) \in Subscription
  BY SubscriptionAssumption DEF Creation, NewRow, Subscription, Callable
<1>3. subs'[s] = NewRow(u, v, status, anchor, exact)
      /\ \A t \in Subs \ {s} : subs'[t] = subs[t]
  BY <1>1 DEF Creation
<1>4. s \notin Rows /\ Rows' = Rows \cup {s}
  BY <1>1, <1>2, <1>3, NoneIsNoRow DEF Rows, Row, Creation, Insert
<1>5. Event(key, s, actor, 0, TRUE).sub = s
  BY DEF Event
<1>6. Event(key, s, actor, 0, TRUE) \notin events
  BY <1>4, <1>5 DEF TypeInv, TypeOK
<1>7. Records(Event(key, s, actor, 0, TRUE), key, s, actor, 0, TRUE)
  BY <1>6 DEF Creation, Insert, Recorded, Event, Records
<1> QED
  BY <1>1, <1>2, <1>3, <1>4, <1>7 DEF Creation, Insert, MayOwn

-----------------------------------------------------------------------------
(* Types.                                                                  *)

LEMMA TablesTyped ==
  ASSUME TypeInv, Quiet \/ Changes \/ Creates
  PROVE  /\ subs' \in [Subs -> Subscription \cup {None}]
         /\ Rows \subseteq Rows'
         /\ \A a \in allowances' :
              a.sub \in Rows' /\ a.version \in Versions /\ a.number \in 0 .. MaxTime
         /\ \A e \in events' :
              /\ e.sub \in Rows' /\ e.grants \in BOOLEAN
              /\ e.actor \in Actors \cup {"system", "payment_adapter"}
         /\ IsFiniteSet(events')
<1>1. CASE Quiet
  BY <1>1 DEF Quiet, TypeInv, TypeOK, Rows, Row
<1>2. ASSUME NEW s \in Subs, NEW new \in Subscription, NEW key, NEW actor,
             NEW grants \in BOOLEAN, Change(s, new, key, actor, grants)
      PROVE  /\ \A a \in allowances' :
                  a.sub \in Rows /\ a.version \in Versions /\ a.number \in 0 .. MaxTime
             /\ \A e \in events' :
                  /\ e.sub \in Rows /\ e.grants \in BOOLEAN
                  /\ e.actor \in Actors \cup {"system", "payment_adapter"}
             /\ IsFiniteSet(events')
  <2>1. allowances' \subseteq
          allowances \cup {[sub |-> s, number |-> new.number, version |-> new.version]}
    BY <1>2 DEF Change, Write
  <2>2. new.version \in Versions /\ new.number \in 0 .. MaxTime
    BY DEF Subscription
  <2>3. s \in Rows /\ actor \in Actors \cup {"system", "payment_adapter"}
    BY <1>2, ChangeEffect DEF Change
  <2>4. PICK e : Records(e, key, s, actor, new.number, grants)
    BY <1>2, ChangeEffect
  <2>5. IsFiniteSet(events')
    BY <2>4, FS_AddElement DEF TypeInv, Records
  <2> QED
    BY <2>1, <2>2, <2>3, <2>4, <2>5 DEF TypeInv, TypeOK, Records
<1>3. ASSUME NEW s \in Subs, NEW u \in Users, NEW v \in Versions,
             NEW status \in {"trial", "active"}, NEW anchor \in 0 .. MaxTime,
             NEW exact \in BOOLEAN, NEW key, NEW actor,
             Creation(s, u, v, status, anchor, exact, key, actor)
      PROVE  /\ \A a \in allowances' :
                  /\ a.sub \in Rows \cup {s} /\ a.version \in Versions
                  /\ a.number \in 0 .. MaxTime
             /\ \A e \in events' :
                  /\ e.sub \in Rows \cup {s} /\ e.grants \in BOOLEAN
                  /\ e.actor \in Actors \cup {"system", "payment_adapter"}
             /\ IsFiniteSet(events')
  <2>1. allowances' = allowances \cup {[sub |-> s, number |-> 0, version |-> v]}
    BY <1>3, CreationEffect
  <2>2. PICK e : Records(e, key, s, actor, 0, TRUE)
    BY <1>3, CreationEffect
  <2>3. actor \in Actors \cup {"system", "payment_adapter"}
    BY <1>3 DEF Creation, Granter
  <2>4. IsFiniteSet(events')
    BY <2>2, FS_AddElement DEF TypeInv, Records
  <2>5. 0 \in 0 .. MaxTime
    BY SubscriptionAssumption
  <2> QED
    BY <2>1, <2>2, <2>3, <2>4, <2>5 DEF TypeInv, TypeOK, Records
<1>4. CASE Changes
  <2>1. PICK s \in Subs, new \in Subscription, grants \in BOOLEAN :
          \E key, actor : Change(s, new, key, actor, grants)
    BY <1>4 DEF Changes
  <2>2. PICK key, actor : Change(s, new, key, actor, grants)
    BY <2>1
  <2> QED
    BY <1>2, <2>2, ChangeEffect
<1>5. CASE Creates
  <2>1. PICK s \in Subs, u \in Users, v \in Versions, status \in {"trial", "active"},
             anchor \in 0 .. MaxTime, exact \in BOOLEAN :
          \E key, actor : Creation(s, u, v, status, anchor, exact, key, actor)
    BY <1>5 DEF Creates
  <2>2. PICK key, actor : Creation(s, u, v, status, anchor, exact, key, actor)
    BY <2>1
  <2>3. Rows' = Rows \cup {s} /\ subs' \in [Subs -> Subscription \cup {None}]
    BY <2>2, CreationEffect
  <2>4. /\ \A a \in allowances' :
             a.sub \in Rows \cup {s} /\ a.version \in Versions /\ a.number \in 0 .. MaxTime
        /\ \A e \in events' :
             /\ e.sub \in Rows \cup {s} /\ e.grants \in BOOLEAN
             /\ e.actor \in Actors \cup {"system", "payment_adapter"}
        /\ IsFiniteSet(events')
    BY <1>3, <2>2
  <2> QED
    BY <2>3, <2>4
<1> QED
  BY <1>1, <1>4, <1>5

\* The clock, the commands in flight, the calls of the worker and the locks.
LEMMA RestTyped ==
  ASSUME TypeInv, [SubscriptionNext]_subVars, Rows \subseteq Rows'
  PROVE  /\ now' \in 0 .. MaxTime /\ requests' \subseteq Requests
         /\ \A r \in requests' : r.action = "create" => r.target \in Versions
         /\ evaluated' \subseteq Keys
         /\ runs' \in [Workers -> {None} \cup 0 .. now']
         /\ held' \subseteq Rows'
<1> DEFINE Asked == /\ requests' \subseteq Requests
                    /\ \A r \in requests' : r.action = "create" => r.target \in Versions
           Timed == now' \in 0 .. MaxTime /\ runs' \in [Workers -> {None} \cup 0 .. now']
<1>0. /\ now \in 0 .. MaxTime /\ runs \in [Workers -> {None} \cup 0 .. now]
      /\ requests \subseteq Requests /\ evaluated \subseteq Keys /\ held \subseteq Rows
      /\ \A r \in requests : r.action = "create" => r.target \in Versions
      /\ MaxTime \in Nat /\ now \in Nat
  BY SubscriptionAssumption DEF TypeInv, TypeOK
<1>1. CASE UNCHANGED subVars
  BY <1>0, <1>1 DEF subVars, clientVars
<1>2. CASE Client
  <2>1. ASSUME NEW key \in Keys, NEW actor \in Actors, NEW action \in Actions,
               NEW s \in Subs, NEW target \in Versions \cup {None},
               Send(key, actor, action, s, target)
        PROVE  Asked /\ UNCHANGED <<now, runs, evaluated, held>>
    <3>1. s \in Rows /\ subs[s] \in Subscription
      BY <2>1, RowFacts DEF Send, Rows, TypeInv
    <3>2. Request(key, actor, action, subs[s].user, s, target, subs[s].ver) \in Requests
      BY <1>0, <3>1 DEF Request, Requests, Subscription
    <3>3. action # "create"
      BY DEF Actions
    <3> QED
      BY <1>0, <2>1, <3>2, <3>3 DEF Send, SendRequest, Request
  <2>2. ASSUME NEW key \in Keys, NEW actor \in Actors, NEW u \in Users,
               NEW v \in Versions, SendCreate(key, actor, u, v)
        PROVE  Asked /\ UNCHANGED <<now, runs, evaluated, held>>
    <3>1. Request(key, actor, "create", u, None, v, None) \in Requests
      BY <1>0 DEF Request, Requests
    <3> QED
      BY <1>0, <2>2, <3>1 DEF SendCreate, SendRequest, Request
  <2>3. ASSUME NEW r \in requests, Evaluate(r)
        PROVE  evaluated' \subseteq Keys /\ UNCHANGED <<now, runs, requests, held>>
    BY <1>0, <2>3 DEF Evaluate, Requests
  <2>4. ASSUME NEW r \in requests,
               \/ Replay(r)
               \/ \E s \in Subs : Execute(r, s)
               \/ \E s \in Subs, trial \in BOOLEAN, anchor \in 0 .. MaxTime :
                    ExecuteCreate(r, s, trial, anchor)
        PROVE  evaluated' \subseteq Keys /\ UNCHANGED <<now, runs, requests, held>>
    <3>1. Arrives(r)
      BY <2>4 DEF Replay, Execute, ExecuteCreate
    <3> QED
      BY <1>0, <3>1 DEF Arrives
  <2> QED
    BY <1>0, <1>2, <2>1, <2>2, <2>3, <2>4 DEF Client
<1>3. ASSUME NEW u \in Provisioned, NEW s \in Subs, Provision(u, s)
      PROVE  UNCHANGED <<now, clientVars, runs, held>>
  BY <1>3 DEF Provision
<1>4. ASSUME NEW w \in Workers, Work(w)
      PROVE  Timed /\ UNCHANGED <<now, clientVars, held>>
  <2>1. ASSUME NEW s \in Subs, WorkerAdvance(w, s)
        PROVE  UNCHANGED <<now, clientVars, runs, held>>
    BY <2>1 DEF WorkerAdvance
  <2>2. CASE WorkerStart(w)
    BY <1>0, <2>2 DEF WorkerStart
  <2>3. CASE WorkerEnd(w)
    BY <1>0, <2>3 DEF WorkerEnd
  <2> QED
    BY <1>0, <1>4, <2>1, <2>2, <2>3 DEF Work
<1>5. ASSUME NEW s \in Subs, Hold(s) \/ Release(s)
      PROVE  held' \subseteq Rows /\ UNCHANGED <<now, clientVars, runs>>
  BY <1>0, <1>5 DEF Hold, Release, Rows
<1>6. CASE Tick
  BY <1>0, <1>6 DEF Tick, clientVars
<1> QED
  BY <1>0, <1>1, <1>2, <1>3, <1>4, <1>5, <1>6 DEF SubscriptionNext, clientVars

LEMMA TypesPreserved ==
  ASSUME TypeInv, [SubscriptionNext]_subVars
  PROVE  TypeInv'
<1>1. Quiet \/ Changes \/ Creates
  BY StepKinds
<1>2. /\ subs' \in [Subs -> Subscription \cup {None}]
      /\ Rows \subseteq Rows'
      /\ \A a \in allowances' :
           a.sub \in Rows' /\ a.version \in Versions /\ a.number \in 0 .. MaxTime
      /\ \A e \in events' :
           /\ e.sub \in Rows' /\ e.grants \in BOOLEAN
           /\ e.actor \in Actors \cup {"system", "payment_adapter"}
      /\ IsFiniteSet(events')
  BY <1>1, TablesTyped
<1>3. /\ now' \in 0 .. MaxTime /\ requests' \subseteq Requests
      /\ \A r \in requests' : r.action = "create" => r.target \in Versions
      /\ evaluated' \subseteq Keys
      /\ runs' \in [Workers -> {None} \cup 0 .. now']
      /\ held' \subseteq Rows'
  BY <1>2, RestTyped
<1>4. \A r \in requests' : r.key \in Keys /\ r.actor \in Actors
  BY <1>3 DEF Requests
<1> QED
  BY <1>2, <1>3, <1>4 DEF TypeInv, TypeOK

-----------------------------------------------------------------------------
(* The first state: rows kept from before, with their allowances.          *)

LEMMA ScheduledRows ==
  ASSUME NEW s \in DOMAIN Scheduled
  PROVE  /\ ScheduledRow(s) \in Subscription
         /\ ScheduledRow(s).user = Scheduled[s] /\ ScheduledRow(s).version = FreeVersion
         /\ ScheduledRow(s).number = 0 /\ ScheduledRow(s).ver = 1
<1>1. /\ Scheduled[s] \in Users /\ FreeVersion \in Versions /\ 0 \in 0 .. MaxTime
      /\ 1 \in Nat \ {0}
  BY SubscriptionAssumption
<1> QED
  BY <1>1 DEF ScheduledRow, NewRow, Subscription, Callable

LEMMA InitFacts ==
  ASSUME Init
  PROVE  /\ subs \in [Subs -> Subscription \cup {None}]
         /\ Rows \subseteq DOMAIN Scheduled
         /\ \A s \in Rows : subs[s] = ScheduledRow(s)
         /\ allowances = {[sub |-> s, number |-> 0, version |-> FreeVersion] : s \in Rows}
         /\ events = {Event(<<"before", s>>, s, "system", 0, TRUE) : s \in Rows}
<1>1. PICK old \in SUBSET DOMAIN Scheduled :
        /\ subs = [s \in Subs |-> IF s \in old THEN ScheduledRow(s) ELSE None]
        /\ allowances = {[sub |-> s, number |-> 0, version |-> FreeVersion] : s \in old}
        /\ events = {Event(<<"before", s>>, s, "system", 0, TRUE) : s \in old}
  BY Zenon DEF Init
<1>2. subs \in [Subs -> Subscription \cup {None}]
  BY <1>1, ScheduledRows
<1>3. Rows = old /\ \A s \in Rows : subs[s] = ScheduledRow(s)
  BY <1>1, ScheduledRows, NoneIsNoRow, SubscriptionAssumption DEF Rows, Row
<1> QED
  BY <1>1, <1>2, <1>3, Zenon

LEMMA TypesInitially ==
  ASSUME Init
  PROVE  TypeInv
<1>1. \A a \in allowances :
        a.sub \in Rows /\ a.version \in Versions /\ a.number \in 0 .. MaxTime
  BY InitFacts, SubscriptionAssumption
<1>2. \A e \in events :
        /\ e.sub \in Rows /\ e.grants \in BOOLEAN
        /\ e.actor \in Actors \cup {"system", "payment_adapter"}
  <2>1. ASSUME NEW s \in Rows, NEW e, e = Event(<<"before", s>>, s, "system", 0, TRUE)
        PROVE  /\ e.sub \in Rows /\ e.grants \in BOOLEAN
               /\ e.actor \in Actors \cup {"system", "payment_adapter"}
    BY <2>1 DEF Event
  <2>2. ASSUME NEW e \in events
        PROVE  \E s \in Rows : e = Event(<<"before", s>>, s, "system", 0, TRUE)
    BY InitFacts, Zenon
  <2> QED
    BY <2>1, <2>2
<1>3. IsFiniteSet(events)
  <2>1. IsFiniteSet(Rows)
    BY InitFacts, FS_Subset, SubscriptionAssumption
  <2> DEFINE made == [s \in Rows |-> Event(<<"before", s>>, s, "system", 0, TRUE)]
  <2>2. events = {made[s] : s \in Rows}
    BY InitFacts, Zenon
  <2>3. made \in Surjection(Rows, events)
    <3> HIDE DEF made
    <3>1. DOMAIN made = Rows
      BY DEF made
    <3>2. made = [s \in Rows |-> made[s]]
      BY DEF made
    <3> QED
      BY <2>2, <3>1, <3>2 DEF Surjection
  <2> QED
    BY <2>1, <2>3, FS_Surjection
<1>4. subs \in [Subs -> Subscription \cup {None}]
  BY InitFacts
<1>5. /\ now = 0 /\ requests = {} /\ evaluated = {} /\ held = {}
      /\ runs = [w \in Workers |-> None]
  BY DEF Init
<1>6. now \in 0 .. MaxTime /\ runs \in [Workers -> {None} \cup 0 .. now]
  BY <1>5, SubscriptionAssumption
<1> QED
  BY <1>1, <1>2, <1>3, <1>4, <1>5, <1>6 DEF TypeInv, TypeOK

-----------------------------------------------------------------------------
(* One callable subscription.                                              *)

\* OneCallable without counting.
Alone == \A u \in Users : \A s, t \in CallableOf(u) : s = t

LEMMA AloneSuffices == Alone => OneCallable
<1> SUFFICES ASSUME Alone, NEW u \in Users PROVE Cardinality(CallableOf(u)) <= 1
  BY DEF OneCallable
<1>1. CASE CallableOf(u) = {}
  BY <1>1, FS_EmptySet
<1>2. CASE CallableOf(u) # {}
  <2>1. PICK s : CallableOf(u) = {s}
    BY <1>2 DEF Alone
  <2>2. Cardinality(CallableOf(u)) = 1
    BY <2>1, FS_Singleton, Zenon
  <2> QED
    BY <2>2
<1> QED
  BY <1>1, <1>2

LEMMA AloneInitially ==
  ASSUME Init
  PROVE  Alone
<1> SUFFICES ASSUME NEW u \in Users, NEW s \in CallableOf(u), NEW t \in CallableOf(u)
             PROVE  s = t
  BY DEF Alone
<1>1. s \in Rows /\ t \in Rows /\ subs[s].user = u /\ subs[t].user = u
  BY DEF CallableOf
<1>2. /\ s \in DOMAIN Scheduled /\ t \in DOMAIN Scheduled
      /\ Scheduled[s] = u /\ Scheduled[t] = u
  BY <1>1, InitFacts, ScheduledRows
<1> QED
  BY <1>2, SubscriptionAssumption

LEMMA AlonePreserved ==
  ASSUME TypeInv, Alone, Quiet \/ Changes \/ Creates
  PROVE  Alone'
<1>1. CASE Quiet
  BY <1>1 DEF Quiet, Alone, CallableOf, Rows, Row
<1>2. CASE Changes
  <2>1. PICK s \in Subs, new \in Subscription, grants \in BOOLEAN :
          \E key, actor : Change(s, new, key, actor, grants)
    BY <1>2 DEF Changes
  <2>2. /\ s \in Rows /\ Rows' = Rows /\ subs[s].status \notin Terminal
        /\ subs'[s] = new /\ new.user = subs[s].user
        /\ \A t \in Subs \ {s} : subs'[t] = subs[t]
    BY <2>1, ChangeEffect
  <2>3. subs[s].status \in Callable
    <3>1. subs[s] \in Subscription
      BY <2>2, RowFacts DEF TypeInv
    <3> QED
      BY <2>2, <3>1 DEF Subscription
  <2>4. \A u \in Users : CallableOf(u)' \subseteq CallableOf(u)
    BY <2>2, <2>3 DEF CallableOf, Rows
  <2> QED
    BY <2>4 DEF Alone
<1>3. CASE Creates
  <2>1. PICK s \in Subs, u \in Users, v \in Versions, status \in {"trial", "active"},
             anchor \in 0 .. MaxTime, exact \in BOOLEAN :
          \E key, actor : Creation(s, u, v, status, anchor, exact, key, actor)
    BY <1>3 DEF Creates
  <2>2. /\ Rows' = Rows \cup {s} /\ CallableOf(u) = {}
        /\ subs'[s] = NewRow(u, v, status, anchor, exact)
        /\ \A t \in Subs \ {s} : subs'[t] = subs[t]
    BY <2>1, CreationEffect
  <2>3. subs'[s].user = u
    BY <2>2 DEF NewRow
  <2>4. \A x \in Users : CallableOf(x)' \subseteq
                          IF x = u THEN {s} ELSE CallableOf(x)
    BY <2>2, <2>3 DEF CallableOf, Rows
  <2> QED
    BY <2>4 DEF Alone
<1> QED
  BY <1>1, <1>2, <1>3

-----------------------------------------------------------------------------
(* Versions count events.                                                  *)

Of(s) == {e \in events : e.sub = s}

LEMMA CountedInitially ==
  ASSUME Init
  PROVE  VersionCountsEvents
<1> SUFFICES ASSUME NEW s \in Rows PROVE subs[s].ver = Cardinality(Of(s))
  BY DEF VersionCountsEvents, Of
<1>1. subs[s].ver = 1
  BY InitFacts, ScheduledRows
<1> DEFINE made(t) == Event(<<"before", t>>, t, "system", 0, TRUE)
<1>2. \A t : made(t).sub = t
  BY DEF Event
<1>3. events = {made(t) : t \in Rows}
  BY InitFacts, Zenon
<1> HIDE DEF made
<1>4. Of(s) = {made(s)}
  BY <1>2, <1>3 DEF Of
<1> QED
  BY <1>1, <1>4, FS_Singleton

LEMMA CountedPreserved ==
  ASSUME TypeInv, VersionCountsEvents, Quiet \/ Changes \/ Creates
  PROVE  VersionCountsEvents'
<1> USE DEF Of
<1>0. \A s : IsFiniteSet(Of(s))
  BY FS_Subset DEF TypeInv
<1>1. CASE Quiet
  BY <1>1 DEF Quiet, VersionCountsEvents, Rows, Row
<1>2. CASE Changes
  <2>1. PICK s \in Subs, new \in Subscription, grants \in BOOLEAN :
          \E key, actor : Change(s, new, key, actor, grants)
    BY <1>2 DEF Changes
  <2>2. PICK key, actor : Change(s, new, key, actor, grants)
    BY <2>1
  <2>3. PICK e : Records(e, key, s, actor, new.number, grants)
    BY <2>2, ChangeEffect
  <2>4. /\ s \in Rows /\ Rows' = Rows /\ subs'[s] = new /\ new.ver = subs[s].ver + 1
        /\ \A t \in Subs \ {s} : subs'[t] = subs[t]
    BY <2>2, ChangeEffect
  <2>5. ASSUME NEW t \in Rows, t # s
        PROVE  subs'[t].ver = Cardinality(Of(t)')
    <3>1. Of(t)' = Of(t) /\ subs'[t] = subs[t]
      BY <2>3, <2>4, <2>5 DEF Records, Rows
    <3> QED
      BY <3>1 DEF VersionCountsEvents
  <2>6. subs'[s].ver = Cardinality(Of(s)')
    <3>1. Of(s)' = Of(s) \cup {e} /\ e \notin Of(s)
      BY <2>3 DEF Records
    <3> HIDE DEF Of
    <3>2. Cardinality(Of(s)') = Cardinality(Of(s)) + 1
      BY <1>0, <3>1, FS_AddElement
    <3>3. subs[s].ver = Cardinality(Of(s))
      BY <2>4, Zenon DEF VersionCountsEvents, Of
    <3> QED
      BY <2>4, <3>2, <3>3
  <2> QED
    BY <2>4, <2>5, <2>6 DEF VersionCountsEvents
<1>3. CASE Creates
  <2>1. PICK s \in Subs, u \in Users, v \in Versions, status \in {"trial", "active"},
             anchor \in 0 .. MaxTime, exact \in BOOLEAN :
          \E key, actor : Creation(s, u, v, status, anchor, exact, key, actor)
    BY <1>3 DEF Creates
  <2>2. PICK key, actor : Creation(s, u, v, status, anchor, exact, key, actor)
    BY <2>1
  <2>3. PICK e : Records(e, key, s, actor, 0, TRUE)
    BY <2>2, CreationEffect
  <2>4. /\ s \notin Rows /\ Rows' = Rows \cup {s}
        /\ subs'[s] = NewRow(u, v, status, anchor, exact)
        /\ \A t \in Subs \ {s} : subs'[t] = subs[t]
    BY <2>2, CreationEffect
  <2>5. ASSUME NEW t \in Rows
        PROVE  subs'[t].ver = Cardinality(Of(t)')
    <3>1. Of(t)' = Of(t) /\ subs'[t] = subs[t]
      BY <2>3, <2>4 DEF Records, Rows
    <3> QED
      BY <3>1 DEF VersionCountsEvents
  <2>6. subs'[s].ver = Cardinality(Of(s)')
    <3>0. \A f \in events : f.sub # s
      BY <2>4 DEF TypeInv, TypeOK
    <3>1. Of(s)' = {e}
      BY <2>3, <3>0 DEF Records
    <3>2. subs'[s].ver = 1
      BY <2>4 DEF NewRow
    <3> QED
      BY <3>1, <3>2, FS_Singleton
  <2> QED
    BY <2>4, <2>5, <2>6 DEF VersionCountsEvents
<1> QED
  BY <1>1, <1>2, <1>3

-----------------------------------------------------------------------------
(* Allowances.                                                             *)

Granted(s) == {a \in allowances : a.sub = s}

\* What CurrentPeriodIsFunded says of a row r and the allowances G it was given.
FundedBy(r, G) ==
  /\ Cardinality({a \in G : a.number = r.number}) = 1
  /\ \A a \in G : a.number <= r.number
  /\ \A a \in G :
       a.number = r.number /\ a.version # r.version =>
         r.status \in Terminal \cup {"past_due"}

Funded == \A s \in Rows : FundedBy(subs[s], Granted(s))

LEMMA FundedSuffices == Funded => CurrentPeriodIsFunded
BY Zenon DEF CurrentPeriodIsFunded, Funded, FundedBy, Granted

\* One allowance of the right version and number, and older ones, fund a row.
LEMMA OneFunds ==
  ASSUME NEW r, NEW G, NEW old, NEW a,
         G = old \cup {a}, a.number = r.number, a.version = r.version,
         r.number \in Nat, \A b \in old : b.number \in Nat /\ b.number < r.number
  PROVE  FundedBy(r, G)
<1>1. {b \in G : b.number = r.number} = {a}
  OBVIOUS
<1>2. Cardinality({b \in G : b.number = r.number}) = 1
  BY <1>1, FS_Singleton, Zenon
<1> QED
  BY <1>2 DEF FundedBy

LEMMA FirstFunds ==
  ASSUME NEW r, NEW G, NEW a, G = {a}, a.number = 0, a.version = r.version, r.number = 0
  PROVE  FundedBy(r, G)
<1>1. {b \in G : b.number = r.number} = {a}
  OBVIOUS
<1>2. Cardinality({b \in G : b.number = r.number}) = 1
  BY <1>1, FS_Singleton, Zenon
<1> QED
  BY <1>2 DEF FundedBy

\* A row that keeps its period, or one that was asked to pay and ends, is funded
\* as it was.
LEMMA StaysFunded ==
  ASSUME NEW r \in Subscription, NEW new, NEW G, FundedBy(r, G), r.status \notin Terminal,
         new.number = r.number, new.version = r.version \/ new.status = "past_due",
         r.status = "past_due" => new.status \in Terminal
  PROVE  FundedBy(new, G)
<1>1. Cardinality({b \in G : b.number = new.number}) = 1
  BY DEF FundedBy
<1> QED
  BY <1>1 DEF FundedBy

LEMMA FundedInitially ==
  ASSUME Init
  PROVE  Funded
<1> SUFFICES ASSUME NEW s \in Rows PROVE FundedBy(subs[s], Granted(s))
  BY DEF Funded
<1> DEFINE first == [sub |-> s, number |-> 0, version |-> FreeVersion]
<1>1. subs[s].number = 0 /\ subs[s].version = FreeVersion
  BY InitFacts, ScheduledRows
<1>2. Granted(s) = {first}
  BY InitFacts DEF Granted
<1>3. first.number = 0 /\ first.version = FreeVersion
  OBVIOUS
<1> HIDE DEF first
<1> QED
  BY <1>1, <1>2, <1>3, FirstFunds

LEMMA FundedPreserved ==
  ASSUME TypeInv, Funded, Quiet \/ Changes \/ Creates
  PROVE  Funded'
<1>1. CASE Quiet
  BY <1>1 DEF Quiet, Funded, Granted, Rows, Row
<1>2. CASE Changes
  <2>1. PICK s \in Subs, new \in Subscription, grants \in BOOLEAN :
          \E key, actor : Change(s, new, key, actor, grants)
    BY <1>2 DEF Changes
  <2>2. PICK key, actor : Change(s, new, key, actor, grants)
    BY <2>1
  <2>3. /\ s \in Rows /\ Rows' = Rows /\ subs'[s] = new
        /\ \A t \in Subs \ {s} : subs'[t] = subs[t]
        /\ subs[s].status \notin Terminal
    BY <2>2, ChangeEffect
  <2>4. Follows(subs[s], new, grants) /\ subs[s] \in Subscription
    BY <2>2, <2>3, RowFacts DEF Change, TypeInv
  <2>5. FundedBy(subs[s], Granted(s))
    BY <2>3 DEF Funded
  <2> DEFINE granted == [sub |-> s, number |-> new.number, version |-> new.version]
  <2>6. IF grants THEN allowances' = allowances \cup {granted}
                  ELSE allowances' = allowances
    BY <2>2 DEF Change, Write
  <2>7. ASSUME NEW t \in Rows, t # s
        PROVE  FundedBy(subs'[t], Granted(t)')
    <3>1. Granted(t)' = Granted(t) /\ subs'[t] = subs[t]
      BY <2>3, <2>6, <2>7 DEF Granted, Rows
    <3> QED
      BY <3>1 DEF Funded
  <2>8. FundedBy(subs'[s], Granted(s)')
    <3>1. CASE grants
      <4>1. Granted(s)' = Granted(s) \cup {granted}
        BY <2>6, <3>1 DEF Granted
      <4>2. /\ new.number > subs[s].number
            /\ new.number \in Nat /\ subs[s].number \in Nat
        BY <2>4, <3>1, SubscriptionAssumption DEF Follows, Subscription
      <4>3. \A a \in Granted(s) : a.number <= subs[s].number /\ a.number \in Nat
        BY <2>5, SubscriptionAssumption DEF FundedBy, TypeInv, TypeOK, Granted
      <4>4. granted.number = new.number /\ granted.version = new.version
        OBVIOUS
      <4>5. \A a \in Granted(s) : a.number \in Nat /\ a.number < new.number
        BY <4>2, <4>3
      <4> HIDE DEF granted
      <4>6. FundedBy(new, Granted(s)')
        BY <4>1, <4>2, <4>4, <4>5, OneFunds
      <4> QED
        BY <2>3, <4>6
    <3>2. CASE ~grants
      <4>1. Granted(s)' = Granted(s)
        BY <2>6, <3>2 DEF Granted
      <4>2. /\ new.number = subs[s].number
            /\ new.version = subs[s].version \/ new.status = "past_due"
            /\ subs[s].status = "past_due" => new.status \in Terminal
        BY <2>4, <3>2 DEF Follows
      <4>3. FundedBy(new, Granted(s))
        BY <2>3, <2>4, <2>5, <4>2, StaysFunded
      <4> QED
        BY <2>3, <4>1, <4>3
    <3> QED
      BY <3>1, <3>2
  <2> QED
    BY <2>3, <2>7, <2>8 DEF Funded
<1>3. CASE Creates
  <2>1. PICK s \in Subs, u \in Users, v \in Versions, status \in {"trial", "active"},
             anchor \in 0 .. MaxTime, exact \in BOOLEAN :
          \E key, actor : Creation(s, u, v, status, anchor, exact, key, actor)
    BY <1>3 DEF Creates
  <2> DEFINE granted == [sub |-> s, number |-> 0, version |-> v]
  <2>2. /\ s \notin Rows /\ Rows' = Rows \cup {s}
        /\ subs'[s] = NewRow(u, v, status, anchor, exact)
        /\ \A t \in Subs \ {s} : subs'[t] = subs[t]
        /\ allowances' = allowances \cup {granted}
    BY <2>1, CreationEffect
  <2>3. ASSUME NEW t \in Rows
        PROVE  FundedBy(subs'[t], Granted(t)')
    <3>1. Granted(t)' = Granted(t) /\ subs'[t] = subs[t]
      BY <2>2 DEF Granted, Rows
    <3> QED
      BY <3>1 DEF Funded
  <2>4. FundedBy(subs'[s], Granted(s)')
    <3>1. \A a \in allowances : a.sub # s
      BY <2>2 DEF TypeInv, TypeOK
    <3>2. Granted(s)' = {granted}
      BY <2>2, <3>1 DEF Granted
    <3>3. subs'[s].number = 0 /\ subs'[s].version = v
      BY <2>2 DEF NewRow
    <3>4. granted.number = 0 /\ granted.version = v
      OBVIOUS
    <3> HIDE DEF granted
    <3> QED
      BY <3>2, <3>3, <3>4, FirstFunds
  <2> QED
    BY <2>2, <2>3, <2>4 DEF Funded
<1> QED
  BY <1>1, <1>2, <1>3

-----------------------------------------------------------------------------
(* Grants.                                                                 *)

\* The other direction of GrantsAreAccountedFor: what was granted is there.
Backed ==
  \A e \in events : e.grants =>
    \E a \in allowances : a.sub = e.sub /\ a.number = e.number

GrantedBy(a, e) == e.sub = a.sub /\ e.number = a.number /\ e.grants

\* What GrantsAreAccountedFor says of one allowance and its event.
Accounts(e, a) ==
  /\ e \in events /\ GrantedBy(a, e)
  /\ a.version \in Priced => e.actor \in {"admin", "payment_adapter"}
  /\ \A f \in events : GrantedBy(a, f) => f = e

Accounted == \A a \in allowances : \E e : Accounts(e, a)

LEMMA AccountedSuffices == Accounted => GrantsAreAccountedFor
BY DEF Accounted, Accounts, GrantedBy, GrantsAreAccountedFor

LEMMA AccountedInitially ==
  ASSUME Init
  PROVE  Accounted /\ Backed
<1> DEFINE made(t) == Event(<<"before", t>>, t, "system", 0, TRUE)
<1> DEFINE first(t) == [sub |-> t, number |-> 0, version |-> FreeVersion]
<1>1. events = {made(t) : t \in Rows} /\ allowances = {first(t) : t \in Rows}
  BY InitFacts, Zenon
<1>2. \A t : made(t).sub = t /\ made(t).number = 0 /\ made(t).grants
  BY DEF Event
<1>3. \A t : first(t).sub = t /\ first(t).number = 0 /\ first(t).version = FreeVersion
  OBVIOUS
<1>4. FreeVersion \notin Priced
  BY SubscriptionAssumption
<1> HIDE DEF made, first
<1>5. ASSUME NEW t \in Rows
      PROVE  Accounts(made(t), first(t))
  BY <1>1, <1>2, <1>3, <1>4 DEF Accounts, GrantedBy
<1>6. Accounted
  BY <1>1, <1>5 DEF Accounted
<1>7. Backed
  BY <1>1, <1>2, <1>3 DEF Backed
<1> QED
  BY <1>6, <1>7

\* A new event keeps the accounts of the allowances that it does not grant.
LEMMA StaysAccounted ==
  ASSUME NEW a, NEW e, NEW new, Accounts(e, a), events' = events \cup {new},
         ~GrantedBy(a, new)
  PROVE  Accounts(e, a)'
BY DEF Accounts, GrantedBy

\* A new allowance and the event that grants it, for a period nobody had granted.
LEMMA NewIsAccounted ==
  ASSUME Accounted, Backed, NEW e, NEW a, events' = events \cup {e},
         allowances' = allowances \cup {a},
         e.sub = a.sub, e.number = a.number, e.grants,
         a.version \in Priced => e.actor \in {"admin", "payment_adapter"},
         \A b \in allowances : ~(b.sub = a.sub /\ b.number = a.number)
  PROVE  Accounted' /\ Backed'
<1>1. \A f \in events : ~GrantedBy(a, f)
  BY DEF Backed, GrantedBy
<1>2. Accounts(e, a)'
  BY <1>1 DEF Accounts, GrantedBy
<1>3. ASSUME NEW b \in allowances
      PROVE  \E f : Accounts(f, b)'
  <2>1. PICK f : Accounts(f, b)
    BY DEF Accounted
  <2>2. ~GrantedBy(b, e)
    BY DEF GrantedBy
  <2> QED
    BY <2>1, <2>2, StaysAccounted
<1>4. Accounted'
  BY <1>2, <1>3 DEF Accounted
<1>5. Backed'
  BY DEF Backed
<1> QED
  BY <1>4, <1>5

LEMMA AccountedPreserved ==
  ASSUME TypeInv, Accounted, Backed, Quiet \/ Changes \/ Creates
  PROVE  Accounted' /\ Backed'
<1>1. CASE Quiet
  BY <1>1 DEF Quiet, Accounted, Accounts, GrantedBy, Backed
<1>2. CASE Changes
  <2>1. PICK s \in Subs, new \in Subscription, grants \in BOOLEAN :
          \E key, actor : Change(s, new, key, actor, grants)
    BY <1>2 DEF Changes
  <2>2. PICK key, actor : Change(s, new, key, actor, grants)
    BY <2>1
  <2>3. PICK e : Records(e, key, s, actor, new.number, grants)
    BY <2>2, ChangeEffect
  <2> DEFINE granted == [sub |-> s, number |-> new.number, version |-> new.version]
  <2>4. CASE grants
    <3>1. /\ allowances' = allowances \cup {granted}
          /\ \A b \in allowances : <<b.sub, b.number>> # <<s, new.number>>
      BY <2>2, <2>4 DEF Change, Write
    <3>2. granted.sub = s /\ granted.number = new.number /\ granted.version = new.version
      OBVIOUS
    <3>3. new.version \in Priced => actor \in {"admin", "payment_adapter"}
      BY <2>2, <2>4 DEF Change, Granter
    <3>4. /\ events' = events \cup {e} /\ e.grants
          /\ e.sub = s /\ e.number = new.number /\ e.actor = actor
      BY <2>3, <2>4 DEF Records
    <3> HIDE DEF granted
    <3> QED
      BY <3>1, <3>2, <3>3, <3>4, NewIsAccounted
  <2>5. CASE ~grants
    <3>1. allowances' = allowances
      BY <2>2, <2>5 DEF Change, Write
    <3>2. events' = events \cup {e} /\ ~e.grants
      BY <2>3, <2>5 DEF Records
    <3>3. Accounted'
      BY <3>1, <3>2 DEF Accounted, Accounts, GrantedBy
    <3>4. Backed'
      BY <3>1, <3>2 DEF Backed
    <3> QED
      BY <3>3, <3>4
  <2> QED
    BY <2>4, <2>5
<1>3. CASE Creates
  <2>1. PICK s \in Subs, u \in Users, v \in Versions, status \in {"trial", "active"},
             anchor \in 0 .. MaxTime, exact \in BOOLEAN :
          \E key, actor : Creation(s, u, v, status, anchor, exact, key, actor)
    BY <1>3 DEF Creates
  <2>2. PICK key, actor : Creation(s, u, v, status, anchor, exact, key, actor)
    BY <2>1
  <2>3. PICK e : Records(e, key, s, actor, 0, TRUE)
    BY <2>2, CreationEffect
  <2> DEFINE granted == [sub |-> s, number |-> 0, version |-> v]
  <2>4. /\ s \notin Rows
        /\ allowances' = allowances \cup {granted}
    BY <2>2, CreationEffect
  <2>5. \A b \in allowances : b.sub # s
    BY <2>4 DEF TypeInv, TypeOK
  <2>6. granted.sub = s /\ granted.number = 0 /\ granted.version = v
    OBVIOUS
  <2>7. v \in Priced => actor \in {"admin", "payment_adapter"}
    BY <2>2 DEF Creation, Granter
  <2>8. /\ events' = events \cup {e} /\ e.grants
        /\ e.sub = s /\ e.number = 0 /\ e.actor = actor
    BY <2>3 DEF Records
  <2> HIDE DEF granted
  <2> QED
    BY <2>4, <2>5, <2>6, <2>7, <2>8, NewIsAccounted
<1> QED
  BY <1>1, <1>2, <1>3

-----------------------------------------------------------------------------
(* The theorems.                                                           *)

\* The strengthening: every conjunct is kept with the help of the
\* first alone, but for the last two, which need each other.
SubInv ==
  TypeInv /\ Alone /\ VersionCountsEvents /\ Funded /\ Accounted /\ Backed

LEMMA SubInvInit == Init => SubInv
BY TypesInitially, AloneInitially, CountedInitially, FundedInitially, AccountedInitially
   DEF SubInv

LEMMA SubInvNext == SubInv /\ [SubscriptionNext]_subVars => SubInv'
<1> SUFFICES ASSUME SubInv, [SubscriptionNext]_subVars PROVE SubInv'
  OBVIOUS
<1>1. Quiet \/ Changes \/ Creates
  BY StepKinds DEF SubInv
<1>2. TypeInv'
  BY TypesPreserved DEF SubInv
<1> QED
  BY <1>1, <1>2, AlonePreserved, CountedPreserved, FundedPreserved, AccountedPreserved
     DEF SubInv

\* Rows, allowances, events and commands in flight keep the shape the schema and
\* the routes give them, for any number of users, rows and calls of the worker.
THEOREM SubscriptionTypes == Spec => []TypeOK
<1>1. SubInv => TypeOK
  BY DEF SubInv, TypeInv
<1> QED
  BY <1>1, SubInvInit, SubInvNext, PTL DEF Spec

\* A user never has two callable subscriptions: creations are let in by the
\* unique index, and no change brings back a row that had ended.
THEOREM OneCallableAlways == Spec => []OneCallable
<1>1. SubInv => OneCallable
  BY AloneSuffices DEF SubInv
<1> QED
  BY <1>1, SubInvInit, SubInvNext, PTL DEF Spec

\* The version of a row is the number of its events: no change of a row goes
\* unrecorded and no repeated command or boundary changes it twice.
THEOREM VersionsAlwaysCountEvents == Spec => []VersionCountsEvents
<1>1. SubInv => VersionCountsEvents
  BY DEF SubInv
<1> QED
  BY <1>1, SubInvInit, SubInvNext, PTL DEF Spec

\* The current period of every row has exactly one allowance, no later period
\* has one, and while it can be spent it is that of the row's own version.
THEOREM CurrentPeriodAlwaysFunded == Spec => []CurrentPeriodIsFunded
<1>1. SubInv => CurrentPeriodIsFunded
  BY FundedSuffices DEF SubInv
<1> QED
  BY <1>1, SubInvInit, SubInvNext, PTL DEF Spec

\* Every allowance goes back to exactly one event, and an allowance of a priced
\* version to one of an administrator or of a verified payment: neither the
\* boundary nor a command of the user gives Tokens that are to be paid for.
THEOREM GrantsAlwaysAccountedFor == Spec => []GrantsAreAccountedFor
<1>1. SubInv => GrantsAreAccountedFor
  BY AccountedSuffices DEF SubInv
<1> QED
  BY <1>1, SubInvInit, SubInvNext, PTL DEF Spec

\* The tables keep their shape and their index on callable rows, and no change of
\* a row goes unrecorded.
THEOREM TablesAlwaysSound == Spec => []TablesAreSound
<1>1. TypeOK /\ OneCallable /\ VersionCountsEvents => TablesAreSound
  BY DEF TablesAreSound
<1> QED
  BY <1>1, SubscriptionTypes, OneCallableAlways, VersionsAlwaysCountEvents, PTL

\* Every period that can be used has the Tokens it is owed, and no period has Tokens
\* that nobody paid for or granted.
THEOREM AllowancesAlwaysJust == Spec => []AllowancesAreJust
<1>1. CurrentPeriodIsFunded /\ GrantsAreAccountedFor => AllowancesAreJust
  BY DEF AllowancesAreJust
<1> QED
  BY <1>1, CurrentPeriodAlwaysFunded, GrantsAlwaysAccountedFor, PTL


\* What a boundary brings comes at the boundary: no command and no call of the worker,
\* however long it has been running, grants a period that has not begun or one that
\* is over, changes the plan of a running period, or renews a row that is paused.
THEOREM BoundariesAlwaysKept == Spec => BoundariesAreKept
<1> DEFINE Running ==
      \A a \in allowances' \ allowances :
        a.number > 0 =>
          LET r == subs'[a.sub]
          IN /\ r.anchor + a.number <= now
             /\ \/ PeriodEnd(r) > now
                \/ \E w \in Workers : runs[w] # None /\ PeriodEnd(r) > runs[w]
           Waiting ==
      \A s \in Rows :
        /\ ~Due(subs[s], now) =>
             subs'[s].version = subs[s].version /\ subs'[s].number = subs[s].number
        /\ subs[s].status = "paused" =>
             /\ subs'[s].number = subs[s].number
             /\ Due(subs[s], now) => subs'[s].status # "active"
<1>1. ASSUME SubInv, [SubscriptionNext]_subVars
      PROVE  Running /\ Waiting
  <2>0. TypeInv /\ (Quiet \/ Changes \/ Creates)
    BY <1>1, StepKinds DEF SubInv
  <2>1. CASE Quiet
    BY <2>1 DEF Quiet
  <2>2. CASE Changes
    <3>1. PICK s \in Subs, new \in Subscription, grants \in BOOLEAN :
            \E key, actor : Change(s, new, key, actor, grants)
      BY <2>2 DEF Changes
    <3>2. PICK key, actor : Change(s, new, key, actor, grants)
      BY <3>1
    <3>3. /\ s \in Rows /\ subs'[s] = new /\ \A t \in Subs \ {s} : subs'[t] = subs[t]
      BY <2>0, <3>2, ChangeEffect
    <3>4. KeepsBoundary(subs[s], new, grants)
      BY <3>2 DEF Change
    <3>5. Waiting
      BY <3>3, <3>4 DEF KeepsBoundary, Rows
    <3>6. Running
      <4> SUFFICES ASSUME NEW a \in allowances' \ allowances
                   PROVE  LET r == subs'[a.sub]
                          IN /\ r.anchor + a.number <= now
                             /\ \/ PeriodEnd(r) > now
                                \/ \E w \in Workers : runs[w] # None /\ PeriodEnd(r) > runs[w]
        OBVIOUS
      <4>1. grants /\ a.sub = s /\ a.number = new.number
        BY <3>2 DEF Change, Write
      <4>2. PICK at : Instant(at) /\ new.anchor + new.number = at
        BY <3>4, <4>1 DEF KeepsBoundary
      <4>3. at \in Nat /\ now \in Nat /\ at <= now
        BY <2>0, <4>2, SubscriptionAssumption DEF Instant, TypeInv, TypeOK
      <4>4. PeriodEnd(new) = at + 1
        BY <4>2 DEF PeriodEnd
      <4> QED
        BY <3>3, <4>1, <4>2, <4>3, <4>4 DEF Instant
    <3> QED
      BY <3>5, <3>6
  <2>3. CASE Creates
    <3>1. PICK s \in Subs, u \in Users, v \in Versions, status \in {"trial", "active"},
               anchor \in 0 .. MaxTime, exact \in BOOLEAN :
            \E key, actor : Creation(s, u, v, status, anchor, exact, key, actor)
      BY <2>3 DEF Creates
    <3>2. /\ s \notin Rows /\ \A t \in Subs \ {s} : subs'[t] = subs[t]
          /\ allowances' = allowances \cup {[sub |-> s, number |-> 0, version |-> v]}
      BY <2>0, <3>1, CreationEffect
    <3>3. Waiting
      BY <3>2 DEF Rows
    <3>4. Running
      BY <3>2
    <3> QED
      BY <3>3, <3>4
  <2> QED
    BY <2>0, <2>1, <2>2, <2>3
<1>2. SubInv /\ [SubscriptionNext]_subVars => [Running]_subVars /\ [Waiting]_subVars
  BY <1>1
<1>3. Spec => [][Running]_subVars /\ [][Waiting]_subVars
  BY <1>2, SubInvInit, SubInvNext, PTL DEF Spec
<1> QED
  BY <1>3 DEF BoundariesAreKept, GrantsTheRunningPeriod, ChangesWaitForTheBoundary
-----------------------------------------------------------------------------
(* Payments: what a step of SubscriptionPayments does to the tables.       *)

\* An adjustment of a subscription that has ended is noted, and changes nothing.
Notes ==
  /\ UNCHANGED <<subs, allowances>>
  /\ \E e : /\ events' = events \cup {e}
            /\ e.sub \in Rows /\ e.actor = "payment_adapter" /\ e.grants = FALSE

Writes == Quiet \/ Changes \/ Creates \/ Notes

LEMMA NotesTyped ==
  ASSUME TypeInv, Notes
  PROVE  /\ UNCHANGED <<subs, allowances, Rows>>
         /\ \A e \in events' :
              /\ e.sub \in Rows /\ e.grants \in BOOLEAN
              /\ e.actor \in Actors \cup {"system", "payment_adapter"}
         /\ IsFiniteSet(events')
<1>1. PICK e : /\ events' = events \cup {e}
               /\ e.sub \in Rows /\ e.actor = "payment_adapter" /\ e.grants = FALSE
  BY DEF Notes
<1>2. IsFiniteSet(events')
  BY <1>1, FS_AddElement DEF TypeInv
<1>3. UNCHANGED <<subs, allowances, Rows>>
  BY DEF Notes, Rows, Row
<1> QED
  BY <1>1, <1>2, <1>3 DEF TypeInv, TypeOK

\* A payment moves neither the clock nor the commands nor the worker.
LEMMA TypesKeptByPayments ==
  ASSUME TypeInv, Writes, UNCHANGED <<now, clientVars, runs, held>>
  PROVE  TypeInv'
<1>1. /\ subs' \in [Subs -> Subscription \cup {None}]
      /\ Rows \subseteq Rows'
      /\ \A a \in allowances' :
           a.sub \in Rows' /\ a.version \in Versions /\ a.number \in 0 .. MaxTime
      /\ \A e \in events' :
           /\ e.sub \in Rows' /\ e.grants \in BOOLEAN
           /\ e.actor \in Actors \cup {"system", "payment_adapter"}
      /\ IsFiniteSet(events')
  <2>1. CASE Notes
    BY <2>1, NotesTyped DEF TypeInv, TypeOK
  <2>2. CASE Quiet \/ Changes \/ Creates
    BY <2>2, TablesTyped
  <2> QED
    BY <2>1, <2>2 DEF Writes
<1>2. /\ now' \in 0 .. MaxTime /\ requests' \subseteq Requests
      /\ \A r \in requests' : r.key \in Keys /\ r.actor \in Actors
      /\ \A r \in requests' : r.action = "create" => r.target \in Versions
      /\ evaluated' \subseteq Keys
      /\ runs' \in [Workers -> {None} \cup 0 .. now']
      /\ held' \subseteq Rows'
  BY <1>1 DEF TypeInv, TypeOK, clientVars
<1> QED
  BY <1>1, <1>2 DEF TypeInv, TypeOK

\* The invariants of the tables, for every kind of step.
Tables == TypeInv /\ Alone /\ Funded /\ Accounted /\ Backed

LEMMA TablesPreserved ==
  ASSUME Tables, Writes, TypeInv'
  PROVE  Tables'
<1>1. CASE Notes
  <2>1. PICK e : /\ events' = events \cup {e}
                 /\ e.sub \in Rows /\ e.actor = "payment_adapter" /\ e.grants = FALSE
    BY <1>1 DEF Notes
  <2>2. UNCHANGED <<subs, allowances, Rows>>
    BY <1>1, NotesTyped DEF Tables
  <2>3. Alone' /\ Funded'
    BY <2>2 DEF Tables, Alone, CallableOf, Funded, Granted
  <2>4. Accounted' /\ Backed'
    BY <2>1, <2>2 DEF Tables, Accounted, Accounts, GrantedBy, Backed
  <2> QED
    BY <2>3, <2>4 DEF Tables
<1>2. CASE Quiet \/ Changes \/ Creates
  BY <1>2, AlonePreserved, FundedPreserved, AccountedPreserved DEF Tables
<1> QED
  BY <1>1, <1>2 DEF Writes

\* Rows and what is written about them stay: a row that has ended does not change
\* any more, and every other change is seen in its version.
Grows ==
  /\ Rows \subseteq Rows'
  /\ \A s \in Rows :
       /\ subs'[s].user = subs[s].user
       /\ \/ subs'[s] = subs[s]
          \/ subs[s].status \notin Terminal /\ subs'[s].ver = subs[s].ver + 1
  /\ allowances \subseteq allowances' /\ events \subseteq events'

LEMMA WritesGrow ==
  ASSUME TypeInv, Writes
  PROVE  Grows
<1>1. CASE Quiet
  BY <1>1 DEF Quiet, Grows, Rows, Row
<1>2. CASE Notes
  BY <1>2, NotesTyped DEF Notes, Grows
<1>3. CASE Changes
  <2>1. PICK s \in Subs, new \in Subscription, grants \in BOOLEAN :
          \E key, actor : Change(s, new, key, actor, grants)
    BY <1>3 DEF Changes
  <2>2. PICK key, actor : Change(s, new, key, actor, grants)
    BY <2>1
  <2>3. /\ s \in Rows /\ Rows' = Rows /\ subs[s].status \notin Terminal
        /\ subs'[s] = new /\ \A t \in Subs \ {s} : subs'[t] = subs[t]
        /\ new.user = subs[s].user /\ new.ver = subs[s].ver + 1
    BY <2>2, ChangeEffect
  <2>4. allowances \subseteq allowances' /\ events \subseteq events'
    BY <2>2 DEF Change, Write
  <2>5. Rows \subseteq Subs
    BY DEF Rows
  <2> QED
    BY <2>3, <2>4, <2>5 DEF Grows
<1>4. CASE Creates
  <2>1. PICK s \in Subs, u \in Users, v \in Versions, status \in {"trial", "active"},
             anchor \in 0 .. MaxTime, exact \in BOOLEAN :
          \E key, actor : Creation(s, u, v, status, anchor, exact, key, actor)
    BY <1>4 DEF Creates
  <2>2. PICK key, actor : Creation(s, u, v, status, anchor, exact, key, actor)
    BY <2>1
  <2>3. /\ s \notin Rows /\ Rows' = Rows \cup {s}
        /\ \A t \in Subs \ {s} : subs'[t] = subs[t]
    BY <2>2, CreationEffect
  <2>4. allowances \subseteq allowances' /\ events \subseteq events'
    BY <2>2 DEF Creation, Insert
  <2>5. Rows \subseteq Subs
    BY DEF Rows
  <2> QED
    BY <2>3, <2>4, <2>5 DEF Grows
<1> QED
  BY <1>1, <1>2, <1>3, <1>4 DEF Writes

-----------------------------------------------------------------------------
(* The events of the commands and of the boundaries are none of a payment.  *)

IsPayment(key) == \E i \in Intents, type \in Types : key = PaymentKey(i, type)

\* Whose events those are, and that their keys are not those of payments.
Ordinary(e) == e.actor # "payment_adapter" /\ ~IsPayment(e.key)

LEMMA KeysOfOthers ==
  /\ \A key \in Keys : ~IsPayment(key)
  /\ \A x : ~IsPayment(<<"default-free", x>>)
  /\ \A x, y : ~IsPayment(<<"subscription-period", x, y>>)
  /\ \A x, y : ~IsPayment(<<"payment-period", x, y>>)
<1>1. \A key \in Keys : ~IsPayment(key)
  BY KeyAssumption DEF IsPayment
<1>2. \A x : ~IsPayment(<<"default-free", x>>)
  BY DEF IsPayment, PaymentKey
<1>3. \A x, y : ~IsPayment(<<"subscription-period", x, y>>)
  BY DEF IsPayment, PaymentKey
<1>4. \A x, y : ~IsPayment(<<"payment-period", x, y>>)
  BY DEF IsPayment, PaymentKey
<1> QED
  BY <1>1, <1>2, <1>3, <1>4

LEMMA KeysOfPayments ==
  ASSUME NEW i, NEW j, NEW type, NEW other, PaymentKey(i, type) = PaymentKey(j, other)
  PROVE  i = j /\ type = other
BY DEF PaymentKey

LEMMA WrittenIsOrdinary ==
  ASSUME NEW s, NEW new, NEW key, NEW actor, NEW grants, Write(s, new, key, actor, grants),
         actor # "payment_adapter", ~IsPayment(key)
  PROVE  \A e \in events' \ events : Ordinary(e)
<1>1. events' = events \cup {Event(key, s, actor, new.number, grants)}
  BY DEF Write, Recorded
<1>2. Ordinary(Event(key, s, actor, new.number, grants))
  BY DEF Event, Ordinary
<1> QED
  BY <1>1, <1>2

LEMMA InsertedIsOrdinary ==
  ASSUME NEW s, NEW u, NEW v, NEW status, NEW anchor, NEW exact, NEW key, NEW actor,
         Insert(s, u, v, status, anchor, exact, key, actor),
         actor # "payment_adapter", ~IsPayment(key)
  PROVE  \A e \in events' \ events : Ordinary(e)
<1>1. events' = events \cup {Event(key, s, actor, 0, TRUE)}
  BY DEF Insert, Recorded
<1>2. Ordinary(Event(key, s, actor, 0, TRUE))
  BY DEF Event, Ordinary
<1> QED
  BY <1>1, <1>2

LEMMA EventsAreOrdinary ==
  ASSUME TypeInv, [SubscriptionNext]_subVars
  PROVE  \A e \in events' \ events : Ordinary(e)
<1> DEFINE AllOrdinary == \A e \in events' \ events : Ordinary(e)
<1>1. CASE UNCHANGED subVars
  BY <1>1 DEF subVars
<1>2. ASSUME NEW r \in requests, NEW s \in Subs, Execute(r, s)
      PROVE  AllOrdinary
  <2>1. r.key \in Keys /\ r.actor # "payment_adapter"
    BY DEF TypeInv, TypeOK, Actors
  <2>2. ~IsPayment(r.key)
    BY <2>1, KeysOfOthers
  <2>3. \E new, grants : Write(s, new, r.key, r.actor, grants)
    BY <1>2 DEF Execute, Transition
  <2> QED
    BY <2>1, <2>2, <2>3, WrittenIsOrdinary
<1>3. ASSUME NEW r \in requests, NEW s \in Subs, NEW trial \in BOOLEAN,
             NEW anchor \in 0 .. MaxTime, ExecuteCreate(r, s, trial, anchor)
      PROVE  AllOrdinary
  <2>1. r.key \in Keys /\ r.actor # "payment_adapter"
    BY DEF TypeInv, TypeOK, Actors
  <2>2. ~IsPayment(r.key)
    BY <2>1, KeysOfOthers
  <2>3. \E u, v, status, exact : Insert(s, u, v, status, anchor, exact, r.key, r.actor)
    BY <1>3 DEF ExecuteCreate, Activate
  <2> QED
    BY <2>1, <2>2, <2>3, InsertedIsOrdinary
<1>4. ASSUME NEW u \in Provisioned, NEW s \in Subs, Provision(u, s)
      PROVE  AllOrdinary
  BY <1>4, KeysOfOthers, InsertedIsOrdinary DEF Provision
<1>5. ASSUME NEW w \in Workers, NEW s \in Subs, WorkerAdvance(w, s)
      PROVE  AllOrdinary
  BY <1>5, KeysOfOthers, WrittenIsOrdinary DEF WorkerAdvance, Advance, BoundaryKey
<1>6. CASE Client
  <2>1. \/ UNCHANGED events
        \/ \E r \in requests, s \in Subs : Execute(r, s)
        \/ \E r \in requests, s \in Subs, trial \in BOOLEAN, anchor \in 0 .. MaxTime :
             ExecuteCreate(r, s, trial, anchor)
    BY <1>6 DEF Client, Send, SendCreate, SendRequest, Evaluate, Replay
  <2> QED
    BY <1>2, <1>3, <2>1
<1>7. ASSUME NEW w \in Workers, Work(w)
      PROVE  AllOrdinary
  BY <1>5, <1>7 DEF Work, WorkerStart, WorkerEnd
<1>8. ASSUME NEW s \in Subs, Hold(s) \/ Release(s)
      PROVE  AllOrdinary
  BY <1>8 DEF Hold, Release
<1>9. CASE Tick
  BY <1>9 DEF Tick
<1> QED
  BY <1>1, <1>4, <1>6, <1>7, <1>8, <1>9 DEF SubscriptionNext

-----------------------------------------------------------------------------
(* The invariant of the payments.                                          *)

Pending == {"creating", "requires_action"}
Paid    == {"succeeded"} \cup Adjusted

\* The shape of the rows and events; nothing is known of an intent nobody has made.
PayShape ==
  /\ intents \in [Intents -> Intent \cup {None}]
  /\ call \in [Intents -> {"none", "open", "answered"}]
  /\ provider \in [Intents -> {"none", "open", "paid", "closed"}]
  /\ sent \subseteq Intents \X Types /\ adjusted \subseteq sent
  /\ \A e \in received :
       <<e.intent, e.type>> \in sent /\ e.status \in {"processed", "rejected"}
  /\ \A i \in Intents :
       \/ call[i] # "none" \/ provider[i] # "none"
       \/ \E type \in Types : <<i, type>> \in sent
       => Made(i)

\* What renews or is paid names its row.
NamesItsRow(i) ==
  /\ intents[i].renewal \/ intents[i].status \in Paid => intents[i].sub # None
  /\ intents[i].sub # None => intents[i].sub \in Rows

\* While its row has the version a renewal was made for, the row asks to be paid for
\* that very period and version of the plan.
SeesItsRow(i) ==
  LET p == intents[i]
      r == subs[p.sub]
  IN /\ r.user = p.user /\ p.expected <= r.ver
     /\ r.ver = p.expected =>
          r.status = "past_due" /\ Target(r) = p.version /\ r.number = p.number

RowsNamed == \A i \in Intents : Made(i) => NamesItsRow(i)
RowsSeen  == \A i \in Intents : Made(i) /\ intents[i].renewal => SeesItsRow(i)

\* A key of a payment stands for an event of the provider that was taken.
KeysTell ==
  \A e \in events, i \in Intents, type \in Types :
    e.key = PaymentKey(i, type) => Taken(i, type)

\* What was taken is not pending any more, so that it is not taken for another row.
TakenIsSettled == \A i \in Intents : Taken(i, "succeeded") => intents[i].status \notin Pending

EndedFor(i) ==
  /\ intents[i].status \notin Pending /\ intents[i].sub # None
  /\ subs[intents[i].sub].status = "cancelled"

AdjustedHasEnded == \A a \in adjusted : EndedFor(a[1])

\* The two halves of PaymentsGrantOnce.
Gives(e, i) ==
  /\ e \in events
  /\ e.key = PaymentKey(i, "succeeded") /\ e.grants /\ e.sub = intents[i].sub
  /\ subs[e.sub].user = intents[i].user
  /\ [sub |-> e.sub, number |-> e.number, version |-> intents[i].version] \in allowances

TakenIsGiven == \A i \in Intents : Taken(i, "succeeded") => \E e : Gives(e, i)

PaidFor(e) == \E i \in Intents : Taken(i, "succeeded") /\ e.key = PaymentKey(i, "succeeded")

GivenIsTaken ==
  \A e \in events : e.actor = "payment_adapter" /\ e.grants => PaidFor(e)

PayInv ==
  /\ Tables /\ PayShape
  /\ RowsNamed /\ RowsSeen
  /\ KeysTell /\ TakenIsSettled /\ AdjustedHasEnded
  /\ TakenIsGiven /\ GivenIsTaken
  /\ OneLiveRenewal

LEMMA PayInvSuffices == PayInv => PaidIsGiven
<1> SUFFICES ASSUME PayInv PROVE PaidIsGiven
  OBVIOUS
<1>1. PayTypeOK
  BY DEF PayInv, Tables, TypeInv, PayShape, PayTypeOK, RowsNamed, NamesItsRow, Paid
<1>2. PaymentsGrantOnce
  BY DEF PayInv, PaymentsGrantOnce, TakenIsGiven, GivenIsTaken, Gives, PaidFor
<1>3. RefundedHasEnded
  BY DEF PayInv, RefundedHasEnded, AdjustedHasEnded, EndedFor
<1> QED
  BY <1>1, <1>2, <1>3 DEF PayInv, PaidIsGiven

LEMMA PayInvInitially == PayInit => PayInv
<1> SUFFICES ASSUME PayInit PROVE PayInv
  OBVIOUS
<1>1. Init /\ sent = {} /\ received = {} /\ adjusted = {}
      /\ \A i \in Intents : ~Made(i)
  BY DEF PayInit, Made
<1>2. Tables
  BY <1>1, TypesInitially, AloneInitially, FundedInitially, AccountedInitially DEF Tables
<1>3. PayShape
  BY DEF PayInit, PayShape
<1>4. \A e \in events : Ordinary(e)
  <2>1. \A x : ~IsPayment(<<"before", x>>)
    BY DEF IsPayment, PaymentKey
  <2>2. ASSUME NEW s \in Rows
        PROVE  Ordinary(Event(<<"before", s>>, s, "system", 0, TRUE))
    BY <2>1 DEF Event, Ordinary
  <2> QED
    BY <1>1, <2>2, InitFacts
<1>5. KeysTell /\ GivenIsTaken
  BY <1>4 DEF KeysTell, GivenIsTaken, Ordinary, IsPayment
<1> QED
  BY <1>1, <1>2, <1>3, <1>5
     DEF PayInv, RowsNamed, RowsSeen, TakenIsSettled, AdjustedHasEnded, TakenIsGiven,
         Taken, OneLiveRenewal

-----------------------------------------------------------------------------
(* What a step of a payment does to its intent.                            *)

\* What an intent is for does not change, and neither does its row, but for that of
\* a first period when it is paid; what is settled stays so.
Kept(i) ==
  LET p == intents[i]
      q == intents'[i]
  IN /\ q \in Intent
     /\ q.user = p.user /\ q.version = p.version /\ q.renewal = p.renewal
     /\ q.expected = p.expected /\ q.number = p.number
     /\ \/ q.sub = p.sub
        \/ ~p.renewal /\ p.status \in Pending /\ q.sub \in Rows'
     /\ q.status \in Pending => p.status \in Pending
     /\ q.status \in Live => p.status \in Live
     /\ q.status \in Paid => q.sub # None

\* An intent that is made: for a first period, or for that of a row that asks for it.
Fresh(i) ==
  LET q == intents'[i]
  IN /\ ~Made(i) /\ q \in Intent /\ q.status = "creating"
     /\ IF q.renewal
        THEN LET r == subs'[q.sub]
             IN /\ q.sub \in Rows' /\ r.user = q.user /\ q.expected = r.ver
                /\ r.status = "past_due" /\ Target(r) = q.version /\ r.number = q.number
                /\ \A j \in Intents :
                     /\ Made(j) /\ intents[j].renewal
                     /\ intents[j].sub = q.sub /\ intents[j].number = q.number
                     => intents[j].status \notin Live
        ELSE q.sub = None

Moves(i) ==
  /\ intents' \in [Intents -> Intent \cup {None}]
  /\ \/ Made(i) /\ Kept(i)
     \/ intents'[i] = intents[i]
     \/ Fresh(i)
  /\ \A j \in Intents \ {i} : intents'[j] = intents[j]

LEMMA IntentTyped ==
  ASSUME PayShape, NEW i \in Intents, Made(i)
  PROVE  intents[i] \in Intent
BY DEF PayShape, Made

\* A row of intents that takes another status, or names its row.
LEMMA KeptWith ==
  ASSUME PayShape, RowsNamed, NEW i \in Intents, Made(i),
         NEW status \in Live \cup {"failed", "cancelled"} \cup Adjusted,
         NEW saved \in BOOLEAN, NEW sub,
         intents' = [intents EXCEPT ![i] =
           [intents[i] EXCEPT !.status = status, !.saved = saved, !.sub = sub]],
         \/ sub = intents[i].sub
         \/ ~intents[i].renewal /\ intents[i].status \in Pending /\ sub \in Rows' /\ sub # None,
         status \in Pending => intents[i].status \in Pending,
         status \in Live => intents[i].status \in Live,
         status \in Paid => intents[i].status \in Paid \/ intents[i].renewal \/ sub # None
  PROVE  Moves(i)
<1>1. intents[i] \in Intent
  BY IntentTyped
<1> DEFINE q == [intents[i] EXCEPT !.status = status, !.saved = saved, !.sub = sub]
<1>2. /\ q.user = intents[i].user /\ q.version = intents[i].version
      /\ q.renewal = intents[i].renewal /\ q.expected = intents[i].expected
      /\ q.number = intents[i].number /\ q.status = status /\ q.sub = sub
  BY <1>1 DEF Intent
<1>3. sub \in Subs \cup {None}
  BY <1>1 DEF Intent, Rows
<1>4. q \in Intent
  BY <1>1, <1>3, Zenon DEF Intent
<1>5. status \in Paid => sub # None
  BY DEF RowsNamed, NamesItsRow
<1>6. /\ intents' \in [Intents -> Intent \cup {None}] /\ intents'[i] = q
      /\ \A j \in Intents \ {i} : intents'[j] = intents[j]
  BY <1>4, Zenon DEF PayShape
<1> HIDE DEF q
<1>7. Kept(i)
  BY <1>2, <1>4, <1>5, <1>6 DEF Kept
<1> QED
  BY <1>6, <1>7 DEF Moves

\* Nothing that was made is unmade.
LEMMA MadeStays ==
  ASSUME UNCHANGED intents \/ \E i \in Intents : Moves(i)
  PROVE  \A j \in Intents : Made(j) => Made(j)'
BY NoneIsNoIntent DEF Moves, Kept, Fresh, Made

LEMMA ShapeStays ==
  ASSUME PayShape, UNCHANGED intents \/ \E i \in Intents : Moves(i),
         call' \in [Intents -> {"none", "open", "answered"}],
         provider' \in [Intents -> {"none", "open", "paid", "closed"}],
         \A j \in Intents : call'[j] # "none" \/ provider'[j] # "none" => Made(j),
         sent \subseteq sent', sent' \subseteq Intents \X Types, adjusted' \subseteq sent',
         \A j \in Intents, type \in Types : <<j, type>> \in sent' => Made(j),
         \A e \in received' :
           <<e.intent, e.type>> \in sent' /\ e.status \in {"processed", "rejected"}
  PROVE  PayShape'
<1>1. \A j \in Intents : Made(j) => Made(j)'
  BY MadeStays
<1>2. intents' \in [Intents -> Intent \cup {None}]
  BY DEF Moves, PayShape
<1> QED
  BY <1>1, <1>2 DEF PayShape

-----------------------------------------------------------------------------
(* The steps, one by one.                                                  *)

\* A step that takes no payment and no adjustment.
Unpaid ==
  /\ Writes /\ \A e \in events' \ events : Ordinary(e)
  /\ UNCHANGED adjusted /\ received \subseteq received'
  /\ \A i \in Intents : Taken(i, "succeeded")' => Taken(i, "succeeded")
  /\ UNCHANGED intents \/ \E i \in Intents : Moves(i)

\* What every step of a payment leaves alone.
Still == UNCHANGED <<now, clientVars, runs, held>>

\* A new row of intents.
LEMMA NewIntentMoves ==
  ASSUME PayShape, NEW i \in Intents, NEW u \in Users, NEW v, NEW s \in Subs \cup {None},
         NEW expected \in Nat, NEW number \in Nat,
         NewIntent(i, u, v, s, expected, number),
         s # None =>
           /\ s \in Rows' /\ subs'[s].user = u /\ expected = subs'[s].ver
           /\ subs'[s].status = "past_due" /\ Target(subs'[s]) = v
           /\ subs'[s].number = number
           /\ \A j \in Intents :
                Made(j) /\ intents[j].renewal /\ intents[j].sub = s /\ intents[j].number = number
                => intents[j].status \notin Live
  PROVE  Moves(i) /\ PayShape'
<1> DEFINE q == [user |-> u, version |-> v, sub |-> s, renewal |-> s # None,
                 expected |-> expected, number |-> number, saved |-> FALSE,
                 status |-> "creating"]
<1>1. /\ q.user = u /\ q.version = v /\ q.sub = s /\ q.renewal = (s # None)
      /\ q.expected = expected /\ q.number = number /\ q.status = "creating"
  OBVIOUS
<1>2. q \in Intent
  BY DEF NewIntent, Intent, Live
<1>3. /\ intents' = [intents EXCEPT ![i] = q] /\ ~Made(i)
      /\ call' = [call EXCEPT ![i] = "open"]
      /\ UNCHANGED <<provider, sent, received, adjusted>>
  BY DEF NewIntent
<1> HIDE DEF q
<1>4. /\ intents'[i] = q /\ intents' \in [Intents -> Intent \cup {None}]
      /\ \A j \in Intents \ {i} : intents'[j] = intents[j]
  BY <1>2, <1>3 DEF PayShape
<1>5. Fresh(i)
  BY <1>1, <1>2, <1>3, <1>4 DEF Fresh
<1>6. Moves(i)
  BY <1>3, <1>4, <1>5 DEF Moves
<1>7. \A j \in Intents : Made(j)' <=> Made(j) \/ j = i
  BY <1>2, <1>4, NoneIsNoIntent DEF Made
<1>8. /\ call' \in [Intents -> {"none", "open", "answered"}]
      /\ \A j \in Intents : call'[j] # "none" => call[j] # "none" \/ j = i
  BY <1>3 DEF PayShape
<1>9. PayShape'
  BY <1>3, <1>4, <1>7, <1>8 DEF PayShape
<1> QED
  BY <1>6, <1>9

LEMMA AskMoves ==
  ASSUME PayInv, NEW i \in Intents, Ask(i)
  PROVE  Unpaid /\ Still /\ PayShape'
<1>0. PayShape /\ TypeInv
  BY DEF PayInv, Tables
<1>1. ASSUME NEW u \in Users, NEW v \in Versions, AskActivation(i, u, v)
      PROVE  Unpaid /\ Still /\ PayShape'
  <2>1. Moves(i) /\ PayShape'
    BY <1>0, <1>1, NewIntentMoves DEF AskActivation
  <2>2. UNCHANGED <<subVars, received, adjusted>>
    BY <1>1 DEF AskActivation, NewIntent
  <2> QED
    BY <2>1, <2>2 DEF Unpaid, Still, subVars, Writes, Quiet, Taken
<1>2. ASSUME NEW u \in Users, NEW s \in Subs, AskRenewal(i, u, s)
      PROVE  Unpaid /\ Still /\ PayShape'
  <2>1. s \in Rows /\ subs[s].user = u /\ subs[s] \in Subscription /\ now \in 0 .. MaxTime
    BY <1>0, <1>2, RowFacts DEF AskRenewal, CallableOf, TypeInv, TypeOK
  <2>2. /\ Writes /\ Still /\ \A e \in events' \ events : Ordinary(e)
        /\ s \in Rows' /\ subs'[s] \in Subscription
        /\ subs'[s].user = u /\ subs'[s].status = "past_due"
        /\ Target(subs'[s]) = Target(subs[s]) /\ subs'[s].number = subs[s].number
    <3> DEFINE key == <<"payment-period", s, subs[s].number + 1>>
    <3>1. CASE subs[s].status = "past_due" /\ UNCHANGED subVars
      BY <2>1, <3>1 DEF subVars, Writes, Quiet, Still, Rows, Row
    <3>2. CASE /\ subs[s].status \in {"trial", "active"}
               /\ Advanced(subs[s], now).status = "past_due"
               /\ Advance(s, now, key)
               /\ UNCHANGED <<now, clientVars, runs, held>>
      <4>0. Instant(now)
        BY <2>1, SubscriptionAssumption DEF Instant
      <4>1. Changes
        BY <1>0, <2>1, <3>2, <4>0, AdvanceChanges
      <4>2. Write(s, Advanced(subs[s], now), key, "system", Grants(subs[s]))
        BY <3>2 DEF Advance
      <4>3. \A e \in events' \ events : Ordinary(e)
        BY <4>2, KeysOfOthers, WrittenIsOrdinary
      <4>4. subs'[s] = Advanced(subs[s], now)
        BY <1>0, <2>1, <4>2 DEF Write, TypeInv, TypeOK
      <4>5. Follows(subs[s], Advanced(subs[s], now), Grants(subs[s]))
        BY <2>1, <3>2, AdvancedFollows DEF Advance
      <4>6. ~Grants(subs[s])
        BY <2>1, <3>2 DEF Advanced, Renewed, Grants, Subscription
      <4>7. Advanced(subs[s], now) =
              [Lapse(subs[s], "past_due", TRUE, subs[s].pending) EXCEPT !.version = Target(subs[s])]
        BY <2>1, <3>2, <4>6 DEF Advanced, Lapse, Subscription
      <4>8. Target(Advanced(subs[s], now)) = Target(subs[s])
        BY <2>1, <4>7 DEF Target, Lapse, Subscription
      <4>9. s \in Rows'
        BY <2>1, <4>1, <1>0, TablesTyped
      <4> QED
        BY <2>1, <3>2, <4>1, <4>3, <4>4, <4>5, <4>6, <4>8, <4>9 DEF Writes, Still, Follows
    <3> QED
      BY <1>2, <3>1, <3>2 DEF AskRenewal
  <2>3. CASE UNCHANGED payVars
    BY <1>0, <2>2, <2>3 DEF Unpaid, payVars, Taken, PayShape, Made
  <2>4. CASE ~LiveRenewal(s) /\ NewIntent(i, u, Target(subs[s]), s, subs'[s].ver, subs[s].number)
    <3>1. /\ subs'[s].ver \in Nat /\ subs[s].number \in Nat
      BY <2>1, <2>2, SubscriptionAssumption DEF Subscription
    <3>2. \A j \in Intents :
            Made(j) /\ intents[j].renewal /\ intents[j].sub = s
            /\ intents[j].number = subs[s].number => intents[j].status \notin Live
      BY <2>4 DEF LiveRenewal
    <3>3. Moves(i) /\ PayShape'
      BY <1>0, <2>2, <2>4, <3>1, <3>2, NewIntentMoves
    <3>4. UNCHANGED <<received, adjusted>>
      BY <2>4 DEF NewIntent
    <3> QED
      BY <2>2, <3>3, <3>4 DEF Unpaid, Taken
  <2> QED
    BY <1>2, <2>3, <2>4 DEF AskRenewal
<1> QED
  BY <1>1, <1>2 DEF Ask

\* What a call of the adapter comes to.
LEMMA CallMoves ==
  ASSUME PayInv, NEW i \in Intents,
         AdapterAnswers(i) \/ SaveAnswer(i) \/ CallFails(i) \/ Crash(i)
  PROVE  Unpaid /\ Still /\ PayShape'
<1>0. PayShape /\ RowsNamed
  BY DEF PayInv
<1>1. /\ call[i] # "none" /\ Made(i) /\ intents[i] \in Intent
  BY <1>0, IntentTyped DEF PayShape, AdapterAnswers, SaveAnswer, CallFails, Crash
<1>2. UNCHANGED <<subVars, sent, received, adjusted>>
  BY DEF AdapterAnswers, SaveAnswer, CallFails, Crash
<1>3. /\ call' \in [Intents -> {"none", "open", "answered"}]
      /\ provider' \in [Intents -> {"none", "open", "paid", "closed"}]
      /\ \A j \in Intents : call'[j] # "none" \/ provider'[j] # "none" => Made(j)
  BY <1>0, <1>1 DEF PayShape, AdapterAnswers, SaveAnswer, CallFails, Crash
<1>4. UNCHANGED intents \/ Moves(i)
  <2>1. CASE AdapterAnswers(i) \/ Crash(i)
    BY <2>1 DEF AdapterAnswers, Crash
  <2>2. CASE SaveAnswer(i)
    <3>1. CASE intents[i].status # "creating"
      BY <2>2, <3>1 DEF SaveAnswer
    <3>2. CASE intents[i].status = "creating"
      <4>1. intents' = [intents EXCEPT ![i] =
              [intents[i] EXCEPT !.status = "requires_action", !.saved = TRUE,
                                 !.sub = intents[i].sub]]
        BY <1>0, <1>1, <2>2, <3>2 DEF SaveAnswer, PayShape, Intent
      <4> QED
        BY <1>0, <1>1, <3>2, <4>1, KeptWith DEF Live, Pending, Paid, Adjusted
    <3> QED
      BY <3>1, <3>2
  <2>3. CASE CallFails(i)
    <3>1. CASE intents[i].status # "creating"
      BY <2>3, <3>1 DEF CallFails
    <3>2. CASE intents[i].status = "creating"
      <4>1. intents' = [intents EXCEPT ![i] =
              [intents[i] EXCEPT !.status = "failed", !.saved = intents[i].saved,
                                 !.sub = intents[i].sub]]
        BY <1>0, <1>1, <2>3, <3>2 DEF CallFails, PayShape, Intent
      <4>2. intents[i].saved \in BOOLEAN
        BY <1>1 DEF Intent
      <4> QED
        BY <1>0, <1>1, <3>2, <4>1, <4>2, KeptWith DEF Live, Pending, Paid, Adjusted
    <3> QED
      BY <3>1, <3>2
  <2> QED
    BY <2>1, <2>2, <2>3
<1>5. PayShape'
  <2>1. /\ sent' \subseteq Intents \X Types /\ adjusted' \subseteq sent' /\ sent \subseteq sent'
        /\ \A j \in Intents, type \in Types : <<j, type>> \in sent' => Made(j)
        /\ \A e \in received' :
             <<e.intent, e.type>> \in sent' /\ e.status \in {"processed", "rejected"}
    BY <1>0, <1>2 DEF PayShape
  <2> QED
    BY <1>0, <1>3, <1>4, <2>1, ShapeStays
<1> QED
  BY <1>2, <1>4, <1>5 DEF Unpaid, Still, subVars, Writes, Quiet, Taken

\* The provider reports on what it was asked to make.
LEMMA ReportMoves ==
  ASSUME PayInv, NEW i \in Intents, Provider(i)
  PROVE  Unpaid /\ Still /\ PayShape'
<1>1. PICK type \in Types, from \in {"open", "paid"}, to \in {"open", "paid", "closed"} :
        Report(i, type, from, to)
  BY DEF Provider, Types
<1>2. /\ Made(i) /\ sent' = sent \cup {<<i, type>>}
      /\ provider' \in [Intents -> {"none", "open", "paid", "closed"}]
      /\ \A j \in Intents : provider'[j] # "none" => provider[j] # "none"
  BY <1>1 DEF Report, PayInv, PayShape
<1>3. UNCHANGED <<subVars, intents, call, received, adjusted>>
  BY <1>1 DEF Report
<1>4. PayShape'
  <2>1. PayShape
    BY DEF PayInv
  <2>2. /\ sent \subseteq sent' /\ sent' \subseteq Intents \X Types /\ adjusted' \subseteq sent'
    BY <1>1, <1>2, <1>3, <2>1 DEF PayShape
  <2>3. \A j \in Intents, other \in Types : <<j, other>> \in sent' => Made(j)
    BY <1>2, <2>1 DEF PayShape
  <2>4. /\ call' \in [Intents -> {"none", "open", "answered"}]
        /\ \A j \in Intents : call'[j] # "none" \/ provider'[j] # "none" => Made(j)
        /\ \A e \in received' :
             <<e.intent, e.type>> \in sent' /\ e.status \in {"processed", "rejected"}
    BY <1>2, <1>3, <2>1, <2>2 DEF PayShape
  <2> QED
    BY <1>2, <1>3, <2>1, <2>2, <2>3, <2>4, ShapeStays
<1> QED
  BY <1>3, <1>4 DEF Unpaid, Still, subVars, Writes, Quiet, Taken

\* An event that arrives is on an intent that was made, and is taken down with what
\* came of it.
LEMMA ReceivedOnce ==
  ASSUME PayInv, NEW i \in Intents, NEW type \in Types, Arrived(i, type),
         NEW status \in {"processed", "rejected"}, Receive(i, type, status)
  PROVE  /\ Made(i) /\ intents[i] \in Intent /\ ~Taken(i, type)
         /\ received \subseteq received'
         /\ \A e \in received' :
              <<e.intent, e.type>> \in sent /\ e.status \in {"processed", "rejected"}
         /\ \A j \in Intents, other \in Types :
              Taken(j, other)' <=> Taken(j, other) \/ (<<j, other>> = <<i, type>> /\ status = "processed")
<1>1. PayShape /\ <<i, type>> \in sent /\ Made(i)
  BY DEF PayInv, PayShape, Arrived
<1>2. intents[i] \in Intent
  BY <1>1, IntentTyped
<1>3. ~Taken(i, type)
  BY DEF Arrived, Taken
<1> DEFINE new == [intent |-> i, type |-> type, status |-> status]
<1>4. new.intent = i /\ new.type = type /\ new.status = status
  OBVIOUS
<1>5. \A j \in Intents, other \in Types :
        [intent |-> j, type |-> other, status |-> "processed"] = new
        <=> <<j, other>> = <<i, type>> /\ status = "processed"
  OBVIOUS
<1>6. received' = received \cup {new}
  BY DEF Receive
<1> HIDE DEF new
<1>7. \A e \in received' :
        <<e.intent, e.type>> \in sent /\ e.status \in {"processed", "rejected"}
  BY <1>1, <1>4, <1>6 DEF PayShape
<1>8. \A j \in Intents, other \in Types :
        Taken(j, other)' <=> Taken(j, other) \/ (<<j, other>> = <<i, type>> /\ status = "processed")
  BY <1>5, <1>6 DEF Taken
<1> QED
  BY <1>1, <1>2, <1>3, <1>6, <1>7, <1>8

\* The events that pay for nothing: those that are put away, and the failures.
LEMMA FailureMoves ==
  ASSUME PayInv, NEW i \in Intents, NEW type \in Types,
         WebhookUnknown(i, type) \/ WebhookFailed(i, type)
  PROVE  Unpaid /\ Still /\ PayShape'
<1>0. PayShape /\ RowsNamed
  BY DEF PayInv
<1>1. PICK status \in {"processed", "rejected"} :
        /\ Arrived(i, type) /\ Receive(i, type, status)
        /\ status = "processed" => type # "succeeded"
  BY DEF WebhookUnknown, WebhookFailed
<1>2. UNCHANGED <<subVars, call, provider, sent, adjusted>>
  BY DEF WebhookUnknown, WebhookFailed
<1>3. /\ Made(i) /\ intents[i] \in Intent /\ received \subseteq received'
      /\ \A e \in received' :
           <<e.intent, e.type>> \in sent /\ e.status \in {"processed", "rejected"}
      /\ \A j \in Intents : Taken(j, "succeeded")' => Taken(j, "succeeded")
  <2>1. "succeeded" \in Types
    BY DEF Types
  <2> QED
    BY <1>1, <2>1, ReceivedOnce
<1>4. UNCHANGED intents \/ Moves(i)
  <2>1. CASE UNCHANGED intents
    BY <2>1
  <2>2. CASE type \in {"failed", "cancelled"} /\ Settle(i, type)
    <3>1. intents' = [intents EXCEPT ![i] =
            [intents[i] EXCEPT !.status = type, !.saved = intents[i].saved,
                               !.sub = intents[i].sub]]
      BY <1>0, <1>3, <2>2 DEF Settle, PayShape, Intent
    <3>2. intents[i].saved \in BOOLEAN
      BY <1>3 DEF Intent
    <3> QED
      BY <1>0, <1>3, <2>2, <3>1, <3>2, KeptWith DEF Live, Pending, Paid, Adjusted
  <2> QED
    BY <2>1, <2>2 DEF WebhookUnknown, WebhookFailed
<1>5. PayShape'
  <2>1. /\ call' \in [Intents -> {"none", "open", "answered"}]
        /\ provider' \in [Intents -> {"none", "open", "paid", "closed"}]
        /\ sent' \subseteq Intents \X Types /\ adjusted' \subseteq sent' /\ sent \subseteq sent'
        /\ \A j \in Intents : call'[j] # "none" \/ provider'[j] # "none" => Made(j)
        /\ \A j \in Intents, other \in Types : <<j, other>> \in sent' => Made(j)
    BY <1>0, <1>2 DEF PayShape
  <2>2. \A e \in received' :
           <<e.intent, e.type>> \in sent' /\ e.status \in {"processed", "rejected"}
    BY <1>2, <1>3
  <2> QED
    BY <1>0, <1>4, <2>1, <2>2, ShapeStays
<1> QED
  BY <1>2, <1>3, <1>4, <1>5 DEF Unpaid, Still, subVars, Writes, Quiet

\* A payment that is taken: one event of its key, with the allowance it pays for.
Pays(i) ==
  /\ Writes /\ Moves(i) /\ UNCHANGED adjusted /\ received \subseteq received'
  /\ intents'[i].status = "succeeded"
  /\ \A j \in Intents, type \in Types :
       Taken(j, type)' <=> Taken(j, type) \/ <<j, type>> = <<i, "succeeded">>
  /\ \E e : /\ events' = events \cup {e} /\ e.key = PaymentKey(i, "succeeded")
            /\ Gives(e, i)'

\* What a payment finds when it is taken: the row as it was when the intent was made.
LEMMA RenewPaidFacts ==
  ASSUME PayInv, NEW i \in Intents, WebhookSucceeded(i), intents[i].renewal
  PROVE  LET s == intents[i].sub
         IN /\ s \in Rows /\ s \in Rows' /\ Changes
            /\ subs[s].status = "past_due" /\ subs[s].number = intents[i].number
            /\ subs'[s].user = intents[i].user /\ subs'[s].version = intents[i].version
            /\ \E n : /\ events' = events \cup
                           {Event(PaymentKey(i, "succeeded"), s, "payment_adapter", n, TRUE)}
                      /\ [sub |-> s, number |-> n, version |-> intents[i].version] \in allowances'
<1> DEFINE s   == intents[i].sub
           key == PaymentKey(i, "succeeded")
<1>1. /\ TypeInv /\ PayShape /\ RowsNamed /\ RowsSeen /\ KeysTell
      /\ Arrived(i, "succeeded") /\ RenewPaid(i) /\ "succeeded" \in Types
  BY DEF PayInv, Tables, WebhookSucceeded, Types
<1>2. Made(i) /\ ~Taken(i, "succeeded")
  BY <1>1 DEF PayShape, Arrived, Taken
<1>3. s \in Rows /\ SeesItsRow(i)
  BY <1>1, <1>2 DEF RowsNamed, RowsSeen, NamesItsRow
<1>4. s \in Subs /\ subs[s] \in Subscription /\ now \in 0 .. MaxTime
  BY <1>1, <1>3, RowFacts DEF TypeInv, TypeOK
<1>5. Transition(s, "renew", None, intents[i].expected, key, "payment_adapter")
  BY <1>1 DEF RenewPaid
<1>6. ~KeyUsed(key)
  BY <1>1, <1>2 DEF KeysTell, KeyUsed
<1>7. Changes
  BY <1>1, <1>4, <1>5, <1>6, TransitionChanges DEF Actions
<1>8. /\ subs[s].status = "past_due" /\ Target(subs[s]) = intents[i].version
      /\ subs[s].number = intents[i].number /\ subs[s].user = intents[i].user
  BY <1>3, <1>5 DEF Transition, Seen, SeesItsRow
<1>9. Write(s, Renewed(subs[s], now), key, "payment_adapter", TRUE) /\ Due(subs[s], now)
  BY <1>5 DEF Transition, MayChange, MayRenew
<1>10. Follows(subs[s], Renewed(subs[s], now), TRUE)
       /\ Renewed(subs[s], now).version = Target(subs[s])
  BY <1>4, <1>9, RenewedFollows
<1>11. subs'[s] = Renewed(subs[s], now)
  BY <1>1, <1>4, <1>9 DEF Write, TypeInv, TypeOK
<1>12. s \in Rows'
  BY <1>1, <1>3, <1>7, TablesTyped
<1>13. LET n == Renewed(subs[s], now).number
       IN /\ events' = events \cup {Event(key, s, "payment_adapter", n, TRUE)}
          /\ [sub |-> s, number |-> n, version |-> intents[i].version] \in allowances'
  BY <1>8, <1>9, <1>10 DEF Write, Recorded
<1> QED
  BY <1>3, <1>7, <1>8, <1>10, <1>11, <1>12, <1>13 DEF Follows

\* The first period of a payment, for a new row.
LEMMA ActivatePaidFacts ==
  ASSUME PayInv, NEW i \in Intents, Made(i), NEW s \in Subs, ActivatePaid(i, s)
  PROVE  /\ Creates /\ s \in Rows' /\ s # None
         /\ subs'[s].user = intents[i].user
         /\ events' = events \cup
              {Event(PaymentKey(i, "succeeded"), s, "payment_adapter", 0, TRUE)}
         /\ [sub |-> s, number |-> 0, version |-> intents[i].version] \in allowances'
<1> DEFINE p   == intents[i]
           key == PaymentKey(i, "succeeded")
<1>1. TypeInv /\ PayShape
  BY DEF PayInv, Tables
<1>2. /\ p.user \in Users /\ p.version \in Versions /\ now \in 0 .. MaxTime
  BY <1>1, IntentTyped, SubscriptionAssumption DEF Intent, TypeInv, TypeOK
<1>3. Activate(s, p.user, p.version, FALSE, now, key, "payment_adapter")
  BY DEF ActivatePaid
<1>4. Creates
  BY <1>1, <1>2, <1>3, ActivateCreates
<1>5. Insert(s, p.user, p.version, "active", now, TRUE, key, "payment_adapter")
  BY <1>3 DEF Activate
<1>6. subs'[s] = NewRow(p.user, p.version, "active", now, TRUE)
  BY <1>1, <1>5 DEF Insert, TypeInv, TypeOK
<1>7. NewRow(p.user, p.version, "active", now, TRUE) \in Subscription
  BY <1>2, SubscriptionAssumption DEF NewRow, Subscription, Callable
<1>8. s \in Rows'
  BY <1>6, <1>7, NoneIsNoRow DEF Rows, Row
<1>9. s # None
  BY SubscriptionAssumption
<1> QED
  BY <1>4, <1>5, <1>6, <1>8, <1>9 DEF Insert, Recorded, NewRow

\* The event and the allowance of a payment are what its intent asks for.
LEMMA EventGives ==
  ASSUME NEW i, NEW s, NEW n,
         Event(PaymentKey(i, "succeeded"), s, "payment_adapter", n, TRUE) \in events',
         intents'[i].sub = s, subs'[s].user = intents'[i].user,
         [sub |-> s, number |-> n, version |-> intents'[i].version] \in allowances'
  PROVE  Gives(Event(PaymentKey(i, "succeeded"), s, "payment_adapter", n, TRUE), i)'
BY DEF Gives, Event, PaymentKey

LEMMA SuccessMoves ==
  ASSUME PayInv, NEW i \in Intents, WebhookSucceeded(i)
  PROVE  Pays(i) /\ Still /\ PayShape'
<1>0. PayShape /\ RowsNamed /\ "succeeded" \in Types
  BY DEF PayInv, Types
<1>1. /\ Arrived(i, "succeeded") /\ Receive(i, "succeeded", "processed")
      /\ intents[i].status \in Pending
      /\ UNCHANGED <<now, clientVars, runs, held, call, provider, sent, adjusted>>
  BY DEF WebhookSucceeded, Pending
<1>2. /\ Made(i) /\ intents[i] \in Intent /\ received \subseteq received'
      /\ \A e \in received' :
           <<e.intent, e.type>> \in sent /\ e.status \in {"processed", "rejected"}
      /\ \A j \in Intents, type \in Types :
           Taken(j, type)' <=> Taken(j, type) \/ <<j, type>> = <<i, "succeeded">>
  BY <1>0, <1>1, ReceivedOnce
<1>3. intents[i].saved \in BOOLEAN
  BY <1>2 DEF Intent
<1> DEFINE Paying == \E e : /\ events' = events \cup {e} /\ e.key = PaymentKey(i, "succeeded")
                            /\ Gives(e, i)'
<1>4. ASSUME intents[i].renewal
      PROVE  Moves(i) /\ intents'[i].status = "succeeded" /\ Paying /\ Writes
  <2>0. PICK s : s = intents[i].sub
    OBVIOUS
  <2>1. intents' = [intents EXCEPT ![i] =
          [intents[i] EXCEPT !.status = "succeeded", !.saved = intents[i].saved, !.sub = s]]
    <3>1. intents' = [intents EXCEPT ![i].status = "succeeded"]
      BY <1>4 DEF WebhookSucceeded, RenewPaid, Settle
    <3>2. [intents[i] EXCEPT !.status = "succeeded"]
            = [intents[i] EXCEPT !.status = "succeeded", !.saved = intents[i].saved, !.sub = s]
      BY <1>2, <2>0 DEF Intent
    <3>3. intents' = [intents EXCEPT ![i] = [intents[i] EXCEPT !.status = "succeeded"]]
      BY <1>0, <3>1 DEF PayShape
    <3> QED
      BY <3>2, <3>3
  <2>2. Moves(i)
    BY <1>0, <1>1, <1>2, <1>3, <1>4, <2>0, <2>1, KeptWith DEF Live, Pending, Paid, Adjusted
  <2>3. /\ intents'[i].status = "succeeded" /\ intents'[i].sub = s
        /\ intents'[i].user = intents[i].user /\ intents'[i].version = intents[i].version
    BY <1>0, <1>2, <2>1 DEF PayShape, Intent
  <2>4. PICK n : /\ events' = events \cup
                      {Event(PaymentKey(i, "succeeded"), s, "payment_adapter", n, TRUE)}
                 /\ [sub |-> s, number |-> n, version |-> intents[i].version] \in allowances'
    BY <1>4, <2>0, RenewPaidFacts
  <2>5. Changes /\ subs'[s].user = intents[i].user
    BY <1>4, <2>0, RenewPaidFacts
  <2>6. Gives(Event(PaymentKey(i, "succeeded"), s, "payment_adapter", n, TRUE), i)'
    BY <2>3, <2>4, <2>5, EventGives
  <2>7. Paying
    <3> DEFINE e == Event(PaymentKey(i, "succeeded"), s, "payment_adapter", n, TRUE)
    <3>1. e.key = PaymentKey(i, "succeeded")
      BY DEF Event
    <3> QED
      BY <2>4, <2>6, <3>1, Zenon
  <2> QED
    BY <2>2, <2>3, <2>5, <2>7 DEF Writes
<1>5. ASSUME ~intents[i].renewal
      PROVE  Moves(i) /\ intents'[i].status = "succeeded" /\ Paying /\ Writes
  <2>1. PICK s \in Subs : ActivatePaid(i, s)
    BY <1>5 DEF WebhookSucceeded
  <2>2. /\ Creates /\ s \in Rows' /\ s # None
        /\ subs'[s].user = intents[i].user
        /\ events' = events \cup
             {Event(PaymentKey(i, "succeeded"), s, "payment_adapter", 0, TRUE)}
        /\ [sub |-> s, number |-> 0, version |-> intents[i].version] \in allowances'
    BY <1>2, <2>1, ActivatePaidFacts
  <2>3. intents' = [intents EXCEPT ![i] =
          [intents[i] EXCEPT !.status = "succeeded", !.saved = intents[i].saved, !.sub = s]]
    BY <1>0, <1>2, <2>1 DEF ActivatePaid, PayShape, Intent
  <2>4. Moves(i)
    BY <1>0, <1>1, <1>2, <1>3, <1>5, <2>2, <2>3, KeptWith DEF Live, Pending, Paid, Adjusted
  <2>5. /\ intents'[i].status = "succeeded" /\ intents'[i].sub = s
        /\ intents'[i].user = intents[i].user /\ intents'[i].version = intents[i].version
    BY <1>0, <1>2, <2>3 DEF PayShape, Intent
  <2>6. Gives(Event(PaymentKey(i, "succeeded"), s, "payment_adapter", 0, TRUE), i)'
    BY <2>2, <2>5, EventGives
  <2>7. Paying
    BY <2>2, <2>6 DEF Event
  <2> QED
    BY <2>2, <2>4, <2>5, <2>7 DEF Writes
<1>6. Moves(i) /\ intents'[i].status = "succeeded" /\ Paying /\ Writes
  BY <1>4, <1>5
<1>7. PayShape'
  <2>1. /\ call' \in [Intents -> {"none", "open", "answered"}]
        /\ provider' \in [Intents -> {"none", "open", "paid", "closed"}]
        /\ sent' \subseteq Intents \X Types /\ adjusted' \subseteq sent' /\ sent \subseteq sent'
        /\ \A j \in Intents : call'[j] # "none" \/ provider'[j] # "none" => Made(j)
        /\ \A j \in Intents, other \in Types : <<j, other>> \in sent' => Made(j)
    BY <1>0, <1>1 DEF PayShape
  <2>2. \A e \in received' :
           <<e.intent, e.type>> \in sent' /\ e.status \in {"processed", "rejected"}
    BY <1>1, <1>2
  <2> QED
    BY <1>0, <1>6, <2>1, <2>2, ShapeStays
<1> QED
  BY <1>1, <1>2, <1>6, <1>7 DEF Pays, Still

\* An adjustment: whatever the row was, it has ended, and nothing is granted.
Adjusts(i, type) ==
  /\ Writes /\ Moves(i) /\ adjusted' = adjusted \cup {<<i, type>>}
  /\ received \subseteq received' /\ type # "succeeded"
  /\ \A j \in Intents, other \in Types :
       Taken(j, other)' <=> Taken(j, other) \/ <<j, other>> = <<i, type>>
  /\ EndedFor(i)'
  /\ \E e : /\ events' = events \cup {e} /\ e.key = PaymentKey(i, type)
            /\ e.grants = FALSE

LEMMA RevokedFollows ==
  ASSUME NEW r \in Subscription
  PROVE  /\ Follows(r, Revoked(r), FALSE) /\ KeepsBoundary(r, Revoked(r), FALSE)
         /\ Revoked(r).status = "cancelled" /\ Revoked(r).number = r.number
<1>1. r.ver + 1 \in Nat \ {0}
  BY DEF Subscription
<1>2. "cancelled" \in Callable \cup Terminal
  BY DEF Terminal
<1>3. Revoked(r) \in Subscription
  BY <1>1, <1>2, Zenon DEF Revoked, Subscription
<1>4. /\ Revoked(r).user = r.user /\ Revoked(r).status = "cancelled"
      /\ Revoked(r).number = r.number /\ Revoked(r).version = r.version
  BY DEF Revoked, Subscription
<1> QED
  BY <1>3, <1>4 DEF Follows, KeepsBoundary, Terminal

LEMMA RevokeEnds ==
  ASSUME PayInv, NEW i \in Intents, NEW type \in Types, Made(i), ~Taken(i, type),
         intents[i].sub # None, Revoke(i, type), UNCHANGED allowances
  PROVE  /\ Writes /\ subs'[intents[i].sub].status = "cancelled"
         /\ \E n : events' = events \cup
              {Event(PaymentKey(i, type), intents[i].sub, "payment_adapter", n, FALSE)}
<1>0. PICK s : s = intents[i].sub
  OBVIOUS
<1> DEFINE key == PaymentKey(i, type)
<1>1. /\ TypeInv /\ s \in Rows /\ ~KeyUsed(key)
  BY <1>0 DEF PayInv, Tables, RowsNamed, NamesItsRow, KeysTell, KeyUsed
<1>2. s \in Subs /\ subs[s] \in Subscription
  BY <1>1, RowFacts DEF TypeInv
<1>3. events' = events \cup {Event(key, s, "payment_adapter", subs[s].number, FALSE)}
  BY <1>0 DEF Revoke
<1>4. CASE subs[s].status = "cancelled"
  <2>1. subs' = subs
    BY <1>0, <1>4 DEF Revoke
  <2>2. PICK e : e = Event(key, s, "payment_adapter", subs[s].number, FALSE)
    OBVIOUS
  <2>3. e.sub = s /\ e.actor = "payment_adapter" /\ e.grants = FALSE
    BY <2>2 DEF Event
  <2>4. Notes
    BY <1>1, <1>3, <2>1, <2>2, <2>3 DEF Notes
  <2> QED
    BY <1>0, <1>3, <1>4, <2>1, <2>4 DEF Writes
<1>5. CASE subs[s].status # "cancelled"
  <2>1. /\ Free(s) /\ TriggerAccepts(subs[s], Revoked(subs[s]))
        /\ subs' = [subs EXCEPT ![s] = Revoked(subs[s])]
    BY <1>0, <1>5 DEF Revoke
  <2>2. /\ Follows(subs[s], Revoked(subs[s]), FALSE)
        /\ KeepsBoundary(subs[s], Revoked(subs[s]), FALSE)
        /\ Revoked(subs[s]).status = "cancelled"
        /\ Revoked(subs[s]).number = subs[s].number
    BY <1>2, RevokedFollows
  <2>3. Write(s, Revoked(subs[s]), key, "payment_adapter", FALSE)
    BY <1>3, <2>1, <2>2 DEF Write, Recorded
  <2>4. Change(s, Revoked(subs[s]), key, "payment_adapter", FALSE)
    BY <1>1, <2>2, <2>3 DEF Change
  <2>5. Changes
    BY <1>2, <2>2, <2>4 DEF Changes, Follows
  <2>6. subs'[s].status = "cancelled"
    BY <1>1, <1>2, <2>1, <2>2 DEF TypeInv, TypeOK
  <2> QED
    BY <1>0, <1>3, <2>5, <2>6 DEF Writes
<1> QED
  BY <1>4, <1>5

LEMMA AdjustmentMoves ==
  ASSUME PayInv, NEW i \in Intents, NEW type \in Types, WebhookAdjusted(i, type)
  PROVE  Adjusts(i, type) /\ Still /\ PayShape'
<1>0. PayShape /\ RowsNamed
  BY DEF PayInv
<1>1. /\ type \in Adjusted /\ type # "succeeded"
      /\ Arrived(i, type) /\ Receive(i, type, "processed") /\ Settle(i, type)
      /\ intents[i].sub # None /\ intents[i].status \in Paid
      /\ Revoke(i, type) /\ adjusted' = adjusted \cup {<<i, type>>}
      /\ UNCHANGED <<now, allowances, clientVars, runs, held, call, provider, sent>>
  BY DEF WebhookAdjusted, Paid, Adjusted
<1>2. /\ Made(i) /\ intents[i] \in Intent /\ received \subseteq received' /\ ~Taken(i, type)
      /\ \A e \in received' :
           <<e.intent, e.type>> \in sent /\ e.status \in {"processed", "rejected"}
      /\ \A j \in Intents, other \in Types :
           Taken(j, other)' <=> Taken(j, other) \/ <<j, other>> = <<i, type>>
  BY <1>1, ReceivedOnce
<1>3. PICK s : s = intents[i].sub
  OBVIOUS
<1>4. /\ Writes /\ subs'[s].status = "cancelled"
      /\ \E n : events' = events \cup
           {Event(PaymentKey(i, type), s, "payment_adapter", n, FALSE)}
  BY <1>1, <1>2, <1>3, RevokeEnds
<1>5. intents' = [intents EXCEPT ![i] =
        [intents[i] EXCEPT !.status = type, !.saved = intents[i].saved, !.sub = s]]
  BY <1>0, <1>1, <1>2, <1>3 DEF Settle, PayShape, Intent
<1>6. intents[i].saved \in BOOLEAN
  BY <1>2 DEF Intent
<1>7. Moves(i)
  BY <1>0, <1>1, <1>2, <1>3, <1>5, <1>6, KeptWith DEF Live, Pending, Paid, Adjusted
<1>8. EndedFor(i)'
  <2>1. intents'[i].status = type /\ intents'[i].sub = s
    BY <1>0, <1>2, <1>5 DEF PayShape, Intent
  <2>2. type \notin Pending
    BY <1>1 DEF Adjusted, Pending
  <2> QED
    BY <1>1, <1>3, <1>4, <2>1, <2>2 DEF EndedFor, Pending
<1>9. \E e : /\ events' = events \cup {e} /\ e.key = PaymentKey(i, type)
             /\ e.grants = FALSE
  <2>1. PICK n : events' = events \cup
                   {Event(PaymentKey(i, type), s, "payment_adapter", n, FALSE)}
    BY <1>4
  <2>2. PICK e : e = Event(PaymentKey(i, type), s, "payment_adapter", n, FALSE)
    OBVIOUS
  <2>3. e.key = PaymentKey(i, type) /\ e.grants = FALSE
    BY <2>2 DEF Event
  <2> QED
    BY <2>1, <2>2, <2>3
<1>10. PayShape'
  <2>1. /\ call' \in [Intents -> {"none", "open", "answered"}]
        /\ provider' \in [Intents -> {"none", "open", "paid", "closed"}]
        /\ sent' \subseteq Intents \X Types /\ sent \subseteq sent'
        /\ \A j \in Intents : call'[j] # "none" \/ provider'[j] # "none" => Made(j)
        /\ \A j \in Intents, other \in Types : <<j, other>> \in sent' => Made(j)
    BY <1>0, <1>1 DEF PayShape
  <2>2. \A e \in received' :
           <<e.intent, e.type>> \in sent' /\ e.status \in {"processed", "rejected"}
    BY <1>1, <1>2
  <2>3. adjusted' \subseteq sent'
    BY <1>0, <1>1 DEF PayShape, Arrived
  <2> QED
    BY <1>0, <1>7, <2>1, <2>2, <2>3, ShapeStays
<1> QED
  BY <1>1, <1>2, <1>4, <1>7, <1>8, <1>9, <1>10 DEF Adjusts, Still

\* Every step is one of these.
LEMMA PayStepKinds ==
  ASSUME PayInv, [PayNext]_vars
  PROVE  /\ PayShape' /\ TypeInv'
         /\ \/ Unpaid
            \/ \E i \in Intents : Pays(i)
            \/ \E i \in Intents, type \in Types : Adjusts(i, type)
<1> DEFINE Kinds == \/ Unpaid
                    \/ \E i \in Intents : Pays(i)
                    \/ \E i \in Intents, type \in Types : Adjusts(i, type)
<1>0. TypeInv /\ PayShape
  BY DEF PayInv, Tables
<1>1. CASE [SubscriptionNext]_subVars /\ UNCHANGED payVars
  <2>1. PayShape'
    BY <1>0, <1>1 DEF payVars, PayShape, Made
  <2>2. TypeInv'
    BY <1>0, <1>1, TypesPreserved
  <2>3. Writes
    BY <1>0, <1>1, StepKinds DEF Writes
  <2>4. \A e \in events' \ events : Ordinary(e)
    BY <1>0, <1>1, EventsAreOrdinary
  <2>5. Unpaid
    BY <1>1, <2>3, <2>4 DEF Unpaid, payVars, Taken
  <2> QED
    BY <2>1, <2>2, <2>5
<1>2. ASSUME NEW i \in Intents,
             \/ Ask(i) \/ AdapterAnswers(i) \/ SaveAnswer(i) \/ CallFails(i) \/ Crash(i)
             \/ Provider(i) \/ Webhook(i)
      PROVE  Kinds /\ Still /\ PayShape' /\ Writes
  <2>1. CASE Ask(i)
    BY <2>1, AskMoves DEF Unpaid
  <2>2. CASE AdapterAnswers(i) \/ SaveAnswer(i) \/ CallFails(i) \/ Crash(i)
    BY <2>2, CallMoves DEF Unpaid
  <2>3. CASE Provider(i)
    BY <2>3, ReportMoves DEF Unpaid
  <2>4. CASE WebhookSucceeded(i)
    BY <2>4, SuccessMoves DEF Pays
  <2>5. ASSUME NEW type \in Types,
               WebhookUnknown(i, type) \/ WebhookFailed(i, type) \/ WebhookAdjusted(i, type)
        PROVE  Kinds /\ Still /\ PayShape' /\ Writes
    <3>1. CASE WebhookUnknown(i, type) \/ WebhookFailed(i, type)
      BY <3>1, FailureMoves DEF Unpaid
    <3>2. CASE WebhookAdjusted(i, type)
      <4>1. Adjusts(i, type) /\ Still /\ PayShape'
        BY <3>2, AdjustmentMoves
      <4>2. Writes
        BY <4>1 DEF Adjusts
      <4> QED
        BY <4>1, <4>2
    <3> QED
      BY <2>5, <3>1, <3>2
  <2> QED
    BY <1>2, <2>1, <2>2, <2>3, <2>4, <2>5 DEF Webhook
<1>3. ASSUME Still, Writes
      PROVE  TypeInv'
    BY <1>0, <1>3, TypesKeptByPayments DEF Still
<1>4. \/ [SubscriptionNext]_subVars /\ UNCHANGED payVars
      \/ \E i \in Intents :
           \/ Ask(i) \/ AdapterAnswers(i) \/ SaveAnswer(i) \/ CallFails(i) \/ Crash(i)
           \/ Provider(i) \/ Webhook(i)
  BY DEF PayNext, vars
<1> QED
  BY <1>1, <1>2, <1>3, <1>4

-----------------------------------------------------------------------------
(* The parts of the invariant.                                             *)

PayStep ==
  \/ Unpaid
  \/ \E i \in Intents : Pays(i)
  \/ \E i \in Intents, type \in Types : Adjusts(i, type)

\* What all the steps have in common, said of one intent.
LEMMA IntentKinds ==
  ASSUME PayStep, NEW j \in Intents
  PROVE  \/ Made(j) /\ Kept(j)
         \/ intents'[j] = intents[j]
         \/ Fresh(j)
<1>1. UNCHANGED intents \/ \E i \in Intents : Moves(i)
  BY DEF PayStep, Unpaid, Pays, Adjusts
<1> QED
  BY <1>1 DEF Moves

LEMMA StepGrows ==
  ASSUME TypeInv, PayStep
  PROVE  Grows /\ received \subseteq received'
         /\ \A i \in Intents, type \in Types : Taken(i, type) => Taken(i, type)'
<1>1. Writes /\ received \subseteq received'
  BY DEF PayStep, Unpaid, Pays, Adjusts
<1> QED
  BY <1>1, WritesGrow DEF Taken

\* What is settled stays for the same user, version and row.
LEMMA SettledStays ==
  ASSUME PayStep, NEW j \in Intents, Made(j), intents[j].status \notin Pending
  PROVE  /\ intents'[j].status \notin Pending /\ intents'[j].sub = intents[j].sub
         /\ intents'[j].user = intents[j].user /\ intents'[j].version = intents[j].version
BY IntentKinds DEF Kept, Fresh

LEMMA TakenIsMade ==
  ASSUME PayShape, NEW j \in Intents, Taken(j, "succeeded")
  PROVE  Made(j)
BY DEF PayShape, Taken, Types

LEMMA NamedPreserved ==
  ASSUME PayInv, PayStep
  PROVE  RowsNamed'
<1> SUFFICES ASSUME NEW j \in Intents, Made(j)' PROVE NamesItsRow(j)'
  BY DEF RowsNamed
<1>1. Rows \subseteq Rows'
  BY StepGrows DEF PayInv, Tables, Grows
<1>2. CASE Made(j) /\ Kept(j)
  <2>1. NamesItsRow(j)
    BY <1>2 DEF PayInv, RowsNamed
  <2> QED
    BY <1>1, <1>2, <2>1 DEF Kept, NamesItsRow
<1>3. CASE intents'[j] = intents[j]
  <2>1. NamesItsRow(j)
    BY <1>3 DEF PayInv, RowsNamed, Made
  <2> QED
    BY <1>1, <1>3, <2>1 DEF NamesItsRow
<1>4. CASE Fresh(j)
  BY <1>4, SubscriptionAssumption DEF Fresh, NamesItsRow, Paid, Adjusted, Rows
<1> QED
  BY <1>2, <1>3, <1>4, IntentKinds

\* A row moves on or stays as a renewal has seen it.
LEMMA SeenStays ==
  ASSUME PayInv, PayStep, NEW j \in Intents, Made(j), intents[j].renewal,
         intents'[j].sub = intents[j].sub, intents'[j].user = intents[j].user,
         intents'[j].version = intents[j].version,
         intents'[j].expected = intents[j].expected, intents'[j].number = intents[j].number
  PROVE  SeesItsRow(j)'
<1>1. TypeInv /\ PayShape /\ SeesItsRow(j) /\ NamesItsRow(j)
  BY DEF PayInv, Tables, RowsNamed, RowsSeen
<1>2. PICK s : s = intents[j].sub
  OBVIOUS
<1>3. s \in Rows /\ subs[s] \in Subscription
  BY <1>1, <1>2, RowFacts DEF TypeInv, NamesItsRow
<1>4. /\ subs'[s].user = subs[s].user
      /\ subs'[s] = subs[s] \/ subs'[s].ver = subs[s].ver + 1
  BY <1>1, <1>3, StepGrows DEF Grows
<1>5. intents[j].expected \in Nat /\ subs[s].ver \in Nat
  BY <1>1, <1>3, IntentTyped DEF Intent, Subscription
<1> QED
  BY <1>1, <1>2, <1>4, <1>5 DEF SeesItsRow, Target

LEMMA SeenPreserved ==
  ASSUME PayInv, PayStep
  PROVE  RowsSeen'
<1> SUFFICES ASSUME NEW j \in Intents, Made(j)', intents'[j].renewal PROVE SeesItsRow(j)'
  BY DEF RowsSeen
<1>1. CASE Made(j) /\ Kept(j)
  <2>1. intents[j].renewal
    BY <1>1 DEF Kept
  <2>2. intents'[j].sub = intents[j].sub
    BY <1>1, <2>1 DEF Kept
  <2> QED
    BY <1>1, <2>1, <2>2, SeenStays DEF Kept
<1>2. CASE intents'[j] = intents[j]
  BY <1>2, SeenStays DEF Made
<1>3. CASE Fresh(j)
  <2>1. /\ intents'[j].sub \in Rows' /\ subs'[intents'[j].sub].user = intents'[j].user
        /\ intents'[j].expected = subs'[intents'[j].sub].ver
        /\ subs'[intents'[j].sub].status = "past_due"
        /\ Target(subs'[intents'[j].sub]) = intents'[j].version
        /\ subs'[intents'[j].sub].number = intents'[j].number
        /\ intents'[j] \in Intent
    BY <1>3 DEF Fresh
  <2> QED
    BY <2>1 DEF SeesItsRow, Intent, Target
<1> QED
  BY <1>1, <1>2, <1>3, IntentKinds

LEMMA SettledPreserved ==
  ASSUME PayInv, PayStep
  PROVE  TakenIsSettled'
<1> SUFFICES ASSUME NEW j \in Intents, Taken(j, "succeeded")'
             PROVE  intents'[j].status \notin Pending
  BY DEF TakenIsSettled
<1>1. CASE Taken(j, "succeeded")
  <2>1. Made(j) /\ intents[j].status \notin Pending
    BY <1>1, TakenIsMade DEF PayInv, TakenIsSettled
  <2> QED
    BY <2>1, SettledStays
<1>2. CASE ~Taken(j, "succeeded")
  <2>1. Pays(j)
    BY <1>2 DEF PayStep, Unpaid, Pays, Adjusts, Types
  <2> QED
    BY <2>1 DEF Pays, Pending
<1> QED
  BY <1>1, <1>2

LEMMA EndedPreserved ==
  ASSUME PayInv, PayStep
  PROVE  AdjustedHasEnded'
<1> SUFFICES ASSUME NEW a \in adjusted' PROVE EndedFor(a[1])'
  BY DEF AdjustedHasEnded
<1>1. CASE a \in adjusted
  <2> DEFINE j == a[1]
  <2>1. j \in Intents /\ Made(j) /\ EndedFor(j) /\ NamesItsRow(j)
    BY <1>1 DEF PayInv, PayShape, AdjustedHasEnded, RowsNamed
  <2>2. PICK s : s = intents[j].sub
    OBVIOUS
  <2>3. intents'[j].status \notin Pending /\ intents'[j].sub = s
    BY <2>1, <2>2, SettledStays DEF EndedFor
  <2>4. s \in Rows /\ s # None /\ subs[s].status = "cancelled"
    BY <2>1, <2>2 DEF EndedFor, NamesItsRow
  <2>5. subs'[s] = subs[s]
    BY <2>4, StepGrows DEF Grows, PayInv, Tables, Terminal
  <2> QED
    BY <2>3, <2>4, <2>5 DEF EndedFor
<1>2. CASE a \notin adjusted
  <2>1. PICK i \in Intents, type \in Types : Adjusts(i, type) /\ a = <<i, type>>
    BY <1>2 DEF PayStep, Unpaid, Pays, Adjusts
  <2> QED
    BY <2>1 DEF Adjusts
<1> QED
  BY <1>1, <1>2

LEMMA KeysPreserved ==
  ASSUME PayInv, PayStep
  PROVE  KeysTell'
<1> SUFFICES ASSUME NEW e \in events', NEW i \in Intents, NEW type \in Types,
                    e.key = PaymentKey(i, type)
             PROVE  Taken(i, type)'
  BY DEF KeysTell
<1>1. CASE e \in events
  BY <1>1, StepGrows DEF PayInv, Tables, KeysTell
<1>2. CASE e \notin events
  <2>1. CASE Unpaid
    BY <1>2, <2>1 DEF Unpaid, Ordinary, IsPayment
  <2>2. ASSUME NEW j \in Intents, Pays(j)
        PROVE  Taken(i, type)'
    <3>1. e.key = PaymentKey(j, "succeeded")
      BY <1>2, <2>2 DEF Pays
    <3>2. i = j /\ type = "succeeded"
      BY <3>1, KeysOfPayments
    <3> QED
      BY <2>2, <3>2 DEF Pays
  <2>3. ASSUME NEW j \in Intents, NEW other \in Types, Adjusts(j, other)
        PROVE  Taken(i, type)'
    <3>1. e.key = PaymentKey(j, other)
      BY <1>2, <2>3 DEF Adjusts
    <3>2. i = j /\ type = other
      <4>1. PaymentKey(i, type) = PaymentKey(j, other)
        BY <3>1
      <4> QED
        BY <4>1, KeysOfPayments
    <3> QED
      BY <2>3, <3>2 DEF Adjusts
  <2> QED
    BY <2>1, <2>2, <2>3 DEF PayStep
<1> QED
  BY <1>1, <1>2

LEMMA GivenPreserved ==
  ASSUME PayInv, PayStep
  PROVE  TakenIsGiven'
<1> SUFFICES ASSUME NEW j \in Intents, Taken(j, "succeeded")' PROVE \E e : Gives(e, j)'
  BY DEF TakenIsGiven
<1>1. CASE Taken(j, "succeeded")
  <2>1. PICK e : Gives(e, j)
    BY <1>1 DEF PayInv, TakenIsGiven
  <2>2. TypeInv /\ Made(j) /\ intents[j].status \notin Pending
    BY <1>1, TakenIsMade DEF PayInv, Tables, TakenIsSettled
  <2>3. /\ intents'[j].sub = intents[j].sub /\ intents'[j].user = intents[j].user
        /\ intents'[j].version = intents[j].version
    BY <2>2, SettledStays
  <2>4. e.sub \in Rows
    BY <2>1, <2>2 DEF Gives, TypeInv, TypeOK
  <2>5. subs'[e.sub].user = subs[e.sub].user /\ events \subseteq events'
        /\ allowances \subseteq allowances'
    BY <2>2, <2>4, StepGrows DEF Grows
  <2>6. Gives(e, j)'
    BY <2>1, <2>3, <2>5 DEF Gives, PaymentKey
  <2> QED
    BY <2>6
<1>2. CASE ~Taken(j, "succeeded")
  <2>1. Pays(j)
    BY <1>2 DEF PayStep, Unpaid, Pays, Adjusts, Types
  <2> QED
    BY <2>1 DEF Pays
<1> QED
  BY <1>1, <1>2

LEMMA TakenPreserved ==
  ASSUME PayInv, PayStep
  PROVE  GivenIsTaken'
<1>0. "succeeded" \in Types
  BY DEF Types
<1> SUFFICES ASSUME NEW e \in events', e.actor = "payment_adapter", e.grants
             PROVE  PaidFor(e)'
  BY DEF GivenIsTaken
<1>1. CASE e \in events
  <2>1. PICK i \in Intents : Taken(i, "succeeded") /\ e.key = PaymentKey(i, "succeeded")
    BY <1>1 DEF PayInv, GivenIsTaken, PaidFor
  <2>2. Taken(i, "succeeded")'
    BY <1>0, <2>1, StepGrows DEF PayInv, Tables
  <2> QED
    BY <2>1, <2>2 DEF PaidFor, PaymentKey
<1>2. CASE e \notin events
  <2>1. PICK i \in Intents : Pays(i)
    BY <1>2 DEF PayStep, Unpaid, Adjusts, Ordinary
  <2>2. e.key = PaymentKey(i, "succeeded") /\ Taken(i, "succeeded")'
    BY <1>0, <1>2, <2>1 DEF Pays
  <2> QED
    BY <2>2 DEF PaidFor, PaymentKey
<1> QED
  BY <1>1, <1>2

\* Two live payments for one period would both have been there before, or one would
\* have been made beside the other.
LEMMA LivePreserved ==
  ASSUME PayInv, PayStep
  PROVE  OneLiveRenewal'
<1> DEFINE Lives(i, s, n) ==
      /\ Made(i) /\ intents[i].renewal /\ intents[i].sub = s /\ intents[i].number = n
      /\ intents[i].status \in Live
<1> SUFFICES ASSUME NEW i \in Intents, NEW j \in Intents, i # j, NEW s, NEW n,
                    Lives(i, s, n)', Lives(j, s, n)'
             PROVE  FALSE
  BY DEF OneLiveRenewal
<1>1. ASSUME NEW k \in Intents, Lives(k, s, n)'
      PROVE  Lives(k, s, n) \/ Fresh(k)
  <2>1. CASE Made(k) /\ Kept(k)
    BY <1>1, <2>1 DEF Kept
  <2>2. CASE intents'[k] = intents[k]
    BY <1>1, <2>2 DEF Made
  <2> QED
    BY <2>1, <2>2, IntentKinds
<1>2. ~(Lives(i, s, n) /\ Lives(j, s, n))
  BY DEF PayInv, OneLiveRenewal
<1>3. ASSUME NEW k \in Intents, NEW l \in Intents, k # l, Fresh(k), Lives(k, s, n)',
             Lives(l, s, n)'
      PROVE  FALSE
  <2>1. intents'[k] # intents[k] /\ ~Made(k)
    BY <1>3, NoneIsNoIntent DEF Fresh, Made
  <2>2. Moves(k)
    <3>1. PICK m \in Intents : Moves(m)
      BY <2>1 DEF PayStep, Unpaid, Pays, Adjusts
    <3> QED
      BY <2>1, <3>1 DEF Moves
  <2>3. intents'[l] = intents[l]
    BY <1>3, <2>2 DEF Moves
  <2>4. Lives(l, s, n)
    BY <1>3, <2>3 DEF Made
  <2> QED
    BY <1>3, <2>4 DEF Fresh
<1> QED
  BY <1>1, <1>2, <1>3

LEMMA PayInvPreserved == PayInv /\ [PayNext]_vars => PayInv'
<1> SUFFICES ASSUME PayInv, [PayNext]_vars PROVE PayInv'
  OBVIOUS
<1>1. PayShape' /\ TypeInv' /\ PayStep
  BY PayStepKinds DEF PayStep
<1>2. Tables'
  BY <1>1, TablesPreserved DEF PayInv, PayStep, Unpaid, Pays, Adjusts
<1> QED
  BY <1>1, <1>2, NamedPreserved, SeenPreserved, SettledPreserved, EndedPreserved,
     KeysPreserved, GivenPreserved, TakenPreserved, LivePreserved
     DEF PayInv

\* Only a success that is taken makes an intent a paid one.
LEMMA SucceedsByWebhook ==
  ASSUME PayInv, PayNext, NEW i \in Intents, Made(i),
         intents'[i].status = "succeeded", intents[i].status # "succeeded"
  PROVE  WebhookSucceeded(i)
<1>0. intents' # intents /\ intents[i] \in Intent /\ PayShape
  BY IntentTyped DEF PayInv
<1>1. ~UNCHANGED payVars
  BY <1>0 DEF payVars
<1>2. PICK j \in Intents :
        \/ Ask(j) \/ AdapterAnswers(j) \/ SaveAnswer(j) \/ CallFails(j) \/ Crash(j)
        \/ Provider(j) \/ Webhook(j)
  BY <1>1 DEF PayNext
<1>3. ASSUME NEW status \in {"requires_action", "failed", "cancelled"} \cup Adjusted,
             intents' = [intents EXCEPT ![j].status = status]
      PROVE  FALSE
  BY <1>0, <1>3 DEF PayShape, Intent, Adjusted
<1>4. CASE Ask(j)
  <2>1. \A u, v, s, e, n : NewIntent(j, u, v, s, e, n) => intents'[i] = intents[i]
    BY <1>0 DEF NewIntent, PayShape
  <2> QED
    BY <1>0, <1>4, <2>1 DEF Ask, AskActivation, AskRenewal, payVars
<1>5. CASE AdapterAnswers(j) \/ Crash(j) \/ Provider(j)
  BY <1>0, <1>5 DEF AdapterAnswers, Crash, Provider, Report
<1>6. CASE SaveAnswer(j)
  BY <1>0, <1>6 DEF SaveAnswer, PayShape, Intent
<1>7. CASE CallFails(j)
  BY <1>0, <1>3, <1>7 DEF CallFails
<1>8. ASSUME NEW type \in Types,
             WebhookUnknown(j, type) \/ WebhookFailed(j, type) \/ WebhookAdjusted(j, type)
      PROVE  FALSE
  BY <1>0, <1>3, <1>8 DEF WebhookUnknown, WebhookFailed, WebhookAdjusted, Settle
<1>9. CASE WebhookSucceeded(j)
  <2>1. \A k \in Intents \ {j} : intents'[k] = intents[k]
    BY <1>9, SuccessMoves DEF Pays, Moves
  <2> QED
    BY <1>9, <2>1
<1> QED
  BY <1>2, <1>4, <1>5, <1>6, <1>7, <1>8, <1>9 DEF Webhook

-----------------------------------------------------------------------------
(* The theorems on payments.                                               *)

LEMMA PayInvAlways == PaySpec => []PayInv
BY PayInvInitially, PayInvPreserved, PTL DEF PaySpec

\* Every payment that was taken has given its user the one allowance that was paid
\* for, none comes from elsewhere, no period is paid twice, and what was paid back
\* has ended, for every order in which the provider's events arrive.
THEOREM PaidIsAlwaysGiven == PaySpec => []PaidIsGiven
BY PayInvAlways, PayInvSuffices, PTL

\* A renewal payment moves its subscription out of the very period it was made for,
\* into one of the version that was paid for, however late it is reported.
THEOREM PaymentsRenewTheirPeriod == PaySpec => PaymentRenewsItsPeriod
<1> DEFINE A == \A i \in Intents :
       /\ Made(i) /\ intents[i].renewal
       /\ intents'[i].status = "succeeded" /\ intents[i].status # "succeeded"
       => LET s == intents[i].sub
          IN /\ subs[s].status = "past_due" /\ subs[s].number = intents[i].number
             /\ subs'[s].version = intents[i].version
<1>1. PayInv /\ [PayNext]_vars => [A]_vars
  <2> SUFFICES ASSUME PayInv, PayNext PROVE A
    OBVIOUS
  <2> SUFFICES ASSUME NEW i \in Intents, Made(i), intents[i].renewal,
                      intents'[i].status = "succeeded", intents[i].status # "succeeded"
               PROVE  LET s == intents[i].sub
                      IN /\ subs[s].status = "past_due"
                         /\ subs[s].number = intents[i].number
                         /\ subs'[s].version = intents[i].version
    OBVIOUS
  <2>1. WebhookSucceeded(i)
    BY SucceedsByWebhook
  <2> QED
    BY <2>1, RenewPaidFacts
<1> QED
  BY <1>1, PayInvAlways, PTL DEF PaySpec, PaymentRenewsItsPeriod

\* With payments beside the commands and the worker a user still has at most one
\* callable subscription, and every allowance is owed and accounted for.
THEOREM PaymentsKeepTablesJust == PaySpec => [](OneCallable /\ AllowancesAreJust)
<1>1. PayInv => OneCallable /\ AllowancesAreJust
  BY AloneSuffices, FundedSuffices, AccountedSuffices DEF PayInv, Tables, AllowancesAreJust
<1> QED
  BY <1>1, PayInvAlways, PTL
=============================================================================
