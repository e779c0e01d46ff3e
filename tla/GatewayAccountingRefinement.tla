-------------------- MODULE GatewayAccountingRefinement --------------------
(***************************************************************************)
(* GatewayAccounting implements TokenAccount, for any number of requests,  *)
(* handlers and workers.  The invariants of GatewayAccountingProofs make   *)
(* what the code sees in an allowance the same as what the abstract        *)
(* account has left; after that a step either changes the entry of one     *)
(* request the way the account allows, or grants Tokens, or is not seen.   *)
(***************************************************************************)
EXTENDS GatewayAccountingProofs

EntryFn == [r \in Requests |-> EntryOf(r)]

Inv == TypeInv /\ GateInv /\ BooksInv

-----------------------------------------------------------------------------
(* The mapping.                                                            *)

\* What the entry of a request is, by the status of its row.
LEMMA EntryValues ==
  ASSUME NEW r \in Requests
  PROVE  /\ status[r] \in Unsettled =>
              EntryOf(r) = [state |-> "held", period |-> bound[r], tokens |-> hold[r]]
         /\ status[r] = "settled" =>
              EntryOf(r) = [state |-> "paid", period |-> bound[r], tokens |-> charged[r]]
         /\ status[r] = "rejected" => EntryOf(r) = [state |-> "refused"]
         /\ status[r] = "absent" => EntryOf(r) = [state |-> "none"]
  BY DEF EntryOf, Unsettled

\* The requests on a period are the rows bound to its allowance, and their
\* Tokens are what the rows hold or were charged.
LEMMA SameTokens ==
  ASSUME TypeInv, NEW a \in Periods
  PROVE  /\ Account!Tokens("held", a) = TokenUnits(HeldFrom(a), hold)
         /\ Account!Tokens("paid", a) = TokenUnits(PaidFrom(a), charged)
<1>1. \A r \in Requests :
        /\ status[r] \in Unsettled \/ status[r] \in {"settled", "rejected", "absent"}
        /\ EntryFn[r] = EntryOf(r)
  BY DEF TypeInv, TypeOK, Statuses, Terminal, EntryFn
<1>2. /\ \A r \in Requests : EntryFn[r].state = "held" <=> status[r] \in Unsettled
      /\ \A r \in Requests : EntryFn[r].state = "paid" <=> status[r] = "settled"
  BY <1>1, EntryValues DEF Unsettled
<1>3. /\ \A r \in HeldFrom(a) : EntryFn[r].period = a /\ EntryFn[r].tokens = hold[r]
      /\ \A r \in PaidFrom(a) : EntryFn[r].period = a /\ EntryFn[r].tokens = charged[r]
  BY <1>1, EntryValues DEF HeldFrom, PaidFrom
<1>4. \A r \in Requests :
        /\ status[r] \in Unsettled => EntryFn[r].period = bound[r]
        /\ status[r] = "settled" => EntryFn[r].period = bound[r]
  BY <1>1, EntryValues
<1>5. /\ {r \in Requests : EntryFn[r].state = "held" /\ EntryFn[r].period = a} = HeldFrom(a)
      /\ {r \in Requests : EntryFn[r].state = "paid" /\ EntryFn[r].period = a} = PaidFrom(a)
  BY <1>2, <1>4 DEF HeldFrom, PaidFrom
<1>6. /\ Account!Those("held", a) = HeldFrom(a)
      /\ Account!Those("paid", a) = PaidFrom(a)
  BY <1>5 DEF Account!Those, EntryFn
<1> DEFINE tokens == [r \in Requests |-> EntryFn[r].tokens]
<1>7. /\ TokenUnits(HeldFrom(a), tokens) = TokenUnits(HeldFrom(a), hold)
      /\ TokenUnits(PaidFrom(a), tokens) = TokenUnits(PaidFrom(a), charged)
  <2>1. /\ \A r \in HeldFrom(a) : tokens[r] = hold[r]
        /\ \A r \in PaidFrom(a) : tokens[r] = charged[r]
    BY <1>3 DEF HeldFrom, PaidFrom
  <2> HIDE DEF tokens
  <2> QED
    BY <2>1, UnitsAgree
<1>8. \A s : Account!Tokens(s, a)
               = UNION {{r} \X (1 .. EntryFn[r].tokens) : r \in Account!Those(s, a)}
  BY DEF Account!Tokens, EntryFn
<1>9. \A S \in SUBSET Requests :
        UNION {{r} \X (1 .. EntryFn[r].tokens) : r \in S} = TokenUnits(S, tokens)
  <2> SUFFICES ASSUME NEW S \in SUBSET Requests
               PROVE  UNION {{r} \X (1 .. EntryFn[r].tokens) : r \in S}
                        = TokenUnits(S, tokens)
    OBVIOUS
  <2>1. \A r \in S : tokens[r] = EntryFn[r].tokens
    OBVIOUS
  <2> HIDE DEF tokens
  <2> QED
    BY <2>1 DEF TokenUnits
<1>10. HeldFrom(a) \in SUBSET Requests /\ PaidFrom(a) \in SUBSET Requests
  BY DEF HeldFrom, PaidFrom
<1> HIDE DEF tokens
<1> QED
  BY <1>6, <1>7, <1>8, <1>9, <1>10

\* What a period has left is what the columns of its allowance say.
LEMMA SameFree ==
  ASSUME TypeInv, BooksInv, NEW a \in Periods
  PROVE  Account!Free(a) = Remaining(a)
<1>1. /\ Cardinality(TokenUnits(HeldFrom(a), hold)) = reserved[a]
      /\ Cardinality(TokenUnits(PaidFrom(a), charged)) = consumed[a]
  BY DEF BooksInv, ReservationsAccounted, ConsumptionAccounted
<1> QED
  BY <1>1, SameTokens
  DEF Account!Free, Remaining, Account!Cardinality, Account!IsFiniteSet, Cardinality, IsFiniteSet

\* The entry of an admitted request is an entry of the account.
LEMMA EntryTyped ==
  ASSUME TypeInv, BooksInv, NEW r \in Requests,
         status[r] \in Unsettled \cup {"settled"}
  PROVE  EntryOf(r) \in Account!Entries
<1>1. bound[r] \in Periods /\ hold[r] \in Nat /\ charged[r] \in Nat
  BY DEF BooksInv, RowsBound, TypeInv, TypeOK
<1> QED
  BY <1>1, EntryValues DEF Account!Entries

\* What the entry of a request is after a step that ends or opens its row.
LEMMA EntryAfter ==
  ASSUME NEW r \in Requests
  PROVE  /\ status'[r] = "reserved" =>
              EntryOf(r)' = [state |-> "held", period |-> bound'[r], tokens |-> hold'[r]]
         /\ status'[r] = "settled" =>
              EntryOf(r)' = [state |-> "paid", period |-> bound'[r], tokens |-> charged'[r]]
         /\ status'[r] = "rejected" => EntryOf(r)' = [state |-> "refused"]
  BY DEF EntryOf, Unsettled

-----------------------------------------------------------------------------
(* Steps.                                                                  *)

\* The initial states.
LEMMA AccountInit == Init => Account!Init
<1> SUFFICES ASSUME Init PROVE Account!Init
  OBVIOUS
<1>1. granted \in [Periods -> Nat]
  BY NumbersAssumption DEF Init, Periods
<1>2. \A r \in Requests : EntryOf(r) = [state |-> "none"]
  BY EntryValues DEF Init
<1> QED
  BY <1>1, <1>2 DEF Account!Init, Account!NoEntry

\* Only the row of one request changes.
OtherRowsKept(r) ==
  \A q \in Requests \ {r} :
    /\ status'[q] = status[q] /\ bound'[q] = bound[q]
    /\ hold'[q] = hold[q] /\ charged'[q] = charged[q]

\* Then the entry of that request becomes what its row is now.
LEMMA OneEntry ==
  ASSUME NEW r \in Requests, OtherRowsKept(r)
  PROVE  EntryFn' = [EntryFn EXCEPT ![r] = EntryOf(r)']
<1>1. \A q \in Requests \ {r} : EntryOf(q)' = EntryOf(q)
  BY DEF OtherRowsKept, EntryOf
<1> QED
  BY <1>1 DEF EntryFn

\* A step in which no entry changes and nothing is granted is not seen.
LEMMA Unseen ==
  ASSUME UNCHANGED granted, \A r \in Requests : EntryOf(r)' = EntryOf(r)
  PROVE  UNCHANGED Account!account
  BY DEF Account!account

\* A row that stays open keeps its entry.
LEMMA StillHeld ==
  ASSUME NEW r \in Requests, status[r] \in Unsettled, status'[r] \in Unsettled,
         bound'[r] = bound[r], hold'[r] = hold[r]
  PROVE  EntryOf(r)' = EntryOf(r)
  BY DEF EntryOf, Unsettled

\* A preauthorization that reserves holds Tokens.
LEMMA ReserveHolds ==
  ASSUME Inv, NEW h \in Handlers, BeginReserve(h), BooksInv', TypeInv'
  PROVE  Account!Next
<1> SUFFICES ASSUME NEW r, r = Request(h) PROVE Account!Next
  OBVIOUS
<1>1. /\ r \in Requests /\ status[r] = "absent" /\ job[h].allowance \in Periods
      /\ job[h].tokens \in Nat
  BY JobTypes DEF Inv, BeginReserve, At, GateInv, EligibleIsFresh, Procs
<1>2. /\ status'[r] = "reserved" /\ bound'[r] = job[h].allowance
      /\ hold'[r] = job[h].tokens /\ UNCHANGED granted /\ OtherRowsKept(r)
  BY <1>1 DEF BeginReserve, OtherRowsKept, Inv, TypeInv, TypeOK
<1>3. /\ EntryOf(r)' = [state |-> "held", period |-> job[h].allowance,
                        tokens |-> job[h].tokens]
      /\ EntryOf(r) = [state |-> "none"]
  BY <1>1, <1>2, EntryValues, EntryAfter
<1>4. EntryOf(r)' \in Account!Entries
  BY <1>1, <1>3 DEF Account!Entries
<1>5. job[h].tokens <= Account!Free(job[h].allowance)
  BY <1>1, SameFree DEF Inv, BeginReserve, Fits
<1>6. EntryFn' = [EntryFn EXCEPT ![r] = EntryOf(r)']
  BY <1>1, <1>2, OneEntry
<1>7. EntryFn[r] = EntryOf(r) /\ EntryFn'[r] = EntryOf(r)'
  BY <1>1 DEF EntryFn
<1>8. Account!Becomes(r, EntryOf(r)')
  BY <1>2, <1>6 DEF Account!Becomes, EntryFn
<1>9. Account!Hold(r)
  BY <1>3, <1>4, <1>5, <1>7, <1>8 DEF Account!Hold, EntryFn
<1> QED
  BY <1>1, <1>9 DEF Account!Next

\* A preauthorization that rejects, for either reason, refuses.
LEMMA RejectRefuses ==
  ASSUME Inv, NEW h \in Handlers, BeginReject(h) \/ BeginLimited(h)
  PROVE  Account!Next
<1> SUFFICES ASSUME NEW r, r = Request(h) PROVE Account!Next
  OBVIOUS
<1>1. r \in Requests /\ status[r] = "absent"
  BY JobTypes
  DEF Inv, BeginReject, BeginLimited, At, GateInv, EligibleIsFresh, Procs
<1>2. status'[r] = "rejected" /\ UNCHANGED granted /\ OtherRowsKept(r)
  BY <1>1
  DEF BeginReject, BeginLimited, OtherRowsKept, allowanceVars, Inv, TypeInv, TypeOK
<1>3. EntryOf(r)' = [state |-> "refused"] /\ EntryOf(r) = [state |-> "none"]
  BY <1>1, <1>2, EntryValues, EntryAfter
<1>4. EntryFn' = [EntryFn EXCEPT ![r] = EntryOf(r)']
  BY <1>1, <1>2, OneEntry
<1>5. EntryFn[r] = EntryOf(r)
  BY <1>1 DEF EntryFn
<1>6. Account!Refuse(r)
  BY <1>2, <1>3, <1>4, <1>5 DEF Account!Refuse, Account!Refused, EntryFn
<1> QED
  BY <1>1, <1>6 DEF Account!Next

\* A settlement charges what the allowance has for the request, no more.
LEMMA SettleCharges ==
  ASSUME Inv, NEW r \in Requests, NEW n \in Nat, CanSettle(r),
         ~ AlreadySettled(r), Settle(r, n)
  PROVE  Account!Next
<1> DEFINE a == bound[r]
           c == ChargeFor(r, n)
<1>1. a \in Periods /\ c \in Nat /\ status[r] \in Unsettled
  BY SettleTypes
  DEF Inv, AllowanceOf, AlreadySettled, BooksInv, RowsBound, CanSettle, Terminal,
      TypeInv, TypeOK, Statuses
<1>2. /\ status'[r] = "settled" /\ bound'[r] = a /\ charged'[r] = c
      /\ UNCHANGED granted /\ OtherRowsKept(r)
  BY <1>1 DEF Settle, OtherRowsKept, Inv, TypeInv, TypeOK
<1>3. /\ EntryOf(r)' = [state |-> "paid", period |-> a, tokens |-> c]
      /\ EntryOf(r) = [state |-> "held", period |-> a, tokens |-> hold[r]]
  BY <1>1, <1>2, EntryValues, EntryAfter
<1>4. EntryOf(r)' \in Account!Entries
  BY <1>1, <1>3 DEF Account!Entries
<1>5. c <= Account!Free(a) + hold[r]
  <2>1. /\ granted[a] \in Nat /\ reserved[a] \in Nat /\ consumed[a] \in Nat
        /\ hold[r] \in Nat /\ reserved[a] + consumed[a] <= granted[a]
    BY <1>1 DEF Inv, GateInv, NoOvercommit, TypeInv, TypeOK
  <2>2. AvailableTo(r) = Remaining(a) + hold[r] /\ AvailableTo(r) >= 0
    BY <2>1 DEF AvailableTo, AllowanceOf, Remaining
  <2>3. c <= AvailableTo(r)
    BY <2>1, <2>2 DEF ChargeFor, Min2, Max2, Remaining
  <2> QED
    BY <1>1, <2>2, <2>3, SameFree DEF Inv
<1>6. EntryFn' = [EntryFn EXCEPT ![r] = EntryOf(r)']
  BY <1>2, OneEntry
<1>7. EntryFn[r] = EntryOf(r) /\ EntryFn'[r] = EntryOf(r)'
  BY DEF EntryFn
<1> HIDE DEF a, c
<1>8. Account!Becomes(r, EntryOf(r)')
  BY <1>2, <1>6 DEF Account!Becomes, EntryFn
<1>9. Account!Charge(r)
  BY <1>3, <1>4, <1>5, <1>7, <1>8 DEF Account!Charge, EntryFn
<1> QED
  BY <1>9 DEF Account!Next

\* Marking a failed settlement is not seen.
LEMMA MarkUnseen ==
  ASSUME TypeInv, NEW r \in Requests, UNCHANGED granted,
         (\E k, n : MarkFailed(r, k, n)) \/ UNCHANGED rowVars
  PROVE  UNCHANGED Account!account
<1>1. \A q \in Requests :
        /\ bound'[q] = bound[q] /\ hold'[q] = hold[q] /\ charged'[q] = charged[q]
        /\ \/ status'[q] = status[q]
           \/ status[q] \in Unsettled /\ status'[q] \in Unsettled
  BY DEF MarkFailed, InFlight, rowVars, Unsettled, TypeInv, TypeOK
<1>2. \A q \in Requests : EntryOf(q)' = EntryOf(q)
  <2> SUFFICES ASSUME NEW q \in Requests PROVE EntryOf(q)' = EntryOf(q)
    OBVIOUS
  <2>1. CASE status'[q] = status[q]
    BY <1>1, <2>1 DEF EntryOf
  <2>2. CASE status[q] \in Unsettled /\ status'[q] \in Unsettled
    BY <1>1, <2>2, StillHeld
  <2> QED
    BY <1>1, <2>1, <2>2
<1> QED
  BY <1>2, Unseen

\* Nor is a step that leaves the rows and the grants alone.
LEMMA RowsUnseen ==
  ASSUME UNCHANGED <<rowVars, granted>> PROVE UNCHANGED Account!account
<1>1. \A q \in Requests : EntryOf(q)' = EntryOf(q)
  BY DEF rowVars, EntryOf
<1> QED
  BY <1>1, Unseen

\* Handlers.
LEMMA HandlerImplements ==
  ASSUME Inv, TypeInv', BooksInv', NEW h \in Handlers, HandlerStep(h)
  PROVE  [Account!Next]_(Account!account)
<1> USE DEF allowanceVars, At
<1>0. pc[h] # "idle" => Request(h) \in Requests
  BY JobTypes DEF Inv, Procs
<1>1. CASE UNCHANGED <<rowVars, granted>>
  BY <1>1, RowsUnseen
<1>2. CASE BeginReject(h) \/ BeginLimited(h)
  BY <1>2, RejectRefuses
<1>3. CASE BeginReserve(h)
  BY <1>3, ReserveHolds
<1>4. CASE MarkStreaming(h)
  <2>1. \A q \in Requests :
          /\ bound'[q] = bound[q] /\ hold'[q] = hold[q] /\ charged'[q] = charged[q]
          /\ \/ status'[q] = status[q]
             \/ status[q] \in Unsettled /\ status'[q] \in Unsettled
    BY <1>0, <1>4 DEF MarkStreaming, Unsettled, Inv, TypeInv, TypeOK
  <2>2. \A q \in Requests : EntryOf(q)' = EntryOf(q)
    <3> SUFFICES ASSUME NEW q \in Requests PROVE EntryOf(q)' = EntryOf(q)
      OBVIOUS
    <3>1. CASE status'[q] = status[q]
      BY <2>1, <3>1 DEF EntryOf
    <3>2. CASE status[q] \in Unsettled /\ status'[q] \in Unsettled
      BY <2>1, <3>2, StillHeld
    <3> QED
      BY <2>1, <3>1, <3>2
  <2> QED
    BY <1>4, <2>2, Unseen DEF MarkStreaming
<1>5. CASE MarkKnown(h) \/ MarkUnknown(h)
  <2>1. Request(h) \in Requests
    BY <1>0, <1>5 DEF MarkKnown, MarkUnknown
  <2>2. \/ \E k, n : MarkFailed(Request(h), k, n)
        \/ UNCHANGED rowVars
    BY <1>5 DEF MarkKnown, MarkUnknown, MarkLost
  <2> QED
    BY <1>5, <2>1, <2>2, MarkUnseen DEF MarkKnown, MarkUnknown, Inv
<1> QED
  <2>1. ASSUME NEW r \in Requests, NEW e \in Estimates, Arrive(h, r, e)
        PROVE  [Account!Next]_(Account!account)
    BY <1>1, <2>1 DEF Arrive
  <2>2. ASSUME NEW u \in Usages,
               \/ ProviderReports(h, u)
               \/ \E g \in Handlers : Cancel(h, g, u)
        PROVE  [Account!Next]_(Account!account)
    BY <1>1, <2>2 DEF ProviderReports, Cancel
  <2>3. CASE \/ BeginReplay(h) \/ BeginEligible(h) \/ BeginFails(h)
             \/ ProviderSilent(h)
    BY <1>1, <2>3 DEF BeginReplay, BeginEligible, BeginFails, ProviderSilent
  <2> QED
    BY <1>2, <1>3, <1>4, <1>5, <2>1, <2>2, <2>3 DEF HandlerStep

\* Settlements.
LEMMA SettlementImplements ==
  ASSUME Inv, NEW p \in Procs, SettleStep(p)
  PROVE  [Account!Next]_(Account!account)
<1> USE DEF allowanceVars, At
<1>1. CASE UNCHANGED <<rowVars, granted>>
  BY <1>1, RowsUnseen
<1>2. CASE SettleCommit(p)
  <2>1. Request(p) \in Requests /\ job[p].tokens \in Nat
    BY <1>2, JobTypes DEF SettleCommit, Inv
  <2> QED
    BY <1>2, <2>1, SettleCharges DEF SettleCommit
<1>3. CASE \/ SettleRead(p) \/ SettleGate(p) \/ SettleIdempotent(p)
           \/ SettleFails(p)
  BY <1>1, <1>3 DEF SettleRead, SettleGate, SettleIdempotent, SettleFails
<1> QED
  BY <1>2, <1>3 DEF SettleStep

\* The worker.
LEMMA WorkerImplements ==
  ASSUME Inv, NEW w \in Workers, WorkerStep(w)
  PROVE  [Account!Next]_(Account!account)
<1> USE DEF allowanceVars, At
<1>1. CASE UNCHANGED <<rowVars, granted>>
  BY <1>1, RowsUnseen
<1>2. CASE WorkerResolve(w)
  <2>1. Request(w) \in Requests /\ hold[Request(w)] \in Nat
    BY <1>2, JobTypes DEF WorkerResolve, Procs, Inv, TypeInv, TypeOK
  <2>2. CASE CanResolve(Request(w)) /\ ~ AlreadySettled(Request(w))
    BY <1>2, <2>1, <2>2, SettleCharges DEF WorkerResolve, CanResolve
  <2>3. CASE ~ (CanResolve(Request(w)) /\ ~ AlreadySettled(Request(w)))
    BY <1>1, <1>2, <2>3 DEF WorkerResolve
  <2> QED
    BY <2>2, <2>3
<1>3. CASE WorkerSelect(w) \/ WorkerReadKnown(w) \/ WorkerGate(w)
  BY <1>1, <1>3 DEF WorkerSelect, WorkerReadKnown, WorkerGate
<1> QED
  BY <1>2, <1>3 DEF WorkerStep

\* An administrator's grant and a new period grant Tokens: a period that has not
\* begun has none to lose.
LEMMA GrantImplements ==
  ASSUME Inv, TypeInv', (\E n \in Bonuses : Grant(n)) \/ Renew
  PROVE  Account!Next
<1> USE NumbersAssumption
<1>1. UNCHANGED rowVars
  BY DEF Grant, Renew
<1>2. granted' \in [Periods -> Nat]
  BY DEF TypeInv, TypeOK
<1>3. \A a \in Periods : granted'[a] >= granted[a]
  <2>1. ASSUME NEW n \in Bonuses, Grant(n), NEW a \in Periods
        PROVE  granted'[a] >= granted[a]
    BY <2>1 DEF Grant, Inv, TypeInv, TypeOK
  <2>2. ASSUME Renew, NEW a \in Periods PROVE granted'[a] >= granted[a]
    <3>1. CASE a = period + 1
      <4>1. period \in Nat /\ granted[a] = 0
        BY <2>2, <3>1
        DEF Renew, Inv, GateInv, FutureUngranted, TypeInv, TypeOK, Periods
      <4> QED
        BY <2>2, <3>1, <4>1 DEF Renew, Inv, TypeInv, TypeOK
    <3>2. CASE a # period + 1
      BY <2>2, <3>2 DEF Renew, Inv, TypeInv, TypeOK
    <3> QED
      BY <3>1, <3>2
  <2> QED
    BY <2>1, <2>2
<1>4. \A q \in Requests : EntryOf(q)' = EntryOf(q)
  BY <1>1 DEF rowVars, EntryOf
<1>5. Account!Grant
  BY <1>2, <1>3, <1>4 DEF Account!Grant
<1> QED
  BY <1>5 DEF Account!Next

\* Every step.
LEMMA StepImplements ==
  Inv /\ Inv' /\ [Next]_vars => [Account!Next]_(Account!account)
<1> SUFFICES ASSUME Inv, Inv', [Next]_vars
             PROVE  [Account!Next]_(Account!account)
  OBVIOUS
<1>1. TypeInv' /\ BooksInv'
  BY DEF Inv
<1>2. ASSUME NEW h \in Handlers, HandlerStep(h)
      PROVE  [Account!Next]_(Account!account)
  BY <1>1, <1>2, HandlerImplements
<1>3. ASSUME NEW w \in Workers, WorkerStep(w)
      PROVE  [Account!Next]_(Account!account)
  BY <1>3, WorkerImplements
<1>4. ASSUME NEW p \in Procs, SettleStep(p)
      PROVE  [Account!Next]_(Account!account)
  BY <1>4, SettlementImplements
<1>5. CASE (\E n \in Bonuses : Grant(n)) \/ Renew
  BY <1>1, <1>5, GrantImplements
<1>6. CASE (\E p \in Procs : Crash(p)) \/ ChangeCallable \/ UNCHANGED vars
  <2>1. UNCHANGED <<rowVars, granted>>
    BY <1>6 DEF Crash, ChangeCallable, vars, allowanceVars
  <2> QED
    BY <2>1, RowsUnseen
<1> QED
  BY <1>2, <1>3, <1>4, <1>5, <1>6 DEF Next

\* The accounting of the gateway, with its locks, its two callbacks of one
\* stream, its lost acknowledgements, crashes and recoveries, is an account that
\* holds once, charges once and never overdraws a period.
THEOREM AccountingImplementsAccount == Spec => ImplementsAccount
<1>1. TypeInv /\ GateInv /\ BooksInv <=> Inv
  BY DEF Inv
<1>2. Spec => []Inv
  BY InvariantHolds, <1>1, PTL
<1> QED
  BY AccountInit, StepImplements, <1>2, PTL DEF Spec, ImplementsAccount, Account!Spec
=============================================================================
