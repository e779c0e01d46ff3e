---------------------- MODULE GatewayAccountingProofs ----------------------
(***************************************************************************)
(* Proofs about GatewayAccounting, for any number of requests, handlers    *)
(* and workers, any plan and any bounds.  Four layers, each inductive      *)
(* relative to the ones before it:                                         *)
(*   TypeInv    types, and a process at work is at work on a request;      *)
(*   GateInv    what the account lock and the subscription lock protect,   *)
(*              and with it that no allowance is overdrawn;                *)
(*   BooksInv   the allowances and the ledger agree with the request rows; *)
(*   UsageInv   those at work on a request agree about its usage.          *)
(***************************************************************************)
EXTENDS GatewayAccounting, FiniteSetTheorems, TLAPS

\* A process that is not idle works on the row of some request.
RequestDefined == \A p \in Procs : pc[p] # "idle" => Request(p) \in Requests

TypeInv == TypeOK /\ RequestDefined

\* The part of it about the processes, which every step but an
\* administrator's touches.
ProcessTypes ==
  pc \in [Procs -> PCs] /\ job \in [Procs -> Job] /\ RequestDefined

-----------------------------------------------------------------------------
(* Types.                                                                  *)

\* The initial state is well typed.
LEMMA TypeInit == Init => TypeInv
  BY SetsAssumption, NumbersAssumption
  DEF Init, TypeInv, TypeOK, RequestDefined, Periods, Statuses, Unsettled,
      Terminal, NoEntries, PCs, InGate, Job, NoJob, Retries, Request

\* A process that goes on with the same request keeps the types.
LEMMA GotoTypes ==
  ASSUME TypeInv, NEW p \in Procs, NEW where \in PCs,
         pc[p] # "idle", Goto(p, where), UNCHANGED job
  PROVE  ProcessTypes'
  BY DEF TypeInv, TypeOK, ProcessTypes, RequestDefined, Request, Goto

\* A process that goes on with new notes about a request keeps them.
LEMMA GotoWithTypes ==
  ASSUME TypeInv, NEW p \in Procs, NEW where \in PCs, NEW j \in Job,
         j.req \in Requests, Goto(p, where), job' = [job EXCEPT ![p] = j]
  PROVE  ProcessTypes'
  BY DEF TypeInv, TypeOK, ProcessTypes, RequestDefined, Request, Goto

\* A process that returns forgets its request.
LEMMA FinishTypes ==
  ASSUME TypeInv, NEW p \in Procs, Finish(p)
  PROVE  ProcessTypes'
<1>1. "idle" \in PCs /\ NoJob \in Job
  BY SetsAssumption, NumbersAssumption DEF PCs, NoJob, Job, Periods, Retries
<1> QED
  BY <1>1 DEF TypeInv, TypeOK, ProcessTypes, RequestDefined, Request, Finish

\* The notes of a process at work.
LEMMA JobTypes ==
  ASSUME TypeInv, NEW p \in Procs
  PROVE  /\ job[p] \in Job
         /\ job[p].allowance \in Periods /\ job[p].tokens \in Nat
         /\ job[p].retry \in Retries
         /\ pc[p] # "idle" => Request(p) \in Requests
         /\ pc[p] \in PCs
  BY DEF TypeInv, TypeOK, RequestDefined, Job, Request

\* A lock is released to nobody.
LEMMA ReleasedType ==
  ASSUME TypeInv, NEW p PROVE Released(p) \in Procs \cup {None}
  BY DEF TypeInv, TypeOK, Released

\* The values a settlement computes are natural numbers: in particular the
\* allowance gives back no more than it has reserved.
LEMMA SettleTypes ==
  ASSUME TypeInv, NEW r \in Requests, NEW n \in Nat, CanSettle(r)
  PROVE  /\ AllowanceOf(r) \in Periods
         /\ ChargeFor(r, n) \in Nat
         /\ reserved[AllowanceOf(r)] - hold[r] \in Nat
         /\ hold[r] - FromReservation(r, ChargeFor(r, n)) \in Nat
<1>1. AllowanceOf(r) \in Periods
  BY DEF TypeInv, TypeOK, CanSettle, AllowanceOf
<1>2. /\ granted[AllowanceOf(r)] \in Nat /\ consumed[AllowanceOf(r)] \in Nat
      /\ reserved[AllowanceOf(r)] \in Nat /\ hold[r] \in Nat
  BY <1>1 DEF TypeInv, TypeOK
<1>3. AvailableTo(r) \in Int
  BY <1>2 DEF AvailableTo
<1>4. ChargeFor(r, n) \in Nat
  BY <1>3 DEF ChargeFor, Min2, Max2
<1>5. reserved[AllowanceOf(r)] - hold[r] \in Nat
  BY <1>2 DEF CanSettle
<1>6. hold[r] - FromReservation(r, ChargeFor(r, n)) \in Nat
  BY <1>2, <1>4 DEF FromReservation, Min2
<1> QED
  BY <1>1, <1>4, <1>5, <1>6

\* A settlement keeps the types of what it writes.
LEMMA SettleKeepsTypes ==
  ASSUME TypeInv, NEW r \in Requests, NEW n \in Nat, CanSettle(r),
         Settle(r, n)
  PROVE  /\ reserved' \in [Periods -> Nat]
         /\ consumed' \in [Periods -> Nat]
         /\ charged' \in [Requests -> Nat]
         /\ ledger' \in [Requests -> [reserve: Nat, capture: Nat, release: Nat]]
         /\ status' \in [Requests -> Statuses]
         /\ UNCHANGED <<granted, bound, hold, failedAt>>
<1> DEFINE a == AllowanceOf(r)
           c == ChargeFor(r, n)
<1>1. /\ a \in Periods /\ c \in Nat /\ reserved[a] - hold[r] \in Nat
      /\ hold[r] - FromReservation(r, c) \in Nat
  BY SettleTypes
<1>2. /\ reserved' = [reserved EXCEPT ![a] = reserved[a] - hold[r]]
      /\ consumed' = [consumed EXCEPT ![a] = consumed[a] + c]
      /\ charged' = [charged EXCEPT ![r] = c]
      /\ ledger' = [ledger EXCEPT ![r] =
           [reserve |-> ledger[r].reserve, capture |-> c,
            release |-> hold[r] - FromReservation(r, c)]]
      /\ status' = [status EXCEPT ![r] = "settled"]
      /\ UNCHANGED <<granted, bound, hold, failedAt>>
  BY <1>1 DEF Settle, TypeInv, TypeOK
<1> HIDE DEF a, c
<1> QED
  BY <1>1, <1>2 DEF TypeInv, TypeOK, Statuses, Terminal

\* So does the mark of a failed settlement.
LEMMA MarkKeepsTypes ==
  ASSUME TypeInv, NEW r \in Requests, NEW k \in BOOLEAN, NEW n \in Nat,
         MarkFailed(r, k, n)
  PROVE  /\ status' \in [Requests -> Statuses]
         /\ known' \in [Requests -> BOOLEAN]
         /\ usage' \in [Requests -> Nat]
         /\ failedAt' \in [Requests -> Nat]
         /\ UNCHANGED <<bound, hold, charged>>
<1>1. CASE ~ InFlight(r)
  BY <1>1 DEF MarkFailed, rowVars, TypeInv, TypeOK
<1>2. CASE InFlight(r)
  <2> DEFINE rank == 1 + Cardinality({q \in Requests : failedAt[q] > 0})
  <2>1. rank \in Nat
    <3>1. IsFiniteSet({q \in Requests : failedAt[q] > 0})
      BY SetsAssumption, FS_Subset
    <3> QED
      BY <3>1, FS_CardinalityType
  <2>2. failedAt' = [failedAt EXCEPT ![r] = rank]
    BY <1>2 DEF MarkFailed
  <2>3. failedAt' \in [Requests -> Nat]
    <3> HIDE DEF rank
    <3> QED
      BY <2>1, <2>2 DEF TypeInv, TypeOK
  <2> QED
    BY <1>2, <2>3 DEF MarkFailed, TypeInv, TypeOK, Statuses, Unsettled
<1> QED
  BY <1>1, <1>2

\* The notes about a call that has just arrived.
LEMMA FreshJobTypes ==
  ASSUME NEW r \in Requests, NEW n \in Nat
  PROVE  /\ [NoJob EXCEPT !.req = r, !.tokens = n] \in Job
         /\ [NoJob EXCEPT !.req = r, !.tokens = n].req = r
         /\ [NoJob EXCEPT !.req = r] \in Job
         /\ [NoJob EXCEPT !.req = r].req = r
<1>1. NoJob \in Job
  BY NumbersAssumption DEF NoJob, Job, Periods, Retries
<1> QED
  BY <1>1 DEF Job

\* Every handler step keeps the types.
LEMMA HandlerTypes ==
  ASSUME TypeInv, NEW h \in Handlers, HandlerStep(h)
  PROVE  TypeInv'
<1> USE SetsAssumption, NumbersAssumption
<1> USE DEF subVars, allowanceVars, rowVars, At, Request
<1>0. /\ h \in Procs
      /\ job[h] \in Job /\ job[h].allowance \in Periods
      /\ job[h].tokens \in Nat /\ pc[h] \in PCs
      /\ pc[h] # "idle" => Request(h) \in Requests
      /\ Released(h) \in Procs \cup {None}
  BY JobTypes, ReleasedType DEF Procs
<1>f. ASSUME Fault PROVE faults' \in Nat
  BY <1>f DEF Fault, TypeInv, TypeOK
<1>1. ASSUME NEW r \in Requests, NEW e \in Estimates, Arrive(h, r, e)
      PROVE  TypeInv'
  <2>1. [NoJob EXCEPT !.req = r, !.tokens = e] \in Job
    BY FreshJobTypes
  <2>2. ProcessTypes'
    BY <1>0, <1>1, <2>1, GotoWithTypes DEF Arrive, PCs, NoJob
  <2> QED
    BY <1>1, <2>2 DEF Arrive, TypeInv, TypeOK, ProcessTypes
<1>2. CASE BeginReplay(h)
  BY <1>0, <1>2, FinishTypes DEF BeginReplay, TypeInv, TypeOK, ProcessTypes
<1>3. CASE BeginReject(h)
  BY <1>0, <1>3, FinishTypes
  DEF BeginReject, TypeInv, TypeOK, ProcessTypes, Statuses, Terminal
<1>4. CASE BeginEligible(h)
  <2>1. /\ [job[h] EXCEPT !.allowance = period] \in Job
        /\ Request(h) \in Requests
    BY <1>0, <1>4 DEF BeginEligible, Job, TypeInv, TypeOK
  <2>2. job' = [job EXCEPT ![h] = [job[h] EXCEPT !.allowance = period]]
    BY <1>4 DEF BeginEligible
  <2>3. [job[h] EXCEPT !.allowance = period].req = job[h].req
    BY <1>0 DEF Job
  <2>4. ProcessTypes'
    BY <1>0, <1>4, <2>1, <2>2, <2>3, GotoWithTypes
    DEF BeginEligible, PCs, InGate
  <2> QED
    BY <1>0, <1>4, <2>4 DEF BeginEligible, TypeInv, TypeOK, ProcessTypes
<1>5. CASE BeginLimited(h)
  <2>1. ProcessTypes'
    BY <1>0, <1>5, FinishTypes DEF BeginLimited
  <2> QED
    BY <1>0, <1>5, <2>1
    DEF BeginLimited, TypeInv, TypeOK, ProcessTypes, Statuses, Terminal
<1>6. CASE BeginReserve(h)
  <2>1. [NoJob EXCEPT !.req = Request(h)] \in Job
    BY <1>0, <1>6 DEF BeginReserve, NoJob, Job, Periods, Retries
  <2>2. ProcessTypes'
    BY <1>0, <1>6, <2>1, GotoWithTypes DEF BeginReserve, PCs, NoJob
  <2>3. /\ reserved' \in [Periods -> Nat]
        /\ ledger' \in [Requests ->
                          [reserve: Nat, capture: Nat, release: Nat]]
    <3>1. /\ job[h].tokens \in Nat /\ job[h].allowance \in Periods
          /\ Request(h) \in Requests
          /\ reserved' = [reserved EXCEPT ![job[h].allowance] = @ + job[h].tokens]
          /\ ledger' = [ledger EXCEPT ![Request(h)].reserve = job[h].tokens]
      BY <1>0, <1>6 DEF BeginReserve
    <3>2. reserved' \in [Periods -> Nat]
      BY <3>1 DEF TypeInv, TypeOK
    <3>3. ledger' \in [Requests -> [reserve: Nat, capture: Nat, release: Nat]]
      BY <3>1 DEF TypeInv, TypeOK
    <3> QED
      BY <3>2, <3>3
  <2> QED
    BY <1>0, <1>6, <2>2, <2>3
    DEF BeginReserve, TypeInv, TypeOK, ProcessTypes, Statuses, Unsettled
<1>7. CASE BeginFails(h)
  <2>1. faults' \in Nat
    BY <1>7, <1>f DEF BeginFails, TypeInv, TypeOK
  <2> QED
    BY <1>0, <1>7, <2>1, FinishTypes
    DEF BeginFails, TypeInv, TypeOK, ProcessTypes
<1>8. CASE MarkStreaming(h)
  <2>1. ProcessTypes'
    BY <1>0, <1>8, GotoTypes DEF MarkStreaming, PCs
  <2> QED
    BY <1>0, <1>8, <2>1
    DEF MarkStreaming, TypeInv, TypeOK, ProcessTypes, Statuses, Unsettled
<1>9. ASSUME NEW u \in Usages, ProviderReports(h, u) PROVE TypeInv'
  <2>1. PICK next \in RetryOf(h) :
          job' = [job EXCEPT ![h].tokens = u, ![h].retry = next]
    BY <1>9 DEF ProviderReports
  <2>2. next \in Retries
    BY DEF RetryOf, Retries
  <2> DEFINE j == [job[h] EXCEPT !.tokens = u, !.retry = next]
  <2>3. j \in Job /\ j.req = job[h].req
    BY <1>0, <2>2 DEF Job
  <2>4. job' = [job EXCEPT ![h] = j]
    BY <1>0, <2>1 DEF TypeInv, TypeOK
  <2>5. pc[h] # "idle" /\ Goto(h, "settle")
    BY <1>9 DEF ProviderReports, Answerable
  <2>6. ProcessTypes'
    <3> HIDE DEF j
    <3> QED
      BY <1>0, <2>3, <2>4, <2>5, GotoWithTypes DEF PCs
  <2> QED
    BY <1>9, <2>6 DEF ProviderReports, TypeInv, TypeOK, ProcessTypes
<1>10. CASE ProviderSilent(h)
  <2>1. ProcessTypes'
    BY <1>0, <1>10, GotoTypes DEF ProviderSilent, Answerable, PCs
  <2> QED
    BY <1>10, <2>1 DEF ProviderSilent, TypeInv, TypeOK, ProcessTypes
<1>11. ASSUME NEW g \in Handlers, NEW u \in Usages, Cancel(h, g, u)
       PROVE  TypeInv'
  <2> DEFINE jg == [NoJob EXCEPT !.req = Request(h), !.tokens = u]
             jh == [job[h] EXCEPT !.tokens = u]
  <2>0. Request(h) \in Requests /\ u \in Nat
    BY <1>0, <1>11 DEF Cancel
  <2>1. /\ jg \in Job /\ jg.req = Request(h)
        /\ jh \in Job /\ jh.req = Request(h)
    <3>1. jg \in Job /\ jg.req = Request(h)
      BY <2>0, FreshJobTypes
    <3>2. jh \in Job /\ jh.req = Request(h)
      BY <1>0, <2>0 DEF Job
    <3> QED
      BY <3>1, <3>2
  <2>2. /\ g \in Procs /\ g # h /\ Request(h) \in Requests
        /\ job' = [[job EXCEPT ![g] = jg] EXCEPT ![h] = jh]
    BY <1>0, <1>11 DEF Cancel, TypeInv, TypeOK, Procs
  <2>3. ProcessTypes'
    <3> HIDE DEF jg, jh
    <3>1. pc' \in [Procs -> PCs]
      BY <1>11 DEF Cancel, TypeInv, TypeOK, PCs
    <3>2. job' \in [Procs -> Job]
      BY <2>1, <2>2 DEF TypeInv, TypeOK
    <3>3. \A p \in Procs \ {g, h} : pc'[p] = pc[p] /\ job'[p] = job[p]
      BY <1>11, <2>2 DEF Cancel, TypeInv, TypeOK
    <3>4. job'[g] = jg /\ job'[h] = jh
      BY <1>0, <2>2 DEF TypeInv, TypeOK
    <3> QED
      BY <2>1, <2>2, <3>1, <3>2, <3>3, <3>4
      DEF ProcessTypes, RequestDefined, TypeInv
  <2> QED
    BY <1>11, <2>3 DEF Cancel, TypeInv, TypeOK, ProcessTypes
<1>12. CASE MarkKnown(h)
  <2>0. pc[h] # "idle" /\ Request(h) \in Requests
    BY <1>0, <1>12 DEF MarkKnown
  <2>1. ProcessTypes'
    <3> DEFINE j == [job[h] EXCEPT !.retry = "none"]
    <3>1. j \in Job /\ j.req = job[h].req
      BY <1>0 DEF Job, Retries
    <3>2. \/ Finish(h)
          \/ \E where \in {"settle", "markUnknown"} :
               Goto(h, where) /\ job' = [job EXCEPT ![h] = j]
      BY <1>0, <1>12 DEF MarkKnown, Retries, Job
    <3> HIDE DEF j
    <3> QED
      BY <1>0, <2>0, <3>1, <3>2, FinishTypes, GotoWithTypes DEF PCs
  <2>2. CASE MarkFailed(Request(h), TRUE, job[h].tokens) /\ UNCHANGED faults
    <3>1. /\ status' \in [Requests -> Statuses]
          /\ known' \in [Requests -> BOOLEAN]
          /\ usage' \in [Requests -> Nat]
          /\ failedAt' \in [Requests -> Nat]
          /\ UNCHANGED <<bound, hold, charged>>
      BY <1>0, <2>0, <2>2, MarkKeepsTypes
    <3> QED
      BY <1>12, <2>1, <2>2, <3>1
      DEF MarkKnown, TypeInv, TypeOK, ProcessTypes
  <2>3. CASE MarkLost
    BY <1>12, <1>f, <2>1, <2>3
    DEF MarkKnown, MarkLost, TypeInv, TypeOK, ProcessTypes
  <2> QED
    BY <1>12, <2>2, <2>3 DEF MarkKnown
<1>13. CASE MarkUnknown(h)
  <2>0. Request(h) \in Requests /\ usage[Request(h)] \in Nat
    BY <1>0, <1>13 DEF MarkUnknown, TypeInv, TypeOK
  <2>1. ProcessTypes'
    BY <1>0, <1>13, FinishTypes DEF MarkUnknown
  <2>2. CASE MarkFailed(Request(h), FALSE, usage[Request(h)])
             /\ UNCHANGED faults
    <3>1. /\ status' \in [Requests -> Statuses]
          /\ known' \in [Requests -> BOOLEAN]
          /\ usage' \in [Requests -> Nat]
          /\ failedAt' \in [Requests -> Nat]
          /\ UNCHANGED <<bound, hold, charged>>
      BY <2>0, <2>2, MarkKeepsTypes
    <3> QED
      BY <1>13, <2>1, <2>2, <3>1
      DEF MarkUnknown, TypeInv, TypeOK, ProcessTypes
  <2>3. CASE MarkLost
    BY <1>13, <1>f, <2>1, <2>3
    DEF MarkUnknown, MarkLost, TypeInv, TypeOK, ProcessTypes
  <2> QED
    BY <1>13, <2>2, <2>3 DEF MarkUnknown
<1> QED
  BY <1>1, <1>2, <1>3, <1>4, <1>5, <1>6, <1>7, <1>8, <1>9, <1>10, <1>11,
     <1>12, <1>13 DEF HandlerStep

\* Every settlement step, of a handler or of the worker, keeps the types.
LEMMA SettlementTypes ==
  ASSUME TypeInv, NEW p \in Procs, SettleStep(p)
  PROVE  TypeInv'
<1> USE SetsAssumption, NumbersAssumption
<1> USE DEF subVars, allowanceVars, rowVars, At, Request
<1>0. /\ job[p] \in Job /\ job[p].tokens \in Nat /\ pc[p] \in PCs
      /\ pc[p] # "idle" => Request(p) \in Requests
      /\ Released(p) \in Procs \cup {None}
  BY JobTypes, ReleasedType
<1>f. ASSUME Fault PROVE faults' \in Nat
  BY <1>f DEF Fault, TypeInv, TypeOK
<1>a. ASSUME AfterFailure(p), pc[p] # "idle" PROVE ProcessTypes'
  BY <1>0, <1>a, GotoTypes, FinishTypes DEF AfterFailure, PCs
<1>1. CASE SettleRead(p)
  <2>1. ProcessTypes'
    BY <1>0, <1>1, GotoTypes, FinishTypes DEF SettleRead, PCs
  <2> QED
    BY <1>1, <2>1 DEF SettleRead, TypeInv, TypeOK, ProcessTypes
<1>2. CASE SettleGate(p)
  <2>1. ProcessTypes'
    BY <1>0, <1>2, GotoTypes DEF SettleGate, PCs, InGate
  <2> QED
    BY <1>2, <2>1 DEF SettleGate, TypeInv, TypeOK, ProcessTypes
<1>3. CASE SettleIdempotent(p)
  <2>1. ProcessTypes'
    BY <1>3, FinishTypes DEF SettleIdempotent
  <2> QED
    BY <1>0, <1>3, <2>1 DEF SettleIdempotent, TypeInv, TypeOK, ProcessTypes
<1>4. CASE SettleCommit(p)
  <2>0. pc[p] # "idle" /\ Request(p) \in Requests
    BY <1>0, <1>4 DEF SettleCommit
  <2>1. ProcessTypes' /\ faults' \in Nat
    BY <1>4, <1>a, <1>f, <2>0, FinishTypes
    DEF SettleCommit, TypeInv, TypeOK
  <2>2. /\ CanSettle(Request(p)) /\ Settle(Request(p), job[p].tokens)
        /\ known' = [known EXCEPT ![Request(p)] = TRUE]
        /\ usage' = [usage EXCEPT ![Request(p)] = job[p].tokens]
        /\ lock' = Released(p) /\ UNCHANGED subVars
    BY <1>4 DEF SettleCommit
  <2>3. /\ reserved' \in [Periods -> Nat]
        /\ consumed' \in [Periods -> Nat]
        /\ charged' \in [Requests -> Nat]
        /\ ledger' \in [Requests ->
                          [reserve: Nat, capture: Nat, release: Nat]]
        /\ status' \in [Requests -> Statuses]
        /\ UNCHANGED <<granted, bound, hold, failedAt>>
    BY <1>0, <2>0, <2>2, SettleKeepsTypes
  <2> QED
    BY <1>0, <2>1, <2>2, <2>3 DEF TypeInv, TypeOK, ProcessTypes
<1>5. CASE SettleFails(p)
  <2>1. ProcessTypes' /\ faults' \in Nat
    BY <1>5, <1>a, <1>f DEF SettleFails, TypeInv, TypeOK
  <2> QED
    BY <1>0, <1>5, <2>1 DEF SettleFails, TypeInv, TypeOK, ProcessTypes
<1> QED
  BY <1>1, <1>2, <1>3, <1>4, <1>5 DEF SettleStep

\* Every other step of the worker keeps the types.
LEMMA WorkerTypes ==
  ASSUME TypeInv, NEW w \in Workers, WorkerStep(w)
  PROVE  TypeInv'
<1> USE SetsAssumption, NumbersAssumption
<1> USE DEF subVars, allowanceVars, rowVars, At, Request
<1>0. /\ w \in Procs
      /\ job[w] \in Job /\ job[w].tokens \in Nat /\ pc[w] \in PCs
      /\ pc[w] # "idle" => Request(w) \in Requests
      /\ Released(w) \in Procs \cup {None}
  BY JobTypes, ReleasedType DEF Procs
<1>1. CASE WorkerSelect(w)
  <2>1. PICK r \in Failed :
          /\ Goto(w, IF known[r] THEN "readKnown" ELSE "waitUnknown")
          /\ job' = [job EXCEPT ![w] = [NoJob EXCEPT !.req = r]]
    BY <1>1 DEF WorkerSelect
  <2>2. /\ [NoJob EXCEPT !.req = r] \in Job
        /\ [NoJob EXCEPT !.req = r].req = r
    BY FreshJobTypes DEF Failed
  <2>3. ProcessTypes'
    BY <1>0, <2>1, <2>2, GotoWithTypes DEF PCs, Failed
  <2> QED
    BY <1>1, <2>3 DEF WorkerSelect, TypeInv, TypeOK, ProcessTypes
<1>2. CASE WorkerReadKnown(w)
  <2>0. Request(w) \in Requests /\ usage[Request(w)] \in Nat
    BY <1>0, <1>2 DEF WorkerReadKnown, TypeInv, TypeOK
  <2>1. ProcessTypes'
    <3> DEFINE j == [job[w] EXCEPT !.tokens = usage[Request(w)]]
    <3>1. j \in Job /\ j.req = job[w].req
      BY <1>0, <2>0 DEF Job
    <3>2. \/ Finish(w)
          \/ /\ Goto(w, "settle")
             /\ job' = [job EXCEPT ![w].tokens = usage[Request(w)]]
      BY <1>2 DEF WorkerReadKnown
    <3>3. [job EXCEPT ![w].tokens = usage[Request(w)]] = [job EXCEPT ![w] = j]
      BY <1>0
    <3> HIDE DEF j
    <3> QED
      BY <1>0, <2>0, <3>1, <3>2, <3>3, FinishTypes, GotoWithTypes DEF PCs
  <2> QED
    BY <1>2, <2>1 DEF WorkerReadKnown, TypeInv, TypeOK, ProcessTypes
<1>3. CASE WorkerGate(w)
  <2>1. ProcessTypes'
    BY <1>0, <1>3, GotoTypes DEF WorkerGate, PCs, InGate
  <2> QED
    BY <1>0, <1>3, <2>1 DEF WorkerGate, TypeInv, TypeOK, ProcessTypes
<1>4. CASE WorkerResolve(w)
  <2>0. Request(w) \in Requests /\ hold[Request(w)] \in Nat
    BY <1>0, <1>4 DEF WorkerResolve, TypeInv, TypeOK
  <2>1. ProcessTypes' /\ lock' = Released(w) /\ UNCHANGED <<subVars, faults>>
    BY <1>0, <1>4, FinishTypes DEF WorkerResolve
  <2>2. CASE CanResolve(Request(w)) /\ ~ AlreadySettled(Request(w))
    <3>1. /\ Settle(Request(w), hold[Request(w)]) /\ UNCHANGED <<known, usage>>
          /\ CanSettle(Request(w))
      BY <1>4, <2>2 DEF WorkerResolve, CanResolve
    <3>2. /\ reserved' \in [Periods -> Nat]
          /\ consumed' \in [Periods -> Nat]
          /\ charged' \in [Requests -> Nat]
          /\ ledger' \in [Requests ->
                            [reserve: Nat, capture: Nat, release: Nat]]
          /\ status' \in [Requests -> Statuses]
          /\ UNCHANGED <<granted, bound, hold, failedAt>>
      BY <2>0, <3>1, SettleKeepsTypes
    <3> QED
      BY <1>0, <2>1, <3>1, <3>2 DEF TypeInv, TypeOK, ProcessTypes
  <2>3. CASE ~ (CanResolve(Request(w)) /\ ~ AlreadySettled(Request(w)))
    BY <1>0, <1>4, <2>1, <2>3
    DEF WorkerResolve, TypeInv, TypeOK, ProcessTypes
  <2> QED
    BY <2>2, <2>3
<1> QED
  BY <1>1, <1>2, <1>3, <1>4 DEF WorkerStep

\* Every step keeps the types.
LEMMA TypeNext == TypeInv /\ [Next]_vars => TypeInv'
<1> SUFFICES ASSUME TypeInv, [Next]_vars PROVE TypeInv'
  OBVIOUS
<1> USE SetsAssumption, NumbersAssumption
<1> USE DEF subVars, allowanceVars, rowVars
<1>1. ASSUME NEW h \in Handlers, HandlerStep(h) PROVE TypeInv'
  BY <1>1, HandlerTypes
<1>2. ASSUME NEW w \in Workers, WorkerStep(w) PROVE TypeInv'
  BY <1>2, WorkerTypes
<1>3. ASSUME NEW p \in Procs, SettleStep(p) PROVE TypeInv'
  BY <1>3, SettlementTypes
<1>4. ASSUME NEW p \in Procs, Crash(p) PROVE TypeInv'
  <2>1. ProcessTypes' /\ Released(p) \in Procs \cup {None}
    BY <1>4, FinishTypes, ReleasedType DEF Crash
  <2> QED
    BY <1>4, <2>1 DEF Crash, Fault, TypeInv, TypeOK, ProcessTypes
<1>5. ASSUME NEW n \in Bonuses, Grant(n) PROVE TypeInv'
  BY <1>5 DEF Grant, TypeInv, TypeOK, RequestDefined, Request
<1>6. CASE ChangeCallable
  BY <1>6 DEF ChangeCallable, TypeInv, TypeOK, RequestDefined, Request
<1>7. CASE Renew
  BY <1>7 DEF Renew, TypeInv, TypeOK, RequestDefined, Request, Periods
<1>8. CASE UNCHANGED vars
  BY <1>8 DEF vars, TypeInv, TypeOK, RequestDefined, Request
<1> QED
  BY <1>1, <1>2, <1>3, <1>4, <1>5, <1>6, <1>7, <1>8 DEF Next

\* In every reachable state the variables have their types.
THEOREM TypeCorrect == Spec => []TypeOK
<1>1. TypeInv => TypeOK
  BY DEF TypeInv
<1> QED
  BY TypeInit, TypeNext, <1>1, PTL DEF Spec

-----------------------------------------------------------------------------
(* What the locks protect.                                                 *)

\* A process inside a transaction that took the account lock holds it.
GateHeld == \A p \in Procs : pc[p] \in InGate => lock = p

\* Between the check and the reservation the period stays, and the key stays
\* unused.
EligibleIsFresh ==
  \A h \in Handlers : At(h, "eligible") =>
    job[h].allowance = period /\ status[Request(h)] = "absent"

\* Nothing has been granted to a period that has not begun.
FutureUngranted == \A a \in Periods : a > period => granted[a] = 0

GateInv ==
  /\ GateHeld
  /\ EligibleIsFresh
  /\ EligibleStaysFunded
  /\ FutureUngranted
  /\ NoOvercommit

\* It holds initially.
LEMMA GateInit == Init => GateInv
  BY SetsAssumption, NumbersAssumption
  DEF Init, GateInv, GateHeld, EligibleIsFresh, EligibleStaysFunded,
      FutureUngranted, NoOvercommit, At, Periods, InGate, Procs

\* A step of p that ends outside of the gate, and that touches the allowances
\* or takes an unused key only when nobody else is in the gate.
LEMMA GateFrame ==
  ASSUME TypeInv, GateInv, NEW p \in Procs,
         \A q \in Procs : pc'[q] \in InGate =>
           q # p /\ pc'[q] = pc[q] /\ job'[q] = job[q],
         lock' \in {lock, Released(p)},
         UNCHANGED <<period, granted>>,
         \/ UNCHANGED <<reserved, consumed>>
         \/ lock \in {None, p} /\ NoOvercommit',
         \/ \A r \in Requests : status[r] = "absent" => status'[r] = "absent"
         \/ lock \in {None, p}
  PROVE  GateInv'
<1> USE SetsAssumption
<1>1. GateHeld'
  BY DEF GateInv, GateHeld, Released
<1>2. ASSUME NEW h \in Handlers, At(h, "eligible")'
      PROVE  /\ At(h, "eligible") /\ lock = h /\ lock \notin {None, p}
             /\ job'[h] = job[h] /\ Request(h) \in Requests
  BY <1>2
  DEF At, InGate, Procs, GateInv, GateHeld, TypeInv, RequestDefined
<1>3. EligibleIsFresh'
  BY <1>2 DEF GateInv, EligibleIsFresh, Request
<1>4. EligibleStaysFunded'
  BY <1>2 DEF GateInv, EligibleStaysFunded, Fits, Remaining
<1>5. FutureUngranted' /\ NoOvercommit'
  BY DEF GateInv, FutureUngranted, NoOvercommit
<1> QED
  BY <1>1, <1>3, <1>4, <1>5 DEF GateInv

\* A step of p that takes the free lock.
LEMMA GateEntered ==
  ASSUME TypeInv, GateInv, NEW p \in Procs, lock = None, lock' = p,
         \A q \in Procs \ {p} : pc'[q] = pc[q],
         UNCHANGED <<period, allowanceVars>>,
         p \in Handlers /\ At(p, "eligible")' =>
           /\ job'[p].allowance = period
           /\ status'[Request(p)'] = "absent"
           /\ Fits(p)'
  PROVE  GateInv'
<1> USE SetsAssumption DEF allowanceVars
<1>1. \A q \in Procs \ {p} : pc'[q] \notin InGate
  BY DEF GateInv, GateHeld
<1>2. GateHeld'
  BY <1>1 DEF GateHeld
<1>3. \A h \in Handlers : At(h, "eligible")' => h = p
  BY <1>1 DEF At, InGate, Procs
<1>4. EligibleIsFresh' /\ EligibleStaysFunded'
  BY <1>3 DEF EligibleIsFresh, EligibleStaysFunded
<1>5. FutureUngranted' /\ NoOvercommit'
  BY DEF GateInv, FutureUngranted, NoOvercommit
<1> QED
  BY <1>2, <1>4, <1>5 DEF GateInv

\* A settlement does not overdraw its allowance: it charges at most what the
\* allowance can give on top of the other requests' reservations.
LEMMA SettleWithinAllowance ==
  ASSUME TypeInv, NoOvercommit, NEW r \in Requests, NEW n \in Nat,
         CanSettle(r), Settle(r, n)
  PROVE  NoOvercommit'
<1> DEFINE a == AllowanceOf(r)
           c == ChargeFor(r, n)
<1>1. a \in Periods /\ c \in Nat
  BY SettleTypes
<1>2. /\ granted[a] \in Nat /\ consumed[a] \in Nat
      /\ reserved[a] \in Nat /\ hold[r] \in Nat
  BY <1>1 DEF TypeInv, TypeOK
<1>3. reserved[a] + consumed[a] <= granted[a]
  BY <1>1 DEF NoOvercommit
<1>4. (reserved[a] - hold[r]) + (consumed[a] + c) <= granted[a]
  BY <1>2, <1>3 DEF ChargeFor, AvailableTo, Min2, Max2
<1>5. /\ reserved' = [reserved EXCEPT ![a] = reserved[a] - hold[r]]
      /\ consumed' = [consumed EXCEPT ![a] = consumed[a] + c]
      /\ granted' = granted
  BY <1>1 DEF Settle, TypeInv, TypeOK
<1> HIDE DEF a, c
<1> QED
  BY <1>1, <1>4, <1>5 DEF NoOvercommit, TypeInv, TypeOK

\* Where a process is after each kind of ending.
LEMMA LeavesGate ==
  ASSUME TypeInv, NEW p \in Procs,
         \/ Finish(p)
         \/ \E where \in PCs \ InGate :
              /\ Goto(p, where)
              /\ \A q \in Procs \ {p} : job'[q] = job[q]
  PROVE  \A q \in Procs : pc'[q] \in InGate =>
           q # p /\ pc'[q] = pc[q] /\ job'[q] = job[q]
  BY DEF TypeInv, TypeOK, Finish, Goto, InGate

\* Every handler step keeps GateInv.
LEMMA HandlerGate ==
  ASSUME TypeInv, GateInv, NEW h \in Handlers, HandlerStep(h)
  PROVE  GateInv'
<1> USE SetsAssumption, NumbersAssumption
<1> USE DEF subVars, allowanceVars, rowVars, At
<1> DEFINE Local == \A q \in Procs : pc'[q] \in InGate =>
                      q # h /\ pc'[q] = pc[q] /\ job'[q] = job[q]
<1>0. /\ h \in Procs /\ job[h].tokens \in Nat
      /\ job[h].allowance \in Periods
      /\ pc[h] # "idle" => Request(h) \in Requests
  BY JobTypes DEF Procs
<1>1. ASSUME NEW r \in Requests, NEW e \in Estimates, Arrive(h, r, e)
      PROVE  GateInv'
  <2>1. Local
    BY <1>0, <1>1, LeavesGate DEF Arrive, PCs, InGate, TypeInv, TypeOK
  <2> QED
    BY <1>0, <1>1, <2>1, GateFrame DEF Arrive
<1>2. CASE BeginReplay(h)
  <2>1. Local
    BY <1>0, <1>2, LeavesGate DEF BeginReplay
  <2> QED
    BY <1>0, <1>2, <2>1, GateFrame DEF BeginReplay
<1>3. CASE BeginReject(h)
  <2>1. Local
    BY <1>0, <1>3, LeavesGate DEF BeginReject
  <2> QED
    BY <1>0, <1>3, <2>1, GateFrame DEF BeginReject, GateFree
<1>4. CASE BeginEligible(h)
  <2>1. /\ lock = None /\ lock' = h
        /\ \A q \in Procs \ {h} : pc'[q] = pc[q]
        /\ UNCHANGED <<period, allowanceVars>>
    BY <1>4 DEF BeginEligible, GateFree, Goto, TypeInv, TypeOK
  <2>2. /\ job'[h].allowance = period /\ job'[h].tokens = job[h].tokens
        /\ Request(h)' = Request(h)
    BY <1>0, <1>4 DEF BeginEligible, TypeInv, TypeOK, Job, Request
  <2>3. status'[Request(h)] = "absent"
    BY <1>4 DEF BeginEligible
  <2>4. Fits(h)'
    BY <1>4, <2>2 DEF BeginEligible, Eligible, Fits, Remaining
  <2> QED
    BY <1>0, <2>1, <2>2, <2>3, <2>4, GateEntered
<1>5. CASE BeginLimited(h)
  <2>1. Local
    BY <1>0, <1>5, LeavesGate DEF BeginLimited
  <2>2. lock = h
    BY <1>0, <1>5 DEF BeginLimited, GateInv, GateHeld, InGate
  <2> QED
    BY <1>0, <1>5, <2>1, <2>2, GateFrame DEF BeginLimited
<1>6. CASE BeginReserve(h)
  <2> DEFINE a == job[h].allowance
  <2>1. Local
    BY <1>0, <1>6, LeavesGate
    DEF BeginReserve, PCs, InGate, TypeInv, TypeOK
  <2>2. lock = h
    BY <1>0, <1>6 DEF BeginReserve, GateInv, GateHeld, InGate
  <2>3. NoOvercommit'
    <3>1. reserved' = [reserved EXCEPT ![a] = reserved[a] + job[h].tokens]
      BY <1>0, <1>6 DEF BeginReserve, TypeInv, TypeOK
    <3>2. (reserved[a] + job[h].tokens) + consumed[a] <= granted[a]
      BY <1>0, <1>6 DEF BeginReserve, Fits, Remaining, TypeInv, TypeOK
    <3>3. UNCHANGED <<granted, consumed>>
      BY <1>6 DEF BeginReserve
    <3> HIDE DEF a
    <3> QED
      BY <1>0, <3>1, <3>2, <3>3
      DEF GateInv, NoOvercommit, TypeInv, TypeOK
  <2> QED
    BY <1>0, <1>6, <2>1, <2>2, <2>3, GateFrame DEF BeginReserve
<1>7. CASE BeginFails(h)
  <2>1. Local
    BY <1>0, <1>7, LeavesGate DEF BeginFails
  <2> QED
    BY <1>0, <1>7, <2>1, GateFrame DEF BeginFails
<1>8. CASE MarkStreaming(h)
  <2>1. Local
    BY <1>0, <1>8, LeavesGate DEF MarkStreaming, PCs, InGate
  <2>2. \A r \in Requests : status[r] = "absent" => status'[r] = "absent"
    BY <1>0, <1>8 DEF MarkStreaming, TypeInv, TypeOK
  <2> QED
    BY <1>0, <1>8, <2>1, <2>2, GateFrame DEF MarkStreaming
<1>9. ASSUME NEW u \in Usages, ProviderReports(h, u) PROVE GateInv'
  <2>1. \A q \in Procs \ {h} : job'[q] = job[q]
    BY <1>9 DEF ProviderReports, TypeInv, TypeOK
  <2>2. Local
    BY <1>0, <1>9, <2>1, LeavesGate DEF ProviderReports, PCs, InGate
  <2> QED
    BY <1>0, <1>9, <2>2, GateFrame DEF ProviderReports
<1>10. CASE ProviderSilent(h)
  <2>1. Local
    BY <1>0, <1>10, LeavesGate DEF ProviderSilent, PCs, InGate
  <2> QED
    BY <1>0, <1>10, <2>1, GateFrame DEF ProviderSilent
<1>11. ASSUME NEW g \in Handlers, NEW u \in Usages, Cancel(h, g, u)
       PROVE  GateInv'
  <2>1. \A q \in Procs \ {g, h} : pc'[q] = pc[q] /\ job'[q] = job[q]
    BY <1>11 DEF Cancel, TypeInv, TypeOK
  <2>2. pc'[g] \notin InGate /\ pc'[h] \notin InGate
    <3>1. g \in Procs /\ g # h /\ pc \in [Procs -> PCs]
      BY <1>11 DEF Procs, Cancel, TypeInv, TypeOK
    <3>2. pc' = [pc EXCEPT ![h] = "aborted",
                           ![g] = IF u = 0 THEN "markUnknown" ELSE "settle"]
      BY <1>11 DEF Cancel
    <3>3. /\ pc'[h] = "aborted"
          /\ pc'[g] = IF u = 0 THEN "markUnknown" ELSE "settle"
      BY <1>0, <3>1, <3>2
    <3> QED
      BY <3>3 DEF InGate
  <2>3. Local
    BY <2>1, <2>2
  <2> QED
    BY <1>0, <1>11, <2>3, GateFrame DEF Cancel
<1>12. CASE MarkKnown(h)
  <2>1. Local
    <3>1. \/ Finish(h)
          \/ \E where \in {"settle", "markUnknown"} :
               /\ Goto(h, where)
               /\ job' = [job EXCEPT ![h].retry = "none"]
      BY <1>0, <1>12, JobTypes DEF MarkKnown, Retries
    <3>2. job' = [job EXCEPT ![h].retry = "none"]
            => \A q \in Procs \ {h} : job'[q] = job[q]
      BY DEF TypeInv, TypeOK
    <3> QED
      BY <1>0, <3>1, <3>2, LeavesGate DEF PCs, InGate
  <2>2. \A r \in Requests : status[r] = "absent" => status'[r] = "absent"
    BY <1>0, <1>12
    DEF MarkKnown, MarkFailed, MarkLost, InFlight, TypeInv, TypeOK
  <2> QED
    BY <1>0, <1>12, <2>1, <2>2, GateFrame DEF MarkKnown
<1>13. CASE MarkUnknown(h)
  <2>1. Local
    BY <1>0, <1>13, LeavesGate DEF MarkUnknown
  <2>2. \A r \in Requests : status[r] = "absent" => status'[r] = "absent"
    BY <1>0, <1>13
    DEF MarkUnknown, MarkFailed, MarkLost, InFlight, TypeInv, TypeOK
  <2> QED
    BY <1>0, <1>13, <2>1, <2>2, GateFrame DEF MarkUnknown
<1> QED
  BY <1>1, <1>2, <1>3, <1>4, <1>5, <1>6, <1>7, <1>8, <1>9, <1>10, <1>11,
     <1>12, <1>13 DEF HandlerStep

\* Every settlement step keeps GateInv.
LEMMA SettlementGate ==
  ASSUME TypeInv, GateInv, NEW p \in Procs, SettleStep(p)
  PROVE  GateInv'
<1> USE SetsAssumption, NumbersAssumption
<1> USE DEF subVars, allowanceVars, rowVars, At
<1> DEFINE Local == \A q \in Procs : pc'[q] \in InGate =>
                      q # p /\ pc'[q] = pc[q] /\ job'[q] = job[q]
<1>0. /\ job[p].tokens \in Nat
      /\ pc[p] # "idle" => Request(p) \in Requests
  BY JobTypes
<1>a. ASSUME AfterFailure(p) PROVE Local
  BY <1>a, LeavesGate DEF AfterFailure, PCs, InGate
<1>1. CASE SettleRead(p)
  <2>1. Local
    BY <1>1, LeavesGate DEF SettleRead, PCs, InGate
  <2> QED
    BY <1>1, <2>1, GateFrame DEF SettleRead
<1>2. CASE SettleGate(p)
  <2>1. pc'[p] = "locked" /\ \A q \in Procs \ {p} : pc'[q] = pc[q]
    BY <1>2 DEF SettleGate, Goto, TypeInv, TypeOK
  <2> QED
    BY <1>2, <2>1, GateEntered DEF SettleGate, GateFree
<1>3. CASE SettleIdempotent(p)
  <2>1. Local
    BY <1>3, LeavesGate DEF SettleIdempotent
  <2> QED
    BY <1>3, <2>1, GateFrame DEF SettleIdempotent
<1>4. CASE SettleCommit(p)
  <2>0. Request(p) \in Requests /\ lock = p
    BY <1>0, <1>4 DEF SettleCommit, GateInv, GateHeld, InGate
  <2>1. Local
    BY <1>4, <1>a, LeavesGate DEF SettleCommit
  <2>2. NoOvercommit'
    BY <1>0, <1>4, <2>0, SettleWithinAllowance DEF SettleCommit, GateInv
  <2> QED
    BY <1>4, <2>0, <2>1, <2>2, GateFrame DEF SettleCommit, Settle
<1>5. CASE SettleFails(p)
  <2>1. Local
    BY <1>5, <1>a DEF SettleFails
  <2> QED
    BY <1>5, <2>1, GateFrame DEF SettleFails
<1> QED
  BY <1>1, <1>2, <1>3, <1>4, <1>5 DEF SettleStep

\* Every other step of the worker keeps GateInv.
LEMMA WorkerKeepsGate ==
  ASSUME TypeInv, GateInv, NEW w \in Workers, WorkerStep(w)
  PROVE  GateInv'
<1> USE SetsAssumption, NumbersAssumption
<1> USE DEF subVars, allowanceVars, rowVars, At
<1> DEFINE Local == \A q \in Procs : pc'[q] \in InGate =>
                      q # w /\ pc'[q] = pc[q] /\ job'[q] = job[q]
<1>0. /\ w \in Procs
      /\ pc[w] # "idle" => Request(w) \in Requests
  BY JobTypes DEF Procs
<1>1. CASE WorkerSelect(w)
  <2>1. Local
    BY <1>0, <1>1, LeavesGate
    DEF WorkerSelect, PCs, InGate, TypeInv, TypeOK
  <2> QED
    BY <1>0, <1>1, <2>1, GateFrame DEF WorkerSelect
<1>2. CASE WorkerReadKnown(w)
  <2>1. Local
    BY <1>0, <1>2, LeavesGate
    DEF WorkerReadKnown, PCs, InGate, TypeInv, TypeOK
  <2> QED
    BY <1>0, <1>2, <2>1, GateFrame DEF WorkerReadKnown
<1>3. CASE WorkerGate(w)
  <2>1. \A q \in Procs \ {w} : pc'[q] = pc[q]
    BY <1>3 DEF WorkerGate, Goto, TypeInv, TypeOK
  <2> QED
    BY <1>0, <1>3, <2>1, GateEntered DEF WorkerGate, GateFree
<1>4. CASE WorkerResolve(w)
  <2>0. /\ Request(w) \in Requests /\ hold[Request(w)] \in Nat /\ lock = w
    BY <1>0, <1>4
    DEF WorkerResolve, GateInv, GateHeld, InGate, TypeInv, TypeOK
  <2>1. Local /\ lock' = Released(w) /\ UNCHANGED <<period, granted>>
    BY <1>0, <1>4, LeavesGate DEF WorkerResolve, Settle
  <2>2. NoOvercommit'
    <3>1. CASE CanResolve(Request(w)) /\ ~ AlreadySettled(Request(w))
      BY <1>4, <2>0, <3>1, SettleWithinAllowance
      DEF WorkerResolve, CanResolve, GateInv
    <3>2. CASE ~ (CanResolve(Request(w)) /\ ~ AlreadySettled(Request(w)))
      BY <1>4, <3>2 DEF WorkerResolve, GateInv, NoOvercommit
    <3> QED
      BY <3>1, <3>2
  <2> QED
    BY <1>0, <2>0, <2>1, <2>2, GateFrame
<1> QED
  BY <1>1, <1>2, <1>3, <1>4 DEF WorkerStep

\* Every step keeps GateInv.
LEMMA GateNext == TypeInv /\ GateInv /\ [Next]_vars => GateInv'
<1> SUFFICES ASSUME TypeInv, GateInv, [Next]_vars PROVE GateInv'
  OBVIOUS
<1> USE SetsAssumption, NumbersAssumption
<1> USE DEF subVars, allowanceVars, rowVars
<1>1. ASSUME NEW h \in Handlers, HandlerStep(h) PROVE GateInv'
  BY <1>1, HandlerGate
<1>2. ASSUME NEW w \in Workers, WorkerStep(w) PROVE GateInv'
  BY <1>2, WorkerKeepsGate
<1>3. ASSUME NEW p \in Procs, SettleStep(p) PROVE GateInv'
  BY <1>3, SettlementGate
<1>4. ASSUME NEW p \in Procs, Crash(p) PROVE GateInv'
  <2>1. \A q \in Procs : pc'[q] \in InGate =>
          q # p /\ pc'[q] = pc[q] /\ job'[q] = job[q]
    BY <1>4, LeavesGate DEF Crash
  <2> QED
    BY <1>4, <2>1, GateFrame DEF Crash
<1>5. ASSUME NEW n \in Bonuses, Grant(n) PROVE GateInv'
  <2>1. GateHeld' /\ EligibleIsFresh' /\ EligibleStaysFunded'
    BY <1>5
    DEF Grant, SubscriptionUnlocked, GateInv, GateHeld, EligibleIsFresh,
        EligibleStaysFunded, At
  <2>2. \A a \in Periods :
          granted'[a] = IF a = period THEN granted[a] + n ELSE granted[a]
    BY <1>5 DEF Grant, TypeInv, TypeOK
  <2>3. FutureUngranted'
    BY <1>5, <2>2
    DEF Grant, GateInv, FutureUngranted, TypeInv, TypeOK, Periods
  <2>4. NoOvercommit'
    BY <1>5, <2>2 DEF Grant, GateInv, NoOvercommit, TypeInv, TypeOK
  <2> QED
    BY <2>1, <2>3, <2>4 DEF GateInv
<1>6. CASE ChangeCallable
  BY <1>6
  DEF ChangeCallable, SubscriptionUnlocked, GateInv, GateHeld,
      EligibleIsFresh, EligibleStaysFunded, FutureUngranted, NoOvercommit, At
<1>7. CASE Renew
  <2>1. GateHeld' /\ EligibleIsFresh' /\ EligibleStaysFunded'
    BY <1>7
    DEF Renew, SubscriptionUnlocked, GateInv, GateHeld, EligibleIsFresh,
        EligibleStaysFunded, At
  <2>2. FutureUngranted'
    BY <1>7 DEF Renew, GateInv, FutureUngranted, TypeInv, TypeOK, Periods
  <2>3. reserved[period + 1] = 0 /\ consumed[period + 1] = 0
    <3>1. period + 1 \in Periods /\ period + 1 > period
      BY <1>7 DEF Renew, TypeInv, TypeOK, Periods
    <3>2. granted[period + 1] = 0
      BY <3>1 DEF GateInv, FutureUngranted
    <3> QED
      BY <3>1, <3>2 DEF GateInv, NoOvercommit, TypeInv, TypeOK
  <2>4. NoOvercommit'
    <3>1. \A a \in Periods :
            granted'[a] = IF a = period + 1 THEN PlanTokens ELSE granted[a]
      BY <1>7 DEF Renew, TypeInv, TypeOK
    <3> QED
      BY <1>7, <2>3, <3>1 DEF Renew, GateInv, NoOvercommit
  <2> QED
    BY <2>1, <2>2, <2>4 DEF GateInv
<1>8. CASE UNCHANGED vars
  BY <1>8
  DEF vars, GateInv, GateHeld, EligibleIsFresh, EligibleStaysFunded,
      FutureUngranted, NoOvercommit, At, Fits, Remaining, Request
<1> QED
  BY <1>1, <1>2, <1>3, <1>4, <1>5, <1>6, <1>7, <1>8 DEF Next

\* No interleaving of preauthorizations, settlements, grants and renewals
\* overdraws an allowance.
THEOREM NeverOvercommitted == Spec => []NoOvercommit
<1>1. GateInv => NoOvercommit
  BY DEF GateInv
<1> QED
  BY TypeInit, TypeNext, GateInit, GateNext, <1>1, PTL DEF Spec

\* A request that passed the unlocked check of its allowance finds the Tokens
\* still there when it has locked it.
THEOREM EligibleAlwaysFunded == Spec => []EligibleStaysFunded
<1>1. GateInv => EligibleStaysFunded
  BY DEF GateInv
<1> QED
  BY TypeInit, TypeNext, GateInit, GateNext, <1>1, PTL DEF Spec

-----------------------------------------------------------------------------
(* Sums of Tokens, as cardinalities.                                       *)

\* The Tokens of one request: as many as f says.
LEMMA UnitsOfOne ==
  ASSUME NEW r, NEW n \in Nat
  PROVE  /\ IsFiniteSet({r} \X (1 .. n))
         /\ Cardinality({r} \X (1 .. n)) = n
<1>1. IsFiniteSet({r}) /\ Cardinality({r}) = 1
  BY FS_Singleton
<1>2. IsFiniteSet(1 .. n) /\ Cardinality(1 .. n) = n
  BY FS_Interval
<1>3. /\ IsFiniteSet({r} \X (1 .. n))
      /\ Cardinality({r} \X (1 .. n)) = Cardinality({r}) * Cardinality(1 .. n)
  BY <1>1, <1>2, FS_Product
<1> QED
  BY <1>1, <1>2, <1>3

\* The Tokens of finitely many requests are finitely many.
LEMMA UnitsFinite ==
  ASSUME NEW S, IsFiniteSet(S), NEW f, \A r \in S : f[r] \in Nat
  PROVE  IsFiniteSet(TokenUnits(S, f))
<1> DEFINE parts == {{r} \X (1 .. f[r]) : r \in S}
           part == [r \in S |-> {r} \X (1 .. f[r])]
<1>1. part \in Surjection(S, parts)
  BY DEF Surjection
<1>2. IsFiniteSet(parts)
  BY <1>1, FS_Surjection
<1>3. \A P \in parts : IsFiniteSet(P)
  <2>1. \A r \in S : IsFiniteSet({r} \X (1 .. f[r]))
    BY UnitsOfOne
  <2> QED
    BY <2>1
<1> QED
  BY <1>2, <1>3, FS_UNION DEF TokenUnits

\* One more request adds its Tokens to the sum.
LEMMA UnitsAdd ==
  ASSUME NEW S, IsFiniteSet(S), NEW f, \A q \in S : f[q] \in Nat,
         NEW r, r \notin S, f[r] \in Nat
  PROVE  Cardinality(TokenUnits(S \cup {r}, f))
           = Cardinality(TokenUnits(S, f)) + f[r]
<1> DEFINE A == TokenUnits(S, f)
           B == {r} \X (1 .. f[r])
<1>1. IsFiniteSet(A)
  BY UnitsFinite
<1>2. IsFiniteSet(B) /\ Cardinality(B) = f[r]
  BY UnitsOfOne
<1>3. TokenUnits(S \cup {r}, f) = A \cup B
  BY DEF TokenUnits
<1>4. A \cap B = {}
  BY DEF TokenUnits
<1>5. Cardinality(A \cup B)
        = Cardinality(A) + Cardinality(B) - Cardinality(A \cap B)
  BY <1>1, <1>2, FS_Union
<1>6. Cardinality(A) \in Nat /\ Cardinality(A \cap B) = 0
  BY <1>1, <1>4, FS_CardinalityType, FS_EmptySet
<1> HIDE DEF A, B
<1>7. Cardinality(A \cup B) = Cardinality(A) + f[r]
  BY <1>2, <1>5, <1>6
<1> QED
  BY <1>3, <1>7 DEF A

\* One request less takes its Tokens off the sum.
LEMMA UnitsRemove ==
  ASSUME NEW S, IsFiniteSet(S), NEW f, \A q \in S : f[q] \in Nat, NEW r \in S
  PROVE  /\ f[r] <= Cardinality(TokenUnits(S, f))
         /\ Cardinality(TokenUnits(S \ {r}, f))
              = Cardinality(TokenUnits(S, f)) - f[r]
<1>1. IsFiniteSet(S \ {r}) /\ (S \ {r}) \cup {r} = S
  BY FS_RemoveElement
<1>2. Cardinality(TokenUnits(S, f))
        = Cardinality(TokenUnits(S \ {r}, f)) + f[r]
  BY <1>1, UnitsAdd
<1>3. Cardinality(TokenUnits(S \ {r}, f)) \in Nat
  BY <1>1, UnitsFinite, FS_CardinalityType
<1> QED
  BY <1>2, <1>3

\* The sum depends on the Tokens of its requests only.
LEMMA UnitsAgree ==
  ASSUME NEW S, NEW f, NEW g, \A r \in S : f[r] = g[r]
  PROVE  TokenUnits(S, f) = TokenUnits(S, g)
  BY DEF TokenUnits

-----------------------------------------------------------------------------
(* The allowances and the ledger agree with the rows.                      *)

\* A row is bound to an allowance when it is admitted.
RowsBound ==
  \A r \in Requests :
    /\ status[r] = "absent" => bound[r] = None
    /\ status[r] \in Unsettled \cup {"settled"} => bound[r] \in Periods

BooksInv ==
  /\ RowsBound
  /\ LedgerTellsAll
  /\ ReservationsAccounted
  /\ ConsumptionAccounted

\* It holds initially: there is no row.
LEMMA BooksInit == Init => BooksInv
<1> SUFFICES ASSUME Init PROVE BooksInv
  OBVIOUS
<1>1. RowsBound /\ LedgerTellsAll
  BY DEF Init, RowsBound, LedgerTellsAll, EntriesOf, Unsettled, NoEntries
<1>2. \A a \in Periods : HeldFrom(a) = {} /\ PaidFrom(a) = {}
  BY DEF Init, HeldFrom, PaidFrom, Unsettled
<1>3. \A f : TokenUnits({}, f) = {}
  BY DEF TokenUnits
<1>4. ReservationsAccounted /\ ConsumptionAccounted
  BY <1>2, <1>3, FS_EmptySet
  DEF Init, ReservationsAccounted, ConsumptionAccounted
<1> QED
  BY <1>1, <1>4 DEF BooksInv

\* The requests of an allowance are finitely many.
LEMMA RowsFinite ==
  ASSUME NEW a
  PROVE  IsFiniteSet(HeldFrom(a)) /\ IsFiniteSet(PaidFrom(a))
  BY SetsAssumption, FS_Subset DEF HeldFrom, PaidFrom

\* Steps that move no Tokens: a row may go from one open status to another,
\* and an unused key may be rejected.
LEMMA BooksFrame ==
  ASSUME TypeInv, BooksInv, UNCHANGED <<reserved, consumed, charged, ledger>>,
         \A r \in Requests :
           \/ /\ bound'[r] = bound[r] /\ hold'[r] = hold[r]
              /\ \/ status'[r] = status[r]
                 \/ status[r] \in Unsettled /\ status'[r] \in Unsettled
           \/ status[r] = "absent" /\ status'[r] = "rejected"
  PROVE  BooksInv'
<1>1. RowsBound'
  BY DEF BooksInv, RowsBound, Unsettled
<1>2. LedgerTellsAll'
  BY DEF BooksInv, LedgerTellsAll, EntriesOf, Unsettled
<1>3. \A a \in Periods : /\ HeldFrom(a)' = HeldFrom(a)
                         /\ PaidFrom(a)' = PaidFrom(a)
  BY DEF HeldFrom, PaidFrom, Unsettled
<1>4. \A a \in Periods : \A r \in HeldFrom(a) : hold'[r] = hold[r]
  BY DEF HeldFrom, Unsettled
<1>5. \A a \in Periods :
        TokenUnits(HeldFrom(a), hold') = TokenUnits(HeldFrom(a), hold)
  BY <1>4, UnitsAgree
<1>6. ReservationsAccounted'
  BY <1>3, <1>5 DEF BooksInv, ReservationsAccounted
<1>7. ConsumptionAccounted'
  BY <1>3 DEF BooksInv, ConsumptionAccounted
<1> QED
  BY <1>1, <1>2, <1>6, <1>7 DEF BooksInv

\* A reservation adds its Tokens to what its allowance has reserved.
LEMMA BooksReserve ==
  ASSUME TypeInv, BooksInv, NEW r \in Requests, NEW a \in Periods,
         NEW n \in Nat, status[r] = "absent",
         reserved' = [reserved EXCEPT ![a] = reserved[a] + n],
         ledger' = [ledger EXCEPT ![r].reserve = n],
         status' = [status EXCEPT ![r] = "reserved"],
         bound' = [bound EXCEPT ![r] = a],
         hold' = [hold EXCEPT ![r] = n],
         UNCHANGED <<consumed, charged>>
  PROVE  BooksInv'
<1> USE SetsAssumption
<1>1. RowsBound'
  BY DEF BooksInv, RowsBound, Unsettled, TypeInv, TypeOK
<1>2. LedgerTellsAll'
  <2>1. ledger[r] = NoEntries
    BY DEF BooksInv, LedgerTellsAll, EntriesOf, Unsettled
  <2>2. ledger'[r] = [reserve |-> n, capture |-> 0, release |-> 0]
    BY <2>1 DEF TypeInv, TypeOK, NoEntries
  <2>3. EntriesOf(r)' = [reserve |-> n, capture |-> 0, release |-> 0]
    BY DEF EntriesOf, Unsettled, TypeInv, TypeOK
  <2>4. ASSUME NEW q \in Requests \ {r}
        PROVE  ledger'[q] = ledger[q] /\ EntriesOf(q)' = EntriesOf(q)
    <3>1. /\ ledger'[q] = ledger[q] /\ charged'[q] = charged[q]
          /\ status'[q] = status[q] /\ hold'[q] = hold[q]
      BY DEF TypeInv, TypeOK
    <3> QED
      BY <3>1 DEF EntriesOf
  <2> QED
    BY <2>2, <2>3, <2>4 DEF BooksInv, LedgerTellsAll
<1>3. /\ HeldFrom(a)' = HeldFrom(a) \cup {r} /\ r \notin HeldFrom(a)
      /\ \A b \in Periods \ {a} : HeldFrom(b)' = HeldFrom(b)
      /\ \A b \in Periods : PaidFrom(b)' = PaidFrom(b) /\ r \notin HeldFrom(b)
  BY DEF HeldFrom, PaidFrom, Unsettled, TypeInv, TypeOK
<1>4. \A b \in Periods :
        TokenUnits(HeldFrom(b), hold') = TokenUnits(HeldFrom(b), hold)
  <2>1. \A b \in Periods : \A q \in HeldFrom(b) : hold'[q] = hold[q]
    BY <1>3 DEF HeldFrom, TypeInv, TypeOK
  <2> QED
    BY <2>1, UnitsAgree
<1>5. Cardinality(TokenUnits(HeldFrom(a) \cup {r}, hold'))
        = Cardinality(TokenUnits(HeldFrom(a), hold')) + n
  <2>1. hold'[r] = n /\ \A q \in HeldFrom(a) : hold'[q] \in Nat
    BY DEF HeldFrom, TypeInv, TypeOK
  <2>2. IsFiniteSet(HeldFrom(a)) /\ r \notin HeldFrom(a)
    BY <1>3, RowsFinite
  <2>3. Cardinality(TokenUnits(HeldFrom(a) \cup {r}, hold'))
          = Cardinality(TokenUnits(HeldFrom(a), hold')) + hold'[r]
    <3>1. ASSUME NEW g, \A q \in HeldFrom(a) \cup {r} : g[q] \in Nat
          PROVE  Cardinality(TokenUnits(HeldFrom(a) \cup {r}, g))
                   = Cardinality(TokenUnits(HeldFrom(a), g)) + g[r]
      BY <2>2, <3>1, UnitsAdd
    <3> QED
      BY <2>1, <3>1
  <2> QED
    BY <2>1, <2>3
<1>6. ReservationsAccounted'
  BY <1>3, <1>4, <1>5 DEF BooksInv, ReservationsAccounted, TypeInv, TypeOK
<1>7. ConsumptionAccounted'
  BY <1>3 DEF BooksInv, ConsumptionAccounted
<1> QED
  BY <1>1, <1>2, <1>6, <1>7 DEF BooksInv

\* A settlement moves a row from the held ones to the paid ones of the same
\* allowance, which gives its reservation back and books its charge.
LEMMA BooksSettle ==
  ASSUME TypeInv, BooksInv, NEW r \in Requests, NEW n \in Nat,
         CanSettle(r), ~ AlreadySettled(r), Settle(r, n)
  PROVE  BooksInv'
<1> USE SetsAssumption
<1> SUFFICES ASSUME NEW a \in Periods, a = AllowanceOf(r),
                    NEW c \in Nat, c = ChargeFor(r, n)
             PROVE  BooksInv'
  BY SettleTypes
<1>1. a = bound[r]
  BY DEF AllowanceOf
<1>2. /\ reserved' = [reserved EXCEPT ![a] = reserved[a] - hold[r]]
      /\ consumed' = [consumed EXCEPT ![a] = consumed[a] + c]
      /\ charged' = [charged EXCEPT ![r] = c]
      /\ ledger' = [ledger EXCEPT ![r] =
           [reserve |-> ledger[r].reserve, capture |-> c,
            release |-> hold[r] - Min2(hold[r], c)]]
      /\ status' = [status EXCEPT ![r] = "settled"]
      /\ UNCHANGED <<bound, hold>>
  BY <1>1 DEF Settle, FromReservation, TypeInv, TypeOK
<1>3. status[r] \in Unsettled
  BY <1>1
  DEF AlreadySettled, BooksInv, RowsBound, Terminal, TypeInv, TypeOK,
      Statuses, Periods
<1>4. RowsBound'
  BY <1>1, <1>2 DEF BooksInv, RowsBound, TypeInv, TypeOK
<1>5. LedgerTellsAll'
  <2>1. ledger[r].reserve = hold[r]
    <3>1. ledger[r] = EntriesOf(r)
      BY DEF BooksInv, LedgerTellsAll
    <3>2. EntriesOf(r) = [reserve |-> hold[r], capture |-> 0, release |-> 0]
      BY <1>3 DEF EntriesOf, Unsettled
    <3> QED
      BY <3>1, <3>2
  <2>2. /\ ledger'[r] = [reserve |-> hold[r], capture |-> c,
                         release |-> hold[r] - Min2(hold[r], c)]
        /\ charged'[r] = c /\ status'[r] = "settled" /\ hold'[r] = hold[r]
    BY <1>2, <2>1 DEF TypeInv, TypeOK
  <2>3. ledger'[r] = EntriesOf(r)'
    BY <2>2 DEF EntriesOf, Unsettled
  <2>4. ASSUME NEW q \in Requests \ {r}
        PROVE  ledger'[q] = ledger[q] /\ EntriesOf(q)' = EntriesOf(q)
    <3>1. /\ ledger'[q] = ledger[q] /\ charged'[q] = charged[q]
          /\ status'[q] = status[q] /\ hold'[q] = hold[q]
      BY <1>2 DEF TypeInv, TypeOK
    <3> QED
      BY <3>1 DEF EntriesOf
  <2> QED
    BY <2>3, <2>4 DEF BooksInv, LedgerTellsAll
<1>6. /\ r \in HeldFrom(a) /\ r \notin PaidFrom(a)
      /\ HeldFrom(a)' = HeldFrom(a) \ {r}
      /\ PaidFrom(a)' = PaidFrom(a) \cup {r}
      /\ \A b \in Periods \ {a} : /\ HeldFrom(b)' = HeldFrom(b)
                                  /\ PaidFrom(b)' = PaidFrom(b)
  BY <1>1, <1>2, <1>3 DEF HeldFrom, PaidFrom, Unsettled, TypeInv, TypeOK
<1>7. ReservationsAccounted'
  <2>1. Cardinality(TokenUnits(HeldFrom(a) \ {r}, hold))
          = Cardinality(TokenUnits(HeldFrom(a), hold)) - hold[r]
    <3>1. \A q \in HeldFrom(a) : hold[q] \in Nat
      BY DEF HeldFrom, TypeInv, TypeOK
    <3> QED
      BY <1>6, <3>1, RowsFinite, UnitsRemove
  <2> QED
    BY <1>1, <1>2, <1>6, <2>1
    DEF BooksInv, ReservationsAccounted, TypeInv, TypeOK
<1>8. ConsumptionAccounted'
  <2>1. \A b \in Periods :
          TokenUnits(PaidFrom(b), charged') = TokenUnits(PaidFrom(b), charged)
    <3>1. \A b \in Periods : \A q \in PaidFrom(b) : charged'[q] = charged[q]
      BY <1>2, <1>3 DEF PaidFrom, Unsettled, TypeInv, TypeOK
    <3> QED
      BY <3>1, UnitsAgree
  <2>2. Cardinality(TokenUnits(PaidFrom(a) \cup {r}, charged'))
          = Cardinality(TokenUnits(PaidFrom(a), charged')) + c
    <3>1. charged'[r] = c /\ \A q \in PaidFrom(a) : charged'[q] \in Nat
      BY <1>1, <1>2 DEF PaidFrom, TypeInv, TypeOK
    <3>2. IsFiniteSet(PaidFrom(a)) /\ r \notin PaidFrom(a)
      BY <1>6, RowsFinite
    <3>3. Cardinality(TokenUnits(PaidFrom(a) \cup {r}, charged'))
            = Cardinality(TokenUnits(PaidFrom(a), charged')) + charged'[r]
      BY <3>1, <3>2, UnitsAdd
    <3> QED
      BY <3>1, <3>3
  <2> QED
    BY <1>1, <1>2, <1>6, <2>1, <2>2
    DEF BooksInv, ConsumptionAccounted, TypeInv, TypeOK
<1> QED
  BY <1>4, <1>5, <1>7, <1>8 DEF BooksInv

\* Marking a failed settlement moves no Tokens.
LEMMA BooksMark ==
  ASSUME TypeInv, BooksInv, NEW r \in Requests, NEW k, NEW n,
         MarkFailed(r, k, n) \/ UNCHANGED rowVars,
         UNCHANGED <<reserved, consumed, ledger>>
  PROVE  BooksInv'
<1>1. \A q \in Requests :
        /\ bound'[q] = bound[q] /\ hold'[q] = hold[q]
        /\ \/ status'[q] = status[q]
           \/ status[q] \in Unsettled /\ status'[q] \in Unsettled
  BY DEF MarkFailed, InFlight, rowVars, Unsettled, TypeInv, TypeOK
<1>2. UNCHANGED charged
  BY DEF MarkFailed, rowVars
<1> QED
  BY <1>1, <1>2, BooksFrame

\* A step that leaves the rows, what is reserved and consumed, and the ledger
\* alone.
LEMMA BooksSame ==
  ASSUME TypeInv, BooksInv, UNCHANGED <<reserved, consumed, rowVars, ledger>>
  PROVE  BooksInv'
  BY BooksFrame DEF rowVars

\* Every handler step keeps the books.
LEMMA HandlerBooks ==
  ASSUME TypeInv, GateInv, BooksInv, NEW h \in Handlers, HandlerStep(h)
  PROVE  BooksInv'
<1> USE SetsAssumption, NumbersAssumption
<1> USE DEF subVars, allowanceVars, At
<1>0. /\ job[h].tokens \in Nat /\ job[h].allowance \in Periods
      /\ pc[h] # "idle" => Request(h) \in Requests
  BY JobTypes DEF Procs
<1>1. CASE UNCHANGED <<allowanceVars, rowVars, ledger>>
  BY <1>1, BooksSame
<1>2. CASE BeginReject(h)
  <2>1. \A r \in Requests :
          \/ bound'[r] = bound[r] /\ hold'[r] = hold[r] /\ status'[r] = status[r]
          \/ status[r] = "absent" /\ status'[r] = "rejected"
    BY <1>0, <1>2 DEF BeginReject, TypeInv, TypeOK
  <2> QED
    BY <1>2, <2>1, BooksFrame DEF BeginReject
<1>3. CASE BeginLimited(h)
  <2>1. status[Request(h)] = "absent"
    BY <1>3 DEF BeginLimited, GateInv, EligibleIsFresh
  <2>2. \A r \in Requests :
          \/ bound'[r] = bound[r] /\ hold'[r] = hold[r] /\ status'[r] = status[r]
          \/ status[r] = "absent" /\ status'[r] = "rejected"
    BY <1>0, <1>3, <2>1 DEF BeginLimited, TypeInv, TypeOK
  <2> QED
    BY <1>3, <2>2, BooksFrame DEF BeginLimited
<1>4. CASE BeginReserve(h)
  <2>1. status[Request(h)] = "absent" /\ Request(h) \in Requests
    BY <1>0, <1>4 DEF BeginReserve, GateInv, EligibleIsFresh
  <2>2. reserved' = [reserved EXCEPT ![job[h].allowance] =
                       reserved[job[h].allowance] + job[h].tokens]
    BY <1>0, <1>4 DEF BeginReserve, TypeInv, TypeOK
  <2> QED
    BY <1>0, <1>4, <2>1, <2>2, BooksReserve DEF BeginReserve
<1>5. CASE MarkStreaming(h)
  <2>1. \A r \in Requests :
          /\ bound'[r] = bound[r] /\ hold'[r] = hold[r]
          /\ \/ status'[r] = status[r]
             \/ status[r] \in Unsettled /\ status'[r] \in Unsettled
    BY <1>5 DEF MarkStreaming, Unsettled, TypeInv, TypeOK
  <2> QED
    BY <1>5, <2>1, BooksFrame DEF MarkStreaming
<1>6. CASE MarkKnown(h) \/ MarkUnknown(h)
  <2>1. Request(h) \in Requests
    BY <1>0, <1>6 DEF MarkKnown, MarkUnknown
  <2>2. \/ \E k, n : MarkFailed(Request(h), k, n)
        \/ UNCHANGED rowVars
    BY <1>6 DEF MarkKnown, MarkUnknown, MarkLost
  <2> QED
    BY <1>6, <2>1, <2>2, BooksMark DEF MarkKnown, MarkUnknown
<1> QED
  <2>1. ASSUME NEW r \in Requests, NEW e \in Estimates, Arrive(h, r, e)
        PROVE  BooksInv'
    BY <1>1, <2>1 DEF Arrive
  <2>2. ASSUME NEW u \in Usages,
               \/ ProviderReports(h, u)
               \/ \E g \in Handlers : Cancel(h, g, u)
        PROVE  BooksInv'
    BY <1>1, <2>2 DEF ProviderReports, Cancel
  <2>3. CASE \/ BeginReplay(h) \/ BeginEligible(h) \/ BeginFails(h)
             \/ ProviderSilent(h)
    BY <1>1, <2>3 DEF BeginReplay, BeginEligible, BeginFails, ProviderSilent
  <2> QED
    BY <1>2, <1>3, <1>4, <1>5, <1>6, <2>1, <2>2, <2>3 DEF HandlerStep

\* Every settlement step keeps the books.
LEMMA SettlementBooks ==
  ASSUME TypeInv, BooksInv, NEW p \in Procs, SettleStep(p)
  PROVE  BooksInv'
<1> USE DEF subVars, allowanceVars, At
<1>1. CASE UNCHANGED <<allowanceVars, rowVars, ledger>>
  BY <1>1, BooksSame
<1>2. CASE SettleCommit(p)
  <2>1. Request(p) \in Requests /\ job[p].tokens \in Nat
    BY <1>2, JobTypes DEF SettleCommit
  <2> QED
    BY <1>2, <2>1, BooksSettle DEF SettleCommit
<1>3. CASE \/ SettleRead(p) \/ SettleGate(p) \/ SettleIdempotent(p)
           \/ SettleFails(p)
  BY <1>1, <1>3 DEF SettleRead, SettleGate, SettleIdempotent, SettleFails
<1> QED
  BY <1>2, <1>3 DEF SettleStep

\* Every other step of the worker keeps the books.
LEMMA WorkerBooks ==
  ASSUME TypeInv, BooksInv, NEW w \in Workers, WorkerStep(w)
  PROVE  BooksInv'
<1> USE DEF subVars, allowanceVars, At
<1>1. CASE UNCHANGED <<allowanceVars, rowVars, ledger>>
  BY <1>1, BooksSame
<1>2. CASE WorkerResolve(w)
  <2>1. Request(w) \in Requests /\ hold[Request(w)] \in Nat
    BY <1>2, JobTypes DEF WorkerResolve, Procs, TypeInv, TypeOK
  <2>2. CASE CanResolve(Request(w)) /\ ~ AlreadySettled(Request(w))
    BY <1>2, <2>1, <2>2, BooksSettle DEF WorkerResolve, CanResolve
  <2>3. CASE ~ (CanResolve(Request(w)) /\ ~ AlreadySettled(Request(w)))
    BY <1>1, <1>2, <2>3 DEF WorkerResolve
  <2> QED
    BY <2>2, <2>3
<1>3. CASE WorkerSelect(w) \/ WorkerReadKnown(w) \/ WorkerGate(w)
  BY <1>1, <1>3 DEF WorkerSelect, WorkerReadKnown, WorkerGate
<1> QED
  BY <1>2, <1>3 DEF WorkerStep

\* Every step keeps the books.
LEMMA BooksNext == TypeInv /\ GateInv /\ BooksInv /\ [Next]_vars => BooksInv'
<1> SUFFICES ASSUME TypeInv, GateInv, BooksInv, [Next]_vars PROVE BooksInv'
  OBVIOUS
<1> USE DEF subVars, allowanceVars
<1>1. ASSUME NEW h \in Handlers, HandlerStep(h) PROVE BooksInv'
  BY <1>1, HandlerBooks
<1>2. ASSUME NEW w \in Workers, WorkerStep(w) PROVE BooksInv'
  BY <1>2, WorkerBooks
<1>3. ASSUME NEW p \in Procs, SettleStep(p) PROVE BooksInv'
  BY <1>3, SettlementBooks
<1>4. CASE \/ \E p \in Procs : Crash(p)
           \/ \E n \in Bonuses : Grant(n)
           \/ ChangeCallable \/ Renew \/ UNCHANGED vars
  <2>1. UNCHANGED <<reserved, consumed, rowVars, ledger>>
    BY <1>4 DEF Crash, Grant, ChangeCallable, Renew, vars
  <2> QED
    BY <2>1, BooksSame
<1> QED
  BY <1>1, <1>2, <1>3, <1>4 DEF Next

\* The three layers together are an invariant.
LEMMA InvariantHolds == Spec => [](TypeInv /\ GateInv /\ BooksInv)
  BY TypeInit, TypeNext, GateInit, GateNext, BooksInit, BooksNext, PTL
  DEF Spec

\* Every reserved Token is held by exactly one unfinished request.
THEOREM ReservationsAlwaysAccounted == Spec => []ReservationsAccounted
<1>1. BooksInv => ReservationsAccounted
  BY DEF BooksInv
<1> QED
  BY InvariantHolds, <1>1, PTL

\* Every consumed Token was charged to exactly one settled request.
THEOREM ConsumptionAlwaysAccounted == Spec => []ConsumptionAccounted
<1>1. BooksInv => ConsumptionAccounted
  BY DEF BooksInv
<1> QED
  BY InvariantHolds, <1>1, PTL

\* The ledger has exactly the entries that the state of each row calls for.
THEOREM LedgerAlwaysTellsAll == Spec => []LedgerTellsAll
<1>1. BooksInv => LedgerTellsAll
  BY DEF BooksInv
<1> QED
  BY InvariantHolds, <1>1, PTL

\* The columns of the allowances, the rows of the requests and the ledger tell the
\* same story.
THEOREM BooksAlwaysBalance == Spec => []BooksBalance
<1>1. TypeOK /\ ReservationsAccounted /\ ConsumptionAccounted /\ LedgerTellsAll => BooksBalance
  BY DEF BooksBalance
<1> QED
  BY <1>1, TypeCorrect, ReservationsAlwaysAccounted, ConsumptionAlwaysAccounted,
     LedgerAlwaysTellsAll, PTL

\* An open row always finds its allowance able to settle it: no row is ever
\* stuck because of another one.
THEOREM OpenRowsCanAlwaysSettle == Spec => []OpenRowsCanSettle
<1>1. ASSUME TypeInv, GateInv, BooksInv, NEW r \in Requests,
             status[r] \in Unsettled
      PROVE  CanSettle(r)
  <2>1. bound[r] \in Periods /\ bound[r] # None
    BY <1>1, SetsAssumption DEF BooksInv, RowsBound, Periods
  <2>2. hold[r] <= reserved[bound[r]]
    <3>1. r \in HeldFrom(bound[r])
      BY <1>1 DEF HeldFrom
    <3>2. \A q \in HeldFrom(bound[r]) : hold[q] \in Nat
      BY <1>1 DEF HeldFrom, TypeInv, TypeOK
    <3>3. hold[r] <= Cardinality(TokenUnits(HeldFrom(bound[r]), hold))
      BY <3>1, <3>2, RowsFinite, UnitsRemove
    <3> QED
      BY <1>1, <2>1, <3>3 DEF BooksInv, ReservationsAccounted
  <2>3. Remaining(bound[r]) >= 0
    BY <1>1, <2>1 DEF Remaining, GateInv, NoOvercommit, TypeInv, TypeOK
  <2>4. ledger[r].capture = 0 /\ ledger[r].release = 0
    <3>1. ledger[r] = EntriesOf(r)
      BY <1>1 DEF BooksInv, LedgerTellsAll
    <3> QED
      BY <1>1, <3>1 DEF EntriesOf, Unsettled
  <2> QED
    BY <2>1, <2>2, <2>3, <2>4 DEF CanSettle, AllowanceOf
<1>2. TypeInv /\ GateInv /\ BooksInv => OpenRowsCanSettle
  BY <1>1 DEF OpenRowsCanSettle
<1> QED
  BY InvariantHolds, <1>2, PTL

\* The conservative capture of the worker is never refused: the allowance
\* always has what the request reserved.
THEOREM ReservationAlwaysCoversItself == Spec => []ReservationCoversItself
<1>1. ASSUME TypeInv, GateInv, OpenRowsCanSettle, NEW r \in Requests,
             status[r] \in Unsettled
      PROVE  ChargeFor(r, hold[r]) = hold[r]
  <2>1. CanSettle(r) /\ bound[r] \in Periods /\ hold[r] \in Nat
    BY <1>1 DEF OpenRowsCanSettle, CanSettle, AllowanceOf, TypeInv, TypeOK
  <2>2. /\ granted[bound[r]] \in Nat /\ reserved[bound[r]] \in Nat
        /\ consumed[bound[r]] \in Nat
        /\ reserved[bound[r]] + consumed[bound[r]] <= granted[bound[r]]
    BY <1>1, <2>1 DEF GateInv, NoOvercommit, TypeInv, TypeOK
  <2> QED
    BY <2>1, <2>2 DEF ChargeFor, AvailableTo, AllowanceOf, Min2, Max2
<1>2. TypeInv /\ GateInv /\ OpenRowsCanSettle => ReservationCoversItself
  BY <1>1 DEF ReservationCoversItself
<1> QED
  BY InvariantHolds, OpenRowsCanAlwaysSettle, <1>2, PTL

-----------------------------------------------------------------------------
(* What a step may never do.                                               *)

\* The part of a row, and its ledger entries, that settlement fixes.
RowKept(r) ==
  /\ status'[r] = status[r] /\ charged'[r] = charged[r]
  /\ usage'[r] = usage[r] /\ known'[r] = known[r]
  /\ ledger'[r] = ledger[r]

\* Every handler step keeps the rows that are settled or rejected.
LEMMA HandlerKeepsRows ==
  ASSUME TypeInv, GateInv, NEW h \in Handlers, HandlerStep(h),
         NEW r \in Requests, status[r] \in Terminal
  PROVE  RowKept(r)
<1> USE DEF rowVars, At
<1>1. CASE UNCHANGED <<rowVars, ledger>>
  BY <1>1 DEF RowKept
<1>2. CASE BeginReject(h) \/ BeginLimited(h) \/ BeginReserve(h)
  <2>1. status[Request(h)] = "absent" /\ Request(h) # r
    BY <1>2
    DEF BeginReject, BeginLimited, BeginReserve, GateInv, EligibleIsFresh,
        Terminal
  <2> QED
    BY <1>2, <2>1
    DEF BeginReject, BeginLimited, BeginReserve, RowKept, TypeInv, TypeOK
<1>3. CASE MarkStreaming(h)
  <2>1. Request(h) # r
    BY <1>3 DEF MarkStreaming, Terminal
  <2> QED
    BY <1>3, <2>1 DEF MarkStreaming, RowKept, TypeInv, TypeOK
<1>4. CASE MarkKnown(h) \/ MarkUnknown(h)
  <2>1. /\ UNCHANGED ledger
        /\ \/ \E k, n : MarkFailed(Request(h), k, n)
           \/ UNCHANGED rowVars
    BY <1>4 DEF MarkKnown, MarkUnknown, MarkLost
  <2>2. InFlight(Request(h)) => Request(h) # r
    BY DEF InFlight, Terminal
  <2> QED
    BY <2>1, <2>2 DEF MarkFailed, RowKept, TypeInv, TypeOK
<1> QED
  <2>1. ASSUME NEW q \in Requests, NEW e \in Estimates, Arrive(h, q, e)
        PROVE  RowKept(r)
    BY <1>1, <2>1 DEF Arrive
  <2>2. ASSUME NEW u \in Usages,
               \/ ProviderReports(h, u)
               \/ \E g \in Handlers : Cancel(h, g, u)
        PROVE  RowKept(r)
    BY <1>1, <2>2 DEF ProviderReports, Cancel
  <2>3. CASE \/ BeginReplay(h) \/ BeginEligible(h) \/ BeginFails(h)
             \/ ProviderSilent(h)
    BY <1>1, <2>3 DEF BeginReplay, BeginEligible, BeginFails, ProviderSilent
  <2> QED
    BY <1>2, <1>3, <1>4, <2>1, <2>2, <2>3 DEF HandlerStep

\* So does every settlement step.
LEMMA SettlementKeepsRows ==
  ASSUME TypeInv, NEW p \in Procs, SettleStep(p),
         NEW r \in Requests, status[r] \in Terminal
  PROVE  RowKept(r)
<1> USE DEF rowVars, At
<1>1. CASE UNCHANGED <<rowVars, ledger>>
  BY <1>1 DEF RowKept
<1>2. CASE SettleCommit(p)
  <2>1. Request(p) # r
    BY <1>2 DEF SettleCommit, AlreadySettled
  <2> QED
    BY <1>2, <2>1 DEF SettleCommit, Settle, RowKept, TypeInv, TypeOK
<1>3. CASE \/ SettleRead(p) \/ SettleGate(p) \/ SettleIdempotent(p)
           \/ SettleFails(p)
  BY <1>1, <1>3 DEF SettleRead, SettleGate, SettleIdempotent, SettleFails
<1> QED
  BY <1>2, <1>3 DEF SettleStep

\* And every other step of the worker.
LEMMA WorkerKeepsRows ==
  ASSUME TypeInv, NEW w \in Workers, WorkerStep(w),
         NEW r \in Requests, status[r] \in Terminal
  PROVE  RowKept(r)
<1> USE DEF rowVars, At
<1>1. CASE UNCHANGED <<rowVars, ledger>>
  BY <1>1 DEF RowKept
<1>2. CASE WorkerResolve(w)
  <2>1. CASE CanResolve(Request(w)) /\ ~ AlreadySettled(Request(w))
    <3>1. Request(w) # r
      BY <2>1 DEF AlreadySettled
    <3> QED
      BY <1>2, <2>1, <3>1 DEF WorkerResolve, Settle, RowKept, TypeInv, TypeOK
  <2>2. CASE ~ (CanResolve(Request(w)) /\ ~ AlreadySettled(Request(w)))
    BY <1>1, <1>2, <2>2 DEF WorkerResolve
  <2> QED
    BY <2>1, <2>2
<1>3. CASE WorkerSelect(w) \/ WorkerReadKnown(w) \/ WorkerGate(w)
  BY <1>1, <1>3 DEF WorkerSelect, WorkerReadKnown, WorkerGate
<1> QED
  BY <1>2, <1>3 DEF WorkerStep

\* A request is settled once: nothing that happens to it later, in whatever
\* order, changes its usage, its charge or its ledger.
THEOREM TerminalRowsAreFinal == Spec => TerminalIsFinal
<1>1. ASSUME TypeInv, GateInv, [Next]_vars,
             NEW r \in Requests, status[r] \in Terminal
      PROVE  RowKept(r)
  <2>1. ASSUME NEW h \in Handlers, HandlerStep(h) PROVE RowKept(r)
    BY <1>1, <2>1, HandlerKeepsRows
  <2>2. ASSUME NEW w \in Workers, WorkerStep(w) PROVE RowKept(r)
    BY <1>1, <2>2, WorkerKeepsRows
  <2>3. ASSUME NEW p \in Procs, SettleStep(p) PROVE RowKept(r)
    BY <1>1, <2>3, SettlementKeepsRows
  <2>4. CASE \/ \E p \in Procs : Crash(p)
             \/ \E n \in Bonuses : Grant(n)
             \/ ChangeCallable \/ Renew \/ UNCHANGED vars
    BY <2>4 DEF Crash, Grant, ChangeCallable, Renew, vars, rowVars, RowKept
  <2> QED
    BY <1>1, <2>1, <2>2, <2>3, <2>4 DEF Next
<1>2. TypeInv /\ GateInv /\ [Next]_vars =>
        \A r \in Requests : status[r] \in Terminal => RowKept(r)
  BY <1>1
<1> QED
  BY InvariantHolds, <1>2, PTL DEF Spec, TerminalIsFinal, RowKept

-----------------------------------------------------------------------------
(* Usage that was persisted.                                               *)

\* Where a handler may still change what is known about its request: its call
\* is under way, it has the usage of the call, or it knows that it has none.
Calling   == {"dispatch", "upstream"}
Reporting == {"aborted", "settle", "wait", "locked", "mark"}
Engaged   == Calling \cup Reporting \cup {"markUnknown"}

\* A handler engaged with a request has admitted it, and as long as the call is
\* under way the row is open.
EngagedIsAdmitted ==
  \A h \in Handlers :
    /\ pc[h] \in Engaged => status[Request(h)] # "absent"
    /\ pc[h] \in Calling => InFlight(Request(h))

\* The worker is only ever at rows that are no longer in flight.
WorkersComeLate ==
  \A w \in Workers :
    pc[w] # "idle" => /\ status[Request(w)] # "absent"
                      /\ ~ InFlight(Request(w))

\* While the call of a request is under way nobody else is engaged with it.
OneCaller ==
  \A h, g \in Handlers :
    h # g /\ Request(h) = Request(g) /\ pc[h] \in Calling => pc[g] \notin Engaged

\* The two callbacks of a stream report the same usage.
ReportsAgree ==
  \A h, g \in Handlers :
    Request(h) = Request(g) /\ pc[h] \in Reporting /\ pc[g] \in Reporting
      => job[h].tokens = job[g].tokens

\* Whoever is about to settle a row with known usage settles it with that.
Persisted(r) == status[r] = "settlement_failed" /\ known[r]

ReportsMatchRow ==
  \A p \in Procs :
    pc[p] \in Reporting /\ Persisted(Request(p))
      => usage[Request(p)] = job[p].tokens

UsageInv ==
  /\ EngagedIsAdmitted
  /\ WorkersComeLate
  /\ OneCaller
  /\ ReportsAgree
  /\ ReportsMatchRow

\* Nobody is engaged with anything at first.
LEMMA UsageInit == Init => UsageInv
  BY DEF Init, UsageInv, EngagedIsAdmitted, WorkersComeLate, OneCaller,
         ReportsAgree, ReportsMatchRow, Engaged, Calling, Reporting, Procs

\* A process that gets no closer to its request than it was: it ends, or it
\* goes on with the same request and the same Tokens.
Backs(p) ==
  \/ pc'[p] \notin Engaged /\ (p \in Workers => pc'[p] = "idle")
  \/ /\ job'[p].req = job[p].req /\ job'[p].tokens = job[p].tokens
     /\ pc[p] # "idle"
     /\ pc'[p] \in Engaged => pc[p] \in Engaged
     /\ pc'[p] \in Calling => pc[p] \in Calling
     /\ pc'[p] \in Reporting => pc[p] \in Reporting
  \/ job'[p] = job[p] /\ pc'[p] = pc[p]

\* A row that stays in flight, or stays as it is.
RowStays(r) ==
  /\ InFlight(r) => status'[r] \in {"reserved", "streaming"}
  /\ ~ InFlight(r) => status'[r] = status[r]
  /\ known'[r] = known[r] /\ usage'[r] = usage[r]

\* A row whose call is over, as those who are engaged with it understand it.
RowMovesOn(r) ==
  /\ status'[r] \notin {"absent", "reserved", "streaming"}
  /\ \A h \in Handlers :
       pc'[h] \in Calling => job'[h].req # r
  /\ status'[r] = "settlement_failed" /\ known'[r] =>
       \A p \in Procs : pc'[p] \in Reporting /\ job'[p].req = r
                          => usage'[r] = job'[p].tokens

\* Steps in which nobody comes closer to a request.
LEMMA UsageFrame ==
  ASSUME TypeInv, UsageInv,
         \A p \in Procs : Backs(p),
         \A r \in Requests : RowStays(r) \/ RowMovesOn(r)
  PROVE  UsageInv'
<1> USE DEF Request, Procs
<1>1. EngagedIsAdmitted'
  BY DEF EngagedIsAdmitted, UsageInv, Backs, RowStays, RowMovesOn, InFlight,
         TypeInv, RequestDefined, Engaged, Calling, Reporting
<1>2. WorkersComeLate'
  BY DEF WorkersComeLate, UsageInv, Backs, RowStays, RowMovesOn, InFlight,
         TypeInv, RequestDefined
<1>3. OneCaller'
  BY DEF OneCaller, UsageInv, Backs, Engaged, Calling
<1>4. ReportsAgree'
  BY DEF ReportsAgree, UsageInv, Backs, Engaged, Reporting
<1>5. ReportsMatchRow'
  BY DEF ReportsMatchRow, UsageInv, Backs, RowStays, RowMovesOn, InFlight,
         Persisted, TypeInv, RequestDefined, Engaged, Reporting
<1> QED
  BY <1>1, <1>2, <1>3, <1>4, <1>5 DEF UsageInv

\* A step of one process that comes no closer, and that writes no row.
LEMMA UsageQuiet ==
  ASSUME TypeInv, UsageInv, NEW p \in Procs,
         \A q \in Procs \ {p} : pc'[q] = pc[q] /\ job'[q] = job[q],
         Backs(p), UNCHANGED <<status, known, usage>>
  PROVE  UsageInv'
<1>1. \A q \in Procs : Backs(q)
  BY DEF Backs
<1>2. \A r \in Requests : RowStays(r)
  BY DEF RowStays, InFlight
<1> QED
  BY <1>1, <1>2, UsageFrame

\* What a process does to its own notes leaves those of the others alone.
LEMMA OneMoves ==
  ASSUME TypeInv, NEW p \in Procs
  PROVE  /\ Finish(p) => /\ \A q \in Procs \ {p} :
                              pc'[q] = pc[q] /\ job'[q] = job[q]
                         /\ Backs(p) /\ pc'[p] = "idle"
         /\ \A where : Goto(p, where) =>
              /\ pc'[p] = where
              /\ \A q \in Procs \ {p} : pc'[q] = pc[q]
  BY DEF TypeInv, TypeOK, Finish, Goto, Backs, Engaged, Calling, Reporting

\* A row is settled only when its call is over, and by somebody who has the
\* usage that was persisted.
LEMMA NobodyCalls ==
  ASSUME TypeInv, UsageInv, NEW p \in Procs, NEW r \in Requests,
         Request(p) = r, pc[p] # "idle",
         p \in Handlers => pc[p] \in Engaged \ Calling,
         NEW h \in Handlers, pc[h] \in Calling
  PROVE  Request(h) # r
<1> SUFFICES ASSUME Request(h) = r PROVE FALSE
  OBVIOUS
<1>1. InFlight(r)
  BY DEF UsageInv, EngagedIsAdmitted
<1>2. CASE p \in Workers
  BY <1>1, <1>2 DEF UsageInv, WorkersComeLate
<1>3. CASE p \in Handlers
  BY <1>3 DEF UsageInv, OneCaller
<1> QED
  BY <1>2, <1>3 DEF Procs

\* The steps of a preauthorization.
LEMMA BeginUsage ==
  ASSUME TypeInv, GateInv, UsageInv, NEW h \in Handlers,
         \/ \E r \in Requests, e \in Estimates : Arrive(h, r, e)
         \/ BeginReplay(h) \/ BeginReject(h) \/ BeginEligible(h)
         \/ BeginLimited(h) \/ BeginReserve(h) \/ BeginFails(h)
  PROVE  UsageInv'
<1> USE DEF rowVars, At
<1>0. /\ h \in Procs /\ h \notin Workers
      /\ pc[h] # "idle" => Request(h) \in Requests
  BY SetsAssumption, JobTypes DEF Procs
<1>1. ASSUME NEW r \in Requests, NEW e \in Estimates, Arrive(h, r, e)
      PROVE  UsageInv'
  <2>1. /\ \A q \in Procs \ {h} : pc'[q] = pc[q] /\ job'[q] = job[q]
        /\ pc'[h] = "gate"
    BY <1>0, <1>1 DEF Arrive, Goto, TypeInv, TypeOK
  <2>2. Backs(h)
    BY <1>0, <2>1 DEF Backs, Engaged, Calling, Reporting
  <2> QED
    BY <1>0, <1>1, <2>1, <2>2, UsageQuiet DEF Arrive
<1>2. CASE BeginReplay(h) \/ BeginFails(h)
  BY <1>0, <1>2, OneMoves, UsageQuiet DEF BeginReplay, BeginFails
<1>3. CASE BeginEligible(h)
  <2>1. /\ \A q \in Procs \ {h} : pc'[q] = pc[q] /\ job'[q] = job[q]
        /\ pc'[h] = "eligible"
    BY <1>0, <1>3 DEF BeginEligible, Goto, TypeInv, TypeOK
  <2>2. Backs(h)
    BY <1>0, <2>1 DEF Backs, Engaged, Calling, Reporting
  <2> QED
    BY <1>0, <1>3, <2>1, <2>2, UsageQuiet DEF BeginEligible
<1>4. CASE BeginReject(h) \/ BeginLimited(h)
  <2>1. Request(h) \in Requests /\ status[Request(h)] = "absent"
    BY <1>0, <1>4 DEF BeginReject, BeginLimited, GateInv, EligibleIsFresh
  <2>2. /\ status' = [status EXCEPT ![Request(h)] = "rejected"]
        /\ Finish(h) /\ UNCHANGED <<known, usage>>
    BY <1>4 DEF BeginReject, BeginLimited
  <2>3. \A q \in Procs : Backs(q)
    BY <1>0, <2>2, OneMoves DEF Backs
  <2>4. \A g \in Handlers : pc'[g] \in Calling => job'[g].req # Request(h)
    <3>1. \A g \in Handlers : pc[g] \in Calling => Request(g) # Request(h)
      BY <2>1 DEF UsageInv, EngagedIsAdmitted, Engaged
    <3>2. /\ \A q \in Procs \ {h} : pc'[q] = pc[q] /\ job'[q] = job[q]
          /\ pc'[h] = "idle"
      BY <1>0, <2>2, OneMoves
    <3> QED
      BY <3>1, <3>2 DEF Calling, Request, Procs
  <2>5. RowMovesOn(Request(h))
    BY <2>1, <2>2, <2>4 DEF RowMovesOn, Persisted, TypeInv, TypeOK
  <2>6. \A r \in Requests \ {Request(h)} : RowStays(r)
    BY <2>2 DEF RowStays, InFlight, TypeInv, TypeOK
  <2> QED
    BY <2>3, <2>5, <2>6, UsageFrame
<1>5. CASE BeginReserve(h)
  <2> DEFINE r == Request(h)
  <2>1. r \in Requests /\ status[r] = "absent"
    BY <1>0, <1>5 DEF BeginReserve, GateInv, EligibleIsFresh
  <2>2. /\ \A q \in Procs \ {h} : pc'[q] = pc[q] /\ job'[q] = job[q]
        /\ pc'[h] = "dispatch" /\ job'[h].req = r
        /\ UNCHANGED <<known, usage>>
        /\ \A q \in Requests \ {r} : status'[q] = status[q]
        /\ status'[r] = "reserved"
    BY <1>0, <1>5, <2>1 DEF BeginReserve, Goto, TypeInv, TypeOK, NoJob
  <2> HIDE DEF r
  <2>3. /\ \A g \in Handlers : pc[g] \in Engaged => Request(g) # r
        /\ \A w \in Workers : pc[w] # "idle" => Request(w) # r
    BY <2>1 DEF UsageInv, EngagedIsAdmitted, WorkersComeLate
  <2>4. EngagedIsAdmitted'
    BY <1>0, <2>1, <2>2, <2>3
    DEF UsageInv, EngagedIsAdmitted, InFlight, Engaged, Calling, Reporting,
        Procs, Request, TypeInv, RequestDefined
  <2>5. WorkersComeLate'
    BY <1>0, <2>2, <2>3
    DEF UsageInv, WorkersComeLate, InFlight, Procs, Request, TypeInv,
        RequestDefined
  <2>6. OneCaller'
    BY <1>0, <2>2, <2>3
    DEF UsageInv, OneCaller, Engaged, Calling, Procs, Request
  <2>7. ReportsAgree'
    BY <1>0, <2>2
    DEF UsageInv, ReportsAgree, Reporting, Procs, Request
  <2>8. ReportsMatchRow'
    BY <1>0, <2>2
    DEF UsageInv, ReportsMatchRow, Persisted, Reporting, Procs, Request,
        TypeInv, RequestDefined
  <2> QED
    BY <2>4, <2>5, <2>6, <2>7, <2>8 DEF UsageInv
<1> QED
  BY <1>1, <1>2, <1>3, <1>4, <1>5

\* The call of handler h is over, and whoever finalizes it, h itself or also the
\* cancel callback g, has the same usage; the row is left to them.
LEMMA CallEnds ==
  ASSUME TypeInv, UsageInv, UNCHANGED <<status, known, usage>>,
         NEW h \in Handlers, NEW g \in Handlers, pc[h] \in Calling,
         pc[g] = "idle" \/ g = h,
         \A p \in Procs \ {g, h} : pc'[p] = pc[p] /\ job'[p] = job[p],
         pc'[h] \notin Calling, pc'[g] \notin Calling,
         job'[h].req = job[h].req, job'[g].req = job[h].req,
         job'[h].tokens = job'[g].tokens
  PROVE  UsageInv'
<1> USE DEF Request, Procs
<1>1. /\ InFlight(job[h].req) /\ job[h].req \in Requests
      /\ \A x \in Handlers \ {h} : job[x].req = job[h].req => pc[x] \notin Engaged
  BY DEF UsageInv, EngagedIsAdmitted, OneCaller, TypeInv, RequestDefined, Calling
<1>2. g \notin Workers /\ h \notin Workers
  BY SetsAssumption
<1>3. EngagedIsAdmitted'
  BY <1>1 DEF UsageInv, EngagedIsAdmitted, InFlight
<1>4. WorkersComeLate'
  BY <1>2 DEF UsageInv, WorkersComeLate, InFlight
<1>5. OneCaller'
  BY <1>1 DEF UsageInv, OneCaller, Engaged
<1>6. ReportsAgree'
  BY <1>1 DEF UsageInv, ReportsAgree, Engaged
<1>7. ReportsMatchRow'
  BY <1>1 DEF UsageInv, ReportsMatchRow, Persisted, InFlight
<1> QED
  BY <1>3, <1>4, <1>5, <1>6, <1>7 DEF UsageInv

\* The provider's answer, and the client that does not wait for it.
LEMMA AnswerUsage ==
  ASSUME TypeInv, UsageInv, NEW h \in Handlers,
         \/ MarkStreaming(h) \/ ProviderSilent(h)
         \/ \E u \in Usages : ProviderReports(h, u)
         \/ \E g \in Handlers, u \in Usages : Cancel(h, g, u)
  PROVE  UsageInv'
<1> USE DEF rowVars, At
<1>0. /\ h \in Procs /\ h \notin Workers
      /\ pc[h] # "idle" => Request(h) \in Requests
      /\ job[h] \in Job
  BY SetsAssumption, JobTypes DEF Procs
<1>1. CASE MarkStreaming(h)
  <2>1. /\ \A q \in Procs \ {h} : pc'[q] = pc[q] /\ job'[q] = job[q]
        /\ pc[h] = "dispatch" /\ pc'[h] = "upstream" /\ job'[h] = job[h]
        /\ UNCHANGED <<known, usage>>
        /\ status[Request(h)] = "reserved"
        /\ status' = [status EXCEPT ![Request(h)] = "streaming"]
    BY <1>0, <1>1 DEF MarkStreaming, Goto, TypeInv, TypeOK
  <2>2. \A q \in Procs : Backs(q)
    BY <2>1 DEF Backs, Engaged, Calling, Reporting
  <2>3. \A r \in Requests : RowStays(r)
    BY <2>1 DEF RowStays, InFlight, TypeInv, TypeOK
  <2> QED
    BY <2>2, <2>3, UsageFrame
<1>2. CASE ProviderSilent(h)
  <2>1. /\ \A q \in Procs \ {h} : pc'[q] = pc[q] /\ job'[q] = job[q]
        /\ pc[h] \in Answerable /\ pc'[h] = "markUnknown" /\ job'[h] = job[h]
    BY <1>0, <1>2 DEF ProviderSilent, Goto, TypeInv, TypeOK
  <2>2. Backs(h)
    BY <2>1 DEF Backs, Answerable, Engaged, Calling, Reporting
  <2> QED
    BY <1>0, <1>2, <2>1, <2>2, UsageQuiet DEF ProviderSilent
<1>3. ASSUME NEW u \in Usages, ProviderReports(h, u) PROVE UsageInv'
  <2>1. /\ \A q \in Procs \ {h} : pc'[q] = pc[q] /\ job'[q] = job[q]
        /\ pc[h] \in Answerable /\ pc'[h] = "settle"
        /\ job'[h].req = job[h].req /\ job'[h].tokens = u
        /\ pc[h] = "aborted" => u = job[h].tokens
        /\ UNCHANGED <<status, known, usage>>
    <3>1. PICK next \in RetryOf(h) :
            job' = [job EXCEPT ![h].tokens = u, ![h].retry = next]
      BY <1>3 DEF ProviderReports
    <3> QED
      BY <1>0, <1>3, <3>1 DEF ProviderReports, Goto, Job, TypeInv, TypeOK
  <2>2. CASE pc[h] = "aborted"
    <3>1. Backs(h)
      BY <2>1, <2>2 DEF Backs, Engaged, Calling, Reporting
    <3> QED
      BY <1>0, <2>1, <3>1, UsageQuiet
  <2>3. CASE pc[h] # "aborted"
    <3>1. pc[h] \in Calling /\ pc'[h] \notin Calling
      BY <2>1, <2>3 DEF Answerable, Calling
    <3> QED
      BY <2>1, <3>1, CallEnds
  <2> QED
    BY <2>2, <2>3
<1>4. ASSUME NEW g \in Handlers, NEW u \in Usages, Cancel(h, g, u)
      PROVE  UsageInv'
  <2>1. g \in Procs /\ g # h
    BY <1>4 DEF Cancel, Procs
  <2>2. /\ \A q \in Procs \ {g, h} : pc'[q] = pc[q] /\ job'[q] = job[q]
        /\ pc[h] = "upstream" /\ pc[g] = "idle"
        /\ pc'[h] = "aborted" /\ pc'[g] \in {"markUnknown", "settle"}
        /\ job'[g] = [NoJob EXCEPT !.req = job[h].req, !.tokens = u]
        /\ job'[h] = [job[h] EXCEPT !.tokens = u]
        /\ UNCHANGED <<status, known, usage>>
    <3>1. /\ pc[h] = "upstream" /\ pc[g] = "idle"
          /\ \E where \in {"markUnknown", "settle"} :
               pc' = [pc EXCEPT ![h] = "aborted", ![g] = where]
          /\ UNCHANGED <<status, known, usage>>
      BY <1>4 DEF Cancel
    <3>2. job' = [job EXCEPT ![g] = [NoJob EXCEPT !.req = job[h].req, !.tokens = u],
                             ![h] = [job[h] EXCEPT !.tokens = u]]
      BY <1>0, <1>4, <2>1 DEF Cancel, TypeInv, TypeOK, Request
    <3> QED
      BY <1>0, <2>1, <3>1, <3>2 DEF TypeInv, TypeOK
  <2>3. /\ job'[g].req = job[h].req /\ job'[g].tokens = u
        /\ job'[h].req = job[h].req /\ job'[h].tokens = u
    BY <1>0, <2>2 DEF NoJob, Job
  <2>4. pc[h] \in Calling /\ pc'[h] \notin Calling /\ pc'[g] \notin Calling
    BY <2>2 DEF Calling
  <2> QED
    BY <2>2, <2>3, <2>4, CallEnds
<1> QED
  BY <1>1, <1>2, <1>3, <1>4

\* A handler at the end of its call, of which only its own row can change.
LEMMA OwnRow ==
  ASSUME TypeInv, UsageInv, NEW p \in Procs, NEW r \in Requests,
         Request(p) = r, pc[p] # "idle",
         p \in Handlers => pc[p] \in Engaged \ Calling,
         \A q \in Procs \ {p} : pc'[q] = pc[q] /\ job'[q] = job[q],
         Backs(p),
         \A q \in Requests \ {r} :
           /\ status'[q] = status[q] /\ known'[q] = known[q]
           /\ usage'[q] = usage[q],
         \/ status'[r] = "settled"
         \/ /\ status'[r] = "settlement_failed" /\ InFlight(r)
            /\ known'[r] => /\ pc[p] \in Reporting /\ usage'[r] = job[p].tokens
                            /\ pc'[p] = "idle" \/ job'[p].tokens = job[p].tokens
  PROVE  UsageInv'
<1>1. \A q \in Procs : Backs(q)
  BY DEF Backs
<1>2. \A q \in Requests \ {r} : RowStays(q)
  BY DEF RowStays, InFlight
<1>3. \A h \in Handlers : pc'[h] \in Calling => job'[h].req # r
  <2>1. \A h \in Handlers : pc[h] \in Calling => job[h].req # r
    BY NobodyCalls DEF Request
  <2>2. p \in Handlers => pc'[p] \notin Calling
    BY DEF Backs, Engaged
  <2> QED
    BY <2>1, <2>2 DEF Procs
<1>4. ASSUME status'[r] = "settlement_failed", known'[r],
             NEW q \in Procs, pc'[q] \in Reporting, job'[q].req = r
      PROVE  usage'[r] = job'[q].tokens
  <2>1. /\ pc[p] \in Reporting /\ usage'[r] = job[p].tokens /\ InFlight(r)
        /\ pc'[p] = "idle" \/ job'[p].tokens = job[p].tokens
    BY <1>4
  <2>2. CASE q = p
    BY <1>4, <2>1, <2>2 DEF Reporting
  <2>3. CASE q # p
    <3>1. pc[q] \in Reporting /\ job[q].req = r /\ job'[q].tokens = job[q].tokens
      BY <1>4, <2>3
    <3>2. q \notin Workers /\ p \notin Workers
      BY <2>1, <3>1 DEF UsageInv, WorkersComeLate, Request, Reporting
    <3> QED
      BY <2>1, <3>1, <3>2 DEF UsageInv, ReportsAgree, Request, Procs
  <2> QED
    BY <2>2, <2>3
<1>5. RowMovesOn(r)
  BY <1>3, <1>4 DEF RowMovesOn
<1> QED
  BY <1>1, <1>2, <1>5, UsageFrame

\* What the mark of a failed settlement writes.
LEMMA MarkWrites ==
  ASSUME TypeInv, NEW r \in Requests, NEW k \in BOOLEAN, NEW n \in Nat,
         MarkFailed(r, k, n) \/ UNCHANGED rowVars
  PROVE  /\ \A q \in Requests \ {r} :
              /\ status'[q] = status[q] /\ known'[q] = known[q]
              /\ usage'[q] = usage[q]
         /\ \/ UNCHANGED <<status, known, usage>>
            \/ /\ status'[r] = "settlement_failed" /\ InFlight(r)
               /\ known'[r] = k /\ usage'[r] = n
  BY DEF MarkFailed, rowVars, TypeInv, TypeOK

\* Marking a failed settlement.
LEMMA MarkUsage ==
  ASSUME TypeInv, UsageInv, NEW h \in Handlers, MarkKnown(h) \/ MarkUnknown(h)
  PROVE  UsageInv'
<1> USE DEF At
<1>0. /\ h \in Procs /\ h \notin Workers
      /\ pc[h] # "idle" => Request(h) \in Requests
      /\ job[h] \in Job /\ job[h].tokens \in Nat
      /\ Request(h) \in Requests => usage[Request(h)] \in Nat
  BY SetsAssumption, JobTypes DEF Procs, TypeInv, TypeOK
<1>1. PICK r : r = Request(h)
  OBVIOUS
<1>2. /\ r \in Requests /\ pc[h] # "idle" /\ pc[h] \in Engaged \ Calling
  BY <1>0, <1>1 DEF MarkKnown, MarkUnknown, Engaged, Reporting, Calling
<1>3. CASE MarkKnown(h)
  <2>1. /\ \A q \in Procs \ {h} : pc'[q] = pc[q] /\ job'[q] = job[q]
        /\ pc[h] = "mark" /\ pc'[h] \in {"idle", "settle", "markUnknown"}
        /\ \/ pc'[h] = "idle"
           \/ job'[h].req = job[h].req /\ job'[h].tokens = job[h].tokens
    <3>1. pc[h] = "mark" /\ job[h].retry \in Retries
      BY <1>0, <1>3 DEF MarkKnown, Job
    <3>2. CASE Finish(h)
      BY <1>0, <3>1, <3>2, OneMoves
    <3>3. ASSUME NEW where \in {"settle", "markUnknown"}, Goto(h, where),
                 job' = [job EXCEPT ![h].retry = "none"]
          PROVE  /\ \A q \in Procs \ {h} : pc'[q] = pc[q] /\ job'[q] = job[q]
                 /\ pc'[h] = where
                 /\ job'[h].req = job[h].req /\ job'[h].tokens = job[h].tokens
      BY <1>0, <3>3 DEF Goto, Job, TypeInv, TypeOK
    <3>4. \/ Finish(h)
          \/ \E where \in {"settle", "markUnknown"} :
               Goto(h, where) /\ job' = [job EXCEPT ![h].retry = "none"]
      BY <1>3, <3>1 DEF MarkKnown, Retries
    <3> QED
      BY <3>1, <3>2, <3>3, <3>4
  <2>2. Backs(h)
    BY <1>0, <2>1 DEF Backs, Engaged, Calling, Reporting
  <2>3. MarkFailed(r, TRUE, job[h].tokens) \/ UNCHANGED rowVars
    BY <1>1, <1>3 DEF MarkKnown, MarkLost
  <2>4. /\ \A q \in Requests \ {r} :
             /\ status'[q] = status[q] /\ known'[q] = known[q]
             /\ usage'[q] = usage[q]
        /\ \/ UNCHANGED <<status, known, usage>>
           \/ /\ status'[r] = "settlement_failed" /\ InFlight(r)
              /\ known'[r] = TRUE /\ usage'[r] = job[h].tokens
    BY <1>0, <1>2, <2>3, MarkWrites
  <2>5. CASE UNCHANGED <<status, known, usage>>
    BY <1>0, <2>1, <2>2, <2>5, UsageQuiet
  <2>6. CASE ~ UNCHANGED <<status, known, usage>>
    <3>1. pc[h] \in Reporting
      BY <2>1 DEF Reporting
    <3> QED
      BY <1>0, <1>1, <1>2, <2>1, <2>2, <2>4, <2>6, <3>1, OwnRow
  <2> QED
    BY <2>5, <2>6
<1>4. CASE MarkUnknown(h)
  <2>1. /\ \A q \in Procs \ {h} : pc'[q] = pc[q] /\ job'[q] = job[q]
        /\ pc'[h] = "idle" /\ Backs(h)
    BY <1>0, <1>4, OneMoves DEF MarkUnknown
  <2>2. MarkFailed(r, FALSE, usage[r]) \/ UNCHANGED rowVars
    BY <1>1, <1>4 DEF MarkUnknown, MarkLost
  <2>3. /\ \A q \in Requests \ {r} :
             /\ status'[q] = status[q] /\ known'[q] = known[q]
             /\ usage'[q] = usage[q]
        /\ \/ UNCHANGED <<status, known, usage>>
           \/ /\ status'[r] = "settlement_failed" /\ InFlight(r)
              /\ known'[r] = FALSE
    BY <1>0, <1>1, <1>2, <2>2, MarkWrites
  <2>4. CASE UNCHANGED <<status, known, usage>>
    BY <1>0, <2>1, <2>4, UsageQuiet
  <2>5. CASE ~ UNCHANGED <<status, known, usage>>
    BY <1>0, <1>1, <1>2, <2>1, <2>3, <2>5, OwnRow
  <2> QED
    BY <2>4, <2>5
<1> QED
  BY <1>3, <1>4

\* What a settlement writes into the rows.
LEMMA SettleWrites ==
  ASSUME TypeInv, NEW r \in Requests, NEW n \in Nat, Settle(r, n)
  PROVE  /\ status'[r] = "settled"
         /\ \A q \in Requests \ {r} : status'[q] = status[q]
  BY DEF Settle, TypeInv, TypeOK

\* Settlement, by a handler or by the worker.
LEMMA SettlementUsage ==
  ASSUME TypeInv, UsageInv, NEW p \in Procs, SettleStep(p)
  PROVE  UsageInv'
<1> USE DEF rowVars, At
<1>0. /\ pc[p] # "idle" => Request(p) \in Requests
      /\ job[p].tokens \in Nat
  BY JobTypes
<1>1. /\ pc[p] \in {"settle", "wait", "locked"}
      /\ \A q \in Procs \ {p} : pc'[q] = pc[q] /\ job'[q] = job[q]
      /\ \/ Finish(p)
         \/ /\ pc'[p] \in {"wait", "locked", "mark"} /\ job'[p] = job[p]
  BY DEF SettleStep, SettleRead, SettleGate, SettleIdempotent, SettleCommit,
         SettleFails, AfterFailure, Finish, Goto, TypeInv, TypeOK
<1>2. Backs(p)
  BY <1>1, OneMoves DEF Backs, Engaged, Calling, Reporting
<1>3. CASE SettleCommit(p)
  <2>1. PICK r : r = Request(p)
    OBVIOUS
  <2>2. r \in Requests /\ pc[p] \in Engaged \ Calling /\ pc[p] # "idle"
    BY <1>0, <1>1, <2>1 DEF Engaged, Reporting, Calling
  <2>3. /\ status'[r] = "settled"
        /\ \A q \in Requests \ {r} :
             /\ status'[q] = status[q] /\ known'[q] = known[q]
             /\ usage'[q] = usage[q]
    <3>1. /\ Settle(r, job[p].tokens)
          /\ known' = [known EXCEPT ![r] = TRUE]
          /\ usage' = [usage EXCEPT ![r] = job[p].tokens]
      BY <1>3, <2>1 DEF SettleCommit
    <3> QED
      BY <1>0, <2>2, <3>1, SettleWrites DEF TypeInv, TypeOK
  <2> QED
    BY <1>1, <1>2, <2>1, <2>2, <2>3, OwnRow
<1>4. CASE UNCHANGED <<status, known, usage>>
  BY <1>1, <1>2, <1>4, UsageQuiet
<1>5. CASE \/ SettleRead(p) \/ SettleGate(p) \/ SettleIdempotent(p)
           \/ SettleFails(p)
  BY <1>4, <1>5 DEF SettleRead, SettleGate, SettleIdempotent, SettleFails
<1> QED
  BY <1>3, <1>5 DEF SettleStep

\* Every other step of the worker.
LEMMA WorkerUsage ==
  ASSUME TypeInv, UsageInv, NEW w \in Workers, WorkerStep(w)
  PROVE  UsageInv'
<1> USE DEF rowVars, At
<1>0. /\ w \in Procs /\ w \notin Handlers
      /\ pc[w] # "idle" => Request(w) \in Requests
      /\ job[w] \in Job
  BY SetsAssumption, JobTypes DEF Procs
<1>1. CASE WorkerSelect(w)
  <2>1. PICK r \in Failed :
          /\ Goto(w, IF known[r] THEN "readKnown" ELSE "waitUnknown")
          /\ job' = [job EXCEPT ![w] = [NoJob EXCEPT !.req = r]]
    BY <1>1 DEF WorkerSelect
  <2>2. /\ \A q \in Procs \ {w} : pc'[q] = pc[q] /\ job'[q] = job[q]
        /\ pc'[w] \in {"readKnown", "waitUnknown"} /\ job'[w].req = r
        /\ UNCHANGED <<status, known, usage>>
    BY <1>0, <1>1, <2>1 DEF WorkerSelect, Goto, NoJob, TypeInv, TypeOK
  <2>3. status[r] = "settlement_failed"
    BY DEF Failed
  <2>4. /\ EngagedIsAdmitted' /\ OneCaller' /\ ReportsAgree'
    BY <1>0, <2>2
    DEF UsageInv, EngagedIsAdmitted, OneCaller, ReportsAgree, InFlight,
        Request, Procs
  <2>5. WorkersComeLate'
    BY <2>2, <2>3 DEF UsageInv, WorkersComeLate, InFlight, Request, Procs
  <2>6. ReportsMatchRow'
    BY <2>2 DEF UsageInv, ReportsMatchRow, Reporting, Persisted, Request
  <2> QED
    BY <2>4, <2>5, <2>6 DEF UsageInv
<1>2. CASE WorkerReadKnown(w)
  <2>1. CASE ~ (status[Request(w)] = "settlement_failed" /\ known[Request(w)])
    BY <1>0, <1>2, <2>1, OneMoves, UsageQuiet DEF WorkerReadKnown
  <2>2. CASE status[Request(w)] = "settlement_failed" /\ known[Request(w)]
    <3>1. /\ \A q \in Procs \ {w} : pc'[q] = pc[q] /\ job'[q] = job[q]
          /\ pc[w] # "idle"
          /\ job'[w].req = job[w].req /\ job'[w].tokens = usage[job[w].req]
          /\ UNCHANGED <<status, known, usage>>
      BY <1>0, <1>2, <2>2
      DEF WorkerReadKnown, Goto, Job, Request, TypeInv, TypeOK
    <3>2. /\ EngagedIsAdmitted' /\ OneCaller' /\ ReportsAgree'
      BY <1>0, <3>1
      DEF UsageInv, EngagedIsAdmitted, OneCaller, ReportsAgree, InFlight,
          Request, Procs
    <3>3. WorkersComeLate'
      BY <3>1 DEF UsageInv, WorkersComeLate, InFlight, Request, Procs
    <3>4. ReportsMatchRow'
      BY <3>1 DEF UsageInv, ReportsMatchRow, Persisted, Request
    <3> QED
      BY <3>2, <3>3, <3>4 DEF UsageInv
  <2> QED
    BY <2>1, <2>2
<1>3. CASE WorkerGate(w)
  <2>1. /\ \A q \in Procs \ {w} : pc'[q] = pc[q] /\ job'[q] = job[q]
        /\ pc[w] = "waitUnknown" /\ pc'[w] = "lockedUnknown"
        /\ job'[w] = job[w] /\ UNCHANGED <<status, known, usage>>
    BY <1>0, <1>3 DEF WorkerGate, Goto, TypeInv, TypeOK
  <2>2. Backs(w)
    BY <2>1 DEF Backs, Engaged, Calling, Reporting
  <2> QED
    BY <1>0, <2>1, <2>2, UsageQuiet
<1>4. CASE WorkerResolve(w)
  <2>1. /\ \A q \in Procs \ {w} : pc'[q] = pc[q] /\ job'[q] = job[q]
        /\ Backs(w) /\ pc[w] # "idle"
    BY <1>0, <1>4, OneMoves DEF WorkerResolve
  <2>2. CASE UNCHANGED <<status, known, usage>>
    BY <1>0, <2>1, <2>2, UsageQuiet
  <2>3. CASE CanResolve(Request(w)) /\ ~ AlreadySettled(Request(w))
    <3>1. PICK r : r = Request(w)
      OBVIOUS
    <3>2. r \in Requests /\ hold[r] \in Nat
      BY <1>0, <2>1, <3>1 DEF TypeInv, TypeOK
    <3>3. Settle(r, hold[r]) /\ UNCHANGED <<known, usage>>
      BY <1>4, <2>3, <3>1 DEF WorkerResolve
    <3>4. /\ status'[r] = "settled"
          /\ \A q \in Requests \ {r} : status'[q] = status[q]
      BY <3>2, <3>3, SettleWrites
    <3> QED
      BY <1>0, <2>1, <3>1, <3>2, <3>3, <3>4, OwnRow
  <2> QED
    BY <1>4, <2>2, <2>3 DEF WorkerResolve
<1> QED
  BY <1>1, <1>2, <1>3, <1>4 DEF WorkerStep

\* Every step keeps the invariant.
LEMMA UsageNext == TypeInv /\ GateInv /\ UsageInv /\ [Next]_vars => UsageInv'
<1> SUFFICES ASSUME TypeInv, GateInv, UsageInv, [Next]_vars PROVE UsageInv'
  OBVIOUS
<1>1. ASSUME NEW h \in Handlers, HandlerStep(h) PROVE UsageInv'
  BY <1>1, BeginUsage, AnswerUsage, MarkUsage DEF HandlerStep
<1>2. ASSUME NEW w \in Workers, WorkerStep(w) PROVE UsageInv'
  BY <1>2, WorkerUsage
<1>3. ASSUME NEW p \in Procs, SettleStep(p) PROVE UsageInv'
  BY <1>3, SettlementUsage
<1>4. ASSUME NEW p \in Procs, Crash(p) PROVE UsageInv'
  BY <1>4, OneMoves, UsageQuiet DEF Crash, rowVars
<1>5. CASE \/ \E n \in Bonuses : Grant(n)
           \/ ChangeCallable \/ Renew \/ UNCHANGED vars
  <2>1. UNCHANGED <<pc, job, status, known, usage>>
    BY <1>5 DEF Grant, ChangeCallable, Renew, rowVars, vars
  <2>2. \A p \in Procs : Backs(p)
    BY <2>1 DEF Backs
  <2>3. \A r \in Requests : RowStays(r)
    BY <2>1 DEF RowStays, InFlight
  <2> QED
    BY <2>2, <2>3, UsageFrame
<1> QED
  BY <1>1, <1>2, <1>3, <1>4, <1>5 DEF Next

\* A row with persisted usage keeps it in every step.
LEMMA UsageKept ==
  ASSUME TypeInv, GateInv, UsageInv, [Next]_vars, NEW r \in Requests,
         status[r] = "settlement_failed", known[r]
  PROVE  known'[r] /\ usage'[r] = usage[r]
<1> USE DEF rowVars, At
<1>1. CASE UNCHANGED <<known, usage>>
  BY <1>1
<1>2. ASSUME NEW h \in Handlers, MarkKnown(h) \/ MarkUnknown(h)
      PROVE  known'[r] /\ usage'[r] = usage[r]
  <2>1. \/ UNCHANGED rowVars
        \/ \E k, n : MarkFailed(Request(h), k, n)
    BY <1>2 DEF MarkKnown, MarkUnknown, MarkLost
  <2>2. InFlight(Request(h)) => Request(h) # r
    BY DEF InFlight
  <2> QED
    BY <2>1, <2>2 DEF MarkFailed, TypeInv, TypeOK
<1>3. ASSUME NEW p \in Procs, SettleCommit(p)
      PROVE  known'[r] /\ usage'[r] = usage[r]
  <2>1. Request(p) = r => usage[r] = job[p].tokens
    BY <1>3
    DEF SettleCommit, UsageInv, ReportsMatchRow, Persisted, Reporting
  <2> QED
    BY <1>3, <2>1 DEF SettleCommit, TypeInv, TypeOK
<1>4. ASSUME NEW w \in Workers, WorkerResolve(w)
      PROVE  known'[r] /\ usage'[r] = usage[r]
  BY <1>1, <1>4 DEF WorkerResolve
<1> QED
  <2>1. ASSUME NEW h \in Handlers, HandlerStep(h)
        PROVE  known'[r] /\ usage'[r] = usage[r]
    <3>1. CASE MarkKnown(h) \/ MarkUnknown(h)
      BY <1>2, <3>1
    <3>2. CASE ~ (MarkKnown(h) \/ MarkUnknown(h))
      <4>1. UNCHANGED <<known, usage>>
        BY <2>1, <3>2
        DEF HandlerStep, Arrive, BeginReplay, BeginReject, BeginEligible,
            BeginLimited, BeginReserve, BeginFails, MarkStreaming,
            ProviderReports, ProviderSilent, Cancel
      <4> QED
        BY <1>1, <4>1
    <3> QED
      BY <3>1, <3>2
  <2>2. ASSUME NEW w \in Workers, WorkerStep(w)
        PROVE  known'[r] /\ usage'[r] = usage[r]
    BY <1>1, <1>4, <2>2
    DEF WorkerStep, WorkerSelect, WorkerReadKnown, WorkerGate
  <2>3. ASSUME NEW p \in Procs, SettleStep(p)
        PROVE  known'[r] /\ usage'[r] = usage[r]
    BY <1>1, <1>3, <2>3
    DEF SettleStep, SettleRead, SettleGate, SettleIdempotent, SettleFails
  <2>4. CASE \/ \E p \in Procs : Crash(p)
             \/ \E n \in Bonuses : Grant(n)
             \/ ChangeCallable \/ Renew \/ UNCHANGED vars
    BY <1>1, <2>4 DEF Crash, Grant, ChangeCallable, Renew, vars
  <2> QED
    BY <2>1, <2>2, <2>3, <2>4 DEF Next

\* Usage that was persisted for recovery is the usage that is charged: the other
\* callback of a stream, a repeated settlement or the worker reports the same,
\* and what is marked later is not written.
THEOREM PersistedUsageAlwaysSurvives == Spec => PersistedUsageSurvives
<1>1. TypeInv /\ GateInv /\ UsageInv /\ [Next]_vars =>
        \A r \in Requests : status[r] = "settlement_failed" /\ known[r] =>
          known'[r] /\ usage'[r] = usage[r]
  BY UsageKept
<1>2. Spec => [](TypeInv /\ GateInv /\ UsageInv)
  BY InvariantHolds, UsageInit, UsageNext, PTL DEF Spec
<1> QED
  BY <1>1, <1>2, PTL DEF Spec, PersistedUsageSurvives

=============================================================================
