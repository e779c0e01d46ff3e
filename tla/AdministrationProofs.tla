------------------------ MODULE AdministrationProofs ------------------------
(***************************************************************************)
(* What administrators and Dream do to shared resources: the accounts of   *)
(* the model providers, for any requests, providers, attempts and grants,  *)
(* and the plugins, for any commits, versions, requests, operations and    *)
(* decks.                                                                  *)
(*                                                                         *)
(* The invariant of the credentials adds, to what the rows say, what a     *)
(* request remembers between its transactions (ProcsKnow, RenewalsAre,     *)
(* PollsAre), that a grant is at one place (GrantsAre), and that a key of  *)
(* the outbox names a revision that is over (KeysAre), which is why a new  *)
(* job never meets an old one.  That no grant is forgotten needs, besides, *)
(* a provider that refuses a rotated refresh token (RotationSpends): a     *)
(* request that is late cannot then obtain a second successor.             *)
(***************************************************************************)
EXTENDS ProviderCredentials, ClaudePlugins, FiniteSetTheorems, TLAPS


\* Where a request is, and what it remembers there.
ProcStates ==
  {Idle}
  \cup [pc : {"work"}, job : Keys, jrev : Nat \cup {None}]
  \cup [pc : {"revoke"}, job : Keys, jrev : Nat, grant : Grants]
  \cup [pc : {"renew", "refresh"}, cred : Creds, revision : Nat \ {0}, epoch : Nat,
        grant : Grants]
  \cup [pc : {"answered", "reject"}, cred : Creds, revision : Nat \ {0}, epoch : Nat,
        grant : Grants, result : {"ready", "rejected", "reauthorize", "failed"},
        new : Grants \cup {None}]
  \cup [pc : {"mark"}, cred : Creds, revision : Nat \ {0}, epoch : Nat, job : Keys]
  \cup [pc : {"start"}, at : Attempts]
  \cup [pc : {"poll"}, at : Attempts, revision : Nat \ {0}]
  \cup [pc : {"polled"}, at : Attempts, result : {"connected", "rejected", "pending", "over"},
        revision : Nat \ {0}, new : Grants \cup {None}]
  \cup [pc : {"fail"}, at : Attempts, job : Keys, revision : Nat \ {0}]

Renewing(x) == proc[x].pc \in {"renew", "refresh", "answered", "reject"}
\* A request that carries a grant: of a renewal, of a poll.
Got(x)      == proc[x].pc \in {"answered", "reject"} /\ proc[x].new # None
Granted(x)  == proc[x].pc = "polled" /\ proc[x].new # None
OnRow(x)    == Renewing(x) \/ proc[x].pc = "mark"
OnAttempt(x) == proc[x].pc \in {"start", "poll", "polled", "fail"}

\* What a request remembers is there.
Knows(x) ==
  /\ proc[x].pc \in {"work", "revoke", "mark", "fail"} => proc[x].job \in DOMAIN jobs
  /\ proc[x].pc = "revoke" => proc[x].grant = jobs[proc[x].job].grant
  /\ OnAttempt(x) => attempt[proc[x].at].status # "none"
  /\ proc[x].pc = "answered" => /\ proc[x].result \in {"reauthorize", "failed"} => proc[x].new = None
                                /\ proc[x].result = "rejected" => proc[x].new # None
  /\ proc[x].pc = "reject" => proc[x].new # None
  /\ proc[x].pc = "polled" => (proc[x].new # None <=> proc[x].result \in {"connected", "rejected"})
ProcsKnow == \A x \in Procs : Knows(x)

AttemptsAre ==
  \A a \in Attempts :
    /\ attempt[a].status # "none" => attempt[a].provider \in Providers
    /\ attempt[a].lease # None => attempt[a].status = "pending"
    /\ Active(a) => attempt[a].revision # 0
    /\ attempt[a].status # "ended" => credential[a] = NoCredential

RowsAre ==
  \A c \in Creds :
    /\ (Live(c) <=> credential[c].grant # None)
    /\ Live(c) => credential[c].provider \in Providers /\ credential[c].revision # 0
    /\ credential[c].lease # None => credential[c].status = "connected"

\* A row that is being renewed is the one of its provider, and its revision names the
\* grant the provider is asked with.
RenewalsAre ==
  \A x \in Procs :
    /\ OnRow(x) =>
         /\ credential[proc[x].cred].provider \in Providers
         /\ Live(proc[x].cred) =>
              provider[credential[proc[x].cred].provider].credential = proc[x].cred
    /\ Renewing(x) =>
         /\ proc[x].revision <= credential[proc[x].cred].revision
         /\ proc[x].revision = credential[proc[x].cred].revision =>
              proc[x].grant = credential[proc[x].cred].grant
         /\ grant[proc[x].grant].state # "none"
         /\ \A y \in Procs :
              Renewing(y) /\ proc[y].cred = proc[x].cred /\ proc[y].revision = proc[x].revision
                => proc[y].grant = proc[x].grant
    /\ Got(x) => /\ grant[proc[x].grant].state # "live"
                 /\ grant[proc[x].new].of = grant[proc[x].grant].of

\* A grant is at one place: a row, a request, or the outbox.
GrantsAre ==
  /\ \A g \in Grants : grant[g].state = "none" => grant[g].of = None
  /\ \A c \in Creds : Live(c) => grant[credential[c].grant].state \in {"live", "spent"}
  /\ \A c, d \in Creds : Live(c) /\ credential[d].grant = credential[c].grant => c = d
  /\ \A x \in Procs : \A g \in Held(x) :
       /\ grant[g].state \in {"live", "spent"}
       /\ \A c \in Creds : credential[c].grant # g
       /\ \A k \in DOMAIN jobs : jobs[k].grant # g
       /\ \A y \in Procs : g \in Held(y) => y = x
  /\ \A k \in DOMAIN jobs :
       /\ grant[jobs[k].grant].state # "none"
       /\ \A c \in Creds : credential[c].grant # jobs[k].grant

\* An attempt is granted once.
PollsAre ==
  \A x \in Procs : Granted(x) =>
    /\ grant[proc[x].new].of = proc[x].at
    /\ \A y \in Procs : Granted(y) /\ proc[y].at = proc[x].at => y = x

\* What a key of the outbox says of its source: the revision it names is over.
KeyTells(k) ==
  /\ (k.source[1] = "attempt" <=> k.reason = "activation_rejected")
  /\ k.reason \in {"disconnect", "replacement"} =>
       k.revision < credential[k.source[2]].revision
  /\ k.reason = "disconnect" =>
       /\ credential[k.source[2]].status = "disconnected"
       /\ credential[k.source[2]].revision = k.revision + 1
  /\ k.reason = "renewal_rejected" => k.revision <= credential[k.source[2]].revision
  /\ k.reason = "activation_rejected" =>
       /\ \E h \in Grants : grant[h].of = k.source[2]
       /\ \A x \in Procs : Granted(x) => proc[x].at # k.source[2]
KeysAre == \A k \in DOMAIN jobs : KeyTells(k)

\* A refresh token that is spent once it was rotated is rotated once.
RejectionTells(k) ==
  k.reason = "renewal_rejected" =>
    /\ credential[k.source[2]].revision = k.revision /\ credential[k.source[2]].grant # None
         => grant[credential[k.source[2]].grant].state # "live"
    /\ \A y \in Procs :
         Renewing(y) /\ proc[y].cred = k.source[2] /\ proc[y].revision = k.revision
           => ~ Got(y) /\ grant[proc[y].grant].state # "live"
OnceSpent ==
  /\ \A x, y \in Procs :
       Got(x) /\ Got(y) /\ proc[x].cred = proc[y].cred /\ proc[x].revision = proc[y].revision
         => x = y
  /\ \A k \in DOMAIN jobs : RejectionTells(k)

CredInv ==
  /\ TypeOK /\ proc \in [Procs -> ProcStates]
  /\ ProcsKnow /\ AttemptsAre /\ RowsAre /\ RenewalsAre /\ GrantsAre /\ PollsAre /\ KeysAre
  /\ PointerNamesTheAccount /\ RevocationIsReportedTruly
  /\ RotationSpends => OnceSpent /\ NoGrantIsForgotten

-----------------------------------------------------------------------------
(* The types. *)

ProviderRow == [status : {"active", "deleted"}, epoch : Nat \ {0}, credential : Creds \cup {None}]
CredentialRow ==
  [status : {"none", "connected", "reauth_required", "disconnected"},
   provider : Providers \cup {None}, account : Accounts \cup {None},
   epoch : Nat, revision : Nat, grant : Grants \cup {None},
   lease : Procs \cup {None}, late : BOOLEAN,
   revocation : {None, "not_attempted", "succeeded", "unsupported", "failed"}]
AttemptRow ==
  [status : {"none", "starting", "pending", "ended"},
   provider : Providers \cup {None}, target : Creds \cup {None},
   epoch : Nat, tEpoch : Nat, tRevision : Nat, revision : Nat,
   lease : Procs \cup {None}, late : BOOLEAN]
JobRow ==
  [grant : Grants, provider : Providers, account : Creds \cup {None}, status : Statuses,
   revision : Nat \ {0}, lease : Procs \cup {None}, late : BOOLEAN]
GrantRow ==
  [state : {"none", "live", "spent", "revoked"}, account : Accounts \cup {None},
   of : Attempts \cup {0, None}]

LEMMA TypesAre ==
  TypeOK <=> /\ provider \in [Providers -> ProviderRow]
             /\ credential \in [Creds -> CredentialRow]
             /\ attempt \in [Attempts -> AttemptRow]
             /\ DOMAIN jobs \subseteq Keys
             /\ \A k \in DOMAIN jobs : jobs[k] \in JobRow
             /\ grant \in [Grants -> GrantRow]
             /\ lost \subseteq Grants
BY DEF TypeOK, ProviderRow, CredentialRow, AttemptRow, JobRow, GrantRow

LEMMA Constants ==
  /\ 0 \in Creds /\ Attempts \subseteq Creds /\ Creds \subseteq Nat /\ Attempts \subseteq Nat \ {0}
  /\ Grants \subseteq Nat /\ 1 \in Grants
  /\ None \notin Nat /\ None \notin Creds /\ None \notin Attempts /\ None \notin Grants
  /\ None \notin Procs /\ None \notin Providers
  /\ Outcomes \subseteq {"succeeded", "unsupported", "failed"}
<1>1. MaxAttempts \in Nat /\ MaxGrants \in Nat /\ MaxGrants > 0
  BY CredentialsAssumption
<1>2. /\ None \notin Nat /\ None \notin Procs /\ None \notin Providers
      /\ Outcomes \subseteq {"succeeded", "unsupported", "failed"}
  BY CredentialsAssumption
<1> QED
  BY <1>1, <1>2 DEF Creds, Attempts, Grants

\* The fields a request has, by where it is.
LEMMA StateIs ==
  ASSUME NEW r \in ProcStates
  PROVE  /\ r.pc = "work" => r.job \in Keys /\ r.jrev \in Nat \cup {None}
         /\ r.pc = "revoke" => r.job \in Keys /\ r.jrev \in Nat /\ r.grant \in Grants
         /\ r.pc \in {"renew", "refresh", "answered", "reject"} =>
              /\ r.cred \in Creds /\ r.revision \in Nat \ {0} /\ r.epoch \in Nat
              /\ r.grant \in Grants
         /\ r.pc \in {"answered", "reject"} =>
              /\ r.result \in {"ready", "rejected", "reauthorize", "failed"}
              /\ r.new \in Grants \cup {None}
         /\ r.pc = "mark" => /\ r.cred \in Creds /\ r.revision \in Nat \ {0} /\ r.epoch \in Nat
                             /\ r.job \in Keys
         /\ r.pc \in {"start", "poll", "polled", "fail"} => r.at \in Attempts
         /\ r.pc \in {"poll", "polled", "fail"} => r.revision \in Nat \ {0}
         /\ r.pc = "polled" => /\ r.result \in {"connected", "rejected", "pending", "over"}
                               /\ r.new \in Grants \cup {None}
         /\ r.pc = "fail" => r.job \in Keys
<1>1. CASE r = Idle
  BY <1>1 DEF Idle
<1>2. CASE r \in [pc : {"work"}, job : Keys, jrev : Nat \cup {None}]
  BY <1>2
<1>3. CASE r \in [pc : {"revoke"}, job : Keys, jrev : Nat, grant : Grants]
  BY <1>3
<1>4. CASE r \in [pc : {"renew", "refresh"}, cred : Creds, revision : Nat \ {0}, epoch : Nat,
                  grant : Grants]
  BY <1>4
<1>5. CASE r \in [pc : {"answered", "reject"}, cred : Creds, revision : Nat \ {0}, epoch : Nat,
                  grant : Grants, result : {"ready", "rejected", "reauthorize", "failed"},
                  new : Grants \cup {None}]
  BY <1>5
<1>6. CASE r \in [pc : {"mark"}, cred : Creds, revision : Nat \ {0}, epoch : Nat, job : Keys]
  BY <1>6
<1>7. CASE r \in [pc : {"start"}, at : Attempts]
  BY <1>7
<1>8. CASE r \in [pc : {"poll"}, at : Attempts, revision : Nat \ {0}]
  BY <1>8
<1>9. CASE r \in [pc : {"polled"}, at : Attempts,
                  result : {"connected", "rejected", "pending", "over"},
                  revision : Nat \ {0}, new : Grants \cup {None}]
  BY <1>9
<1>10. CASE r \in [pc : {"fail"}, at : Attempts, job : Keys, revision : Nat \ {0}]
  BY <1>10
<1> QED
  BY <1>1, <1>2, <1>3, <1>4, <1>5, <1>6, <1>7, <1>8, <1>9, <1>10 DEF ProcStates

\* The records that are written.
LEMMA StatesMade ==
  /\ Idle \in ProcStates
  /\ \A k \in Keys : \A j \in Nat \cup {None} :
       [pc |-> "work", job |-> k, jrev |-> j] \in ProcStates
  /\ \A k \in Keys : \A j \in Nat : \A g \in Grants :
       [pc |-> "revoke", job |-> k, jrev |-> j, grant |-> g] \in ProcStates
  /\ \A pc \in {"renew", "refresh"} : \A c \in Creds : \A r \in Nat \ {0} : \A e \in Nat :
       \A g \in Grants :
         [pc |-> pc, cred |-> c, revision |-> r, epoch |-> e, grant |-> g] \in ProcStates
  /\ \A pc \in {"answered", "reject"} : \A c \in Creds : \A r \in Nat \ {0} : \A e \in Nat :
       \A g \in Grants : \A result \in {"ready", "rejected", "reauthorize", "failed"} :
       \A new \in Grants \cup {None} :
         [pc |-> pc, cred |-> c, revision |-> r, epoch |-> e, grant |-> g,
          result |-> result, new |-> new] \in ProcStates
  /\ \A c \in Creds : \A r \in Nat \ {0} : \A e \in Nat : \A k \in Keys :
       [pc |-> "mark", cred |-> c, revision |-> r, epoch |-> e, job |-> k] \in ProcStates
  /\ \A a \in Attempts : [pc |-> "start", at |-> a] \in ProcStates
  /\ \A a \in Attempts : \A r \in Nat \ {0} :
       [pc |-> "poll", at |-> a, revision |-> r] \in ProcStates
  /\ \A a \in Attempts : \A r \in Nat \ {0} : \A new \in Grants \cup {None} :
       \A result \in {"connected", "rejected", "pending", "over"} :
         [pc |-> "polled", at |-> a, result |-> result, revision |-> r, new |-> new] \in ProcStates
  /\ \A a \in Attempts : \A r \in Nat \ {0} : \A k \in Keys :
       [pc |-> "fail", at |-> a, job |-> k, revision |-> r] \in ProcStates
BY DEF ProcStates

LEMMA HeldIs ==
  ASSUME CredInv, NEW x \in Procs
  PROVE  Held(x) = IF Got(x) \/ Granted(x) THEN {proc[x].new} ELSE {}
BY DEF Held, Got, Granted

\* One request moves.
LEMMA OneMoves ==
  ASSUME CredInv, NEW x \in Procs, NEW r, proc' = [proc EXCEPT ![x] = r]
  PROVE  /\ proc'[x] = r /\ \A z \in Procs : z # x => proc'[z] = proc[z]
         /\ r \in ProcStates => proc' \in [Procs -> ProcStates]
BY DEF CredInv

-----------------------------------------------------------------------------
(* What a step leaves as it is, and what it keeps by that. *)

RenewalsCarryOn ==
  \A x \in Procs :
    /\ OnRow(x)' => OnRow(x) /\ proc'[x].cred = proc[x].cred
    /\ Renewing(x)' => /\ Renewing(x) /\ proc'[x].cred = proc[x].cred
                       /\ proc'[x].revision = proc[x].revision /\ proc'[x].grant = proc[x].grant
    /\ Got(x)' => Got(x) /\ proc'[x].new = proc[x].new
PollsCarryOn ==
  \A x \in Procs :
    Granted(x)' => Granted(x) /\ proc'[x].new = proc[x].new /\ proc'[x].at = proc[x].at

RowsStand ==
  \A c \in Creds :
    /\ credential'[c].provider = credential[c].provider
    /\ credential'[c].account = credential[c].account
    /\ credential'[c].revision = credential[c].revision
    /\ credential'[c].grant = credential[c].grant
    /\ Live(c)' <=> Live(c)
    /\ credential[c].status = "disconnected" => credential'[c].status = "disconnected"
    /\ credential[c] = NoCredential => credential'[c] = NoCredential
    /\ credential'[c].lease # None => credential'[c].status = "connected"

PointersStand ==
  \A p \in Providers :
    /\ provider'[p].credential = provider[p].credential
    /\ provider'[p].status = "deleted" =>
         provider[p].status = "deleted" \/ \A c \in Creds : ~ (Live(c) /\ credential[c].provider = p)

AttemptsStand ==
  \A a \in Attempts :
    /\ attempt[a].status = "ended" => attempt'[a] = attempt[a]
    /\ attempt[a].status # "none" => attempt'[a].status # "none"
    /\ attempt'[a].status # "none" => attempt'[a].provider \in Providers
    /\ attempt'[a].lease # None => attempt'[a].status = "pending"
    /\ attempt'[a].status \in {"starting", "pending"} => attempt'[a].revision # 0

JobsStand ==
  /\ DOMAIN jobs' = DOMAIN jobs
  /\ \A k \in DOMAIN jobs : jobs'[k].grant = jobs[k].grant

\* A grant that is given up may be revoked.
GrantsStand ==
  \A g \in Grants :
    /\ grant'[g].of = grant[g].of
    /\ grant'[g].state # grant[g].state =>
         /\ grant[g].state # "none" /\ grant'[g].state = "revoked"
         /\ \A c \in Creds : credential[c].grant # g
         /\ \A x \in Procs : ~ (Got(x)' /\ proc'[x].new = g) /\ ~ (Granted(x)' /\ proc'[x].new = g)

\* A live grant keeps its place.
PlacesStand ==
  \A g \in Grants :
    grant'[g].state = "live" =>
      /\ \A x \in Procs : g \in Held(x) => g \in Held(x)' \/ g \in lost'
      /\ \A k \in DOMAIN jobs :
           jobs[k].grant = g /\ jobs[k].status # "succeeded" => jobs'[k].status # "succeeded"
      /\ g \in lost => g \in lost'

\* What the property of the action says of one step.
Fenced ==
  /\ \A c \in Creds : Live(c) /\ credential'[c].epoch = credential[c].epoch =>
       Login(c)' = Login(c)
  /\ \A c \in Creds : credential[c].status = "disconnected" =>
       credential'[c].status = "disconnected" /\ credential'[c].grant = None
  /\ \A a \in Attempts : attempt[a].status = "ended" => attempt'[a] = attempt[a]

LEMMA HoldingIs ==
  ASSUME TypeOK, proc \in [Procs -> ProcStates], NEW x \in Procs
  PROVE  /\ Got(x) \/ Granted(x) => Held(x) = {proc[x].new} /\ proc[x].new \in Grants
         /\ ~ Got(x) /\ ~ Granted(x) => Held(x) = {}
<1>1. proc[x] \in ProcStates
  OBVIOUS
<1> QED
  BY <1>1, StateIs DEF Held, Got, Granted

LEMMA KeyIs ==
  ASSUME NEW k \in Keys
  PROVE  /\ k.source[2] \in Creds /\ k.source[1] \in {"credential", "attempt"}
         /\ k.source[1] = "attempt" => k.source[2] \in Attempts
         /\ k.revision \in Nat \ {0}
         /\ k.reason \in {"disconnect", "replacement", "activation_rejected", "renewal_rejected"}
<1>1. /\ k.source \in ({"credential"} \X Creds) \cup ({"attempt"} \X Attempts)
      /\ k.revision \in Nat \ {0}
      /\ k.reason \in {"disconnect", "replacement", "activation_rejected", "renewal_rejected"}
  BY DEF Keys
<1> QED
  BY <1>1, Constants

LEMMA KeysDiffer ==
  ASSUME NEW k \in Keys, NEW q \in Keys, k.source[1] = q.source[1], k.source[2] = q.source[2],
         k.revision = q.revision, k.reason = q.reason
  PROVE  k = q
<1>1. /\ k.source \in ({"credential"} \X Creds) \cup ({"attempt"} \X Attempts)
      /\ q.source \in ({"credential"} \X Creds) \cup ({"attempt"} \X Attempts)
  BY DEF Keys
<1>2. k.source = q.source
  BY <1>1
<1> QED
  BY <1>2 DEF Keys

LEMMA KeyMade ==
  ASSUME NEW kind \in {"credential", "attempt"}, NEW id \in Creds,
         kind = "attempt" => id \in Attempts, NEW revision \in Nat \ {0},
         NEW reason \in {"disconnect", "replacement", "activation_rejected", "renewal_rejected"}
  PROVE  /\ Key(kind, id, revision, reason) \in Keys
         /\ Key(kind, id, revision, reason).source[1] = kind
         /\ Key(kind, id, revision, reason).source[2] = id
         /\ Key(kind, id, revision, reason).revision = revision
         /\ Key(kind, id, revision, reason).reason = reason
<1>1. <<kind, id>> \in ({"credential"} \X Creds) \cup ({"attempt"} \X Attempts)
  OBVIOUS
<1> QED
  BY <1>1 DEF Key, Keys

\* A job is added, or found.
LEMMA EnqueuedIs ==
  ASSUME CredInv, NEW k \in Keys, NEW j \in JobRow, jobs' = Enqueued(k, j)
  PROVE  /\ DOMAIN jobs' = DOMAIN jobs \cup {k}
         /\ \A q \in DOMAIN jobs : jobs'[q] = jobs[q]
         /\ k \notin DOMAIN jobs => jobs'[k] = j
         /\ DOMAIN jobs' \subseteq Keys /\ \A q \in DOMAIN jobs' : jobs'[q] \in JobRow
<1>1. DOMAIN jobs \subseteq Keys /\ \A q \in DOMAIN jobs : jobs[q] \in JobRow
  BY TypesAre DEF CredInv
<1>2. CASE k \in DOMAIN jobs
  BY <1>1, <1>2 DEF Enqueued
<1>3. CASE k \notin DOMAIN jobs
  <2>1. jobs' = [q \in DOMAIN jobs \cup {k} |-> IF q = k THEN j ELSE jobs[q]]
    BY <1>3 DEF Enqueued
  <2> QED
    BY <1>1, <1>3, <2>1
<1> QED
  BY <1>2, <1>3

LEMMA JobMade ==
  ASSUME NEW g \in Grants, NEW p \in Providers, NEW u \in Creds \cup {None}
  PROVE  /\ NewJob(g, p, u) \in JobRow /\ NewJob(g, p, u).grant = g
         /\ NewJob(g, p, u).status = "pending"
BY DEF NewJob, JobRow, Statuses

-----------------------------------------------------------------------------
(* Each part of the invariant, kept. *)

LEMMA RowsKept ==
  ASSUME CredInv, RowsStand
  PROVE  RowsAre'
BY DEF CredInv, RowsAre, RowsStand

LEMMA AttemptsKept ==
  ASSUME CredInv, AttemptsStand, TypeOK',
         \A a \in Attempts : credential[a] = NoCredential => credential'[a] = NoCredential
  PROVE  AttemptsAre'
<1>1. \A a \in Attempts : attempt[a].status = "ended" => attempt'[a].status = "ended"
  BY DEF AttemptsStand
<1> QED
  BY <1>1 DEF CredInv, AttemptsAre, AttemptsStand, Active

LEMMA RenewalsKept ==
  ASSUME CredInv, proc' \in [Procs -> ProcStates], RenewalsCarryOn, RowsStand, PointersStand,
         GrantsStand
  PROVE  RenewalsAre'
<1> USE DEF CredInv
<1>1. ASSUME NEW x \in Procs, OnRow(x)'
      PROVE  /\ credential'[proc'[x].cred].provider \in Providers
             /\ Live(proc[x].cred)' =>
                  provider'[credential'[proc'[x].cred].provider].credential = proc'[x].cred
  <2>1. OnRow(x) /\ proc'[x].cred = proc[x].cred
    BY <1>1 DEF RenewalsCarryOn
  <2>2. proc[x].cred \in Creds
    BY <2>1, StateIs DEF OnRow, Renewing
  <2>3. /\ credential[proc[x].cred].provider \in Providers
        /\ Live(proc[x].cred) =>
             provider[credential[proc[x].cred].provider].credential = proc[x].cred
    BY <2>1 DEF RenewalsAre
  <2> QED
    BY <2>1, <2>2, <2>3 DEF RowsStand, PointersStand
<1>2. ASSUME NEW x \in Procs, Renewing(x)'
      PROVE  /\ proc'[x].revision <= credential'[proc'[x].cred].revision
             /\ proc'[x].revision = credential'[proc'[x].cred].revision =>
                  proc'[x].grant = credential'[proc'[x].cred].grant
             /\ grant'[proc'[x].grant].state # "none"
             /\ \A y \in Procs :
                  Renewing(y)' /\ proc'[y].cred = proc'[x].cred /\ proc'[y].revision = proc'[x].revision
                    => proc'[y].grant = proc'[x].grant
  <2>1. /\ Renewing(x) /\ proc'[x].cred = proc[x].cred
        /\ proc'[x].revision = proc[x].revision /\ proc'[x].grant = proc[x].grant
    BY <1>2 DEF RenewalsCarryOn
  <2>2. proc[x].cred \in Creds /\ proc[x].grant \in Grants
    BY <2>1, StateIs DEF Renewing
  <2>3. \A y \in Procs : Renewing(y)' => /\ Renewing(y) /\ proc'[y].cred = proc[y].cred
                /\ proc'[y].revision = proc[y].revision /\ proc'[y].grant = proc[y].grant
    BY DEF RenewalsCarryOn
  <2>4. grant'[proc[x].grant].state # "none"
    BY <2>1, <2>2 DEF RenewalsAre, GrantsStand
  <2> QED
    BY <2>1, <2>2, <2>3, <2>4 DEF RenewalsAre, RowsStand
<1>3. ASSUME NEW x \in Procs, Got(x)'
      PROVE  /\ grant'[proc'[x].grant].state # "live"
             /\ grant'[proc'[x].new].of = grant'[proc'[x].grant].of
  <2>1. /\ Got(x) /\ proc'[x].new = proc[x].new /\ proc'[x].grant = proc[x].grant
    BY <1>3 DEF RenewalsCarryOn, Got, Renewing
  <2>2. proc[x].new \in Grants /\ proc[x].grant \in Grants
    BY <2>1, StateIs DEF Got
  <2>3. grant[proc[x].grant].state # "live" /\ grant[proc[x].new].of = grant[proc[x].grant].of
    BY <2>1 DEF RenewalsAre
  <2> QED
    BY <2>1, <2>2, <2>3 DEF GrantsStand
<1> QED
  BY <1>1, <1>2, <1>3 DEF RenewalsAre

LEMMA GrantsKept ==
  ASSUME CredInv, TypeOK', proc' \in [Procs -> ProcStates], RenewalsCarryOn, PollsCarryOn,
         RowsStand, GrantsStand, JobsStand
  PROVE  GrantsAre'
<1> USE DEF CredInv
<1>1. \A g \in Grants : grant'[g].state = "none" => grant'[g].of = None
  BY DEF GrantsStand, GrantsAre
<1>2. ASSUME NEW c \in Creds, Live(c)'
      PROVE  /\ grant'[credential'[c].grant].state \in {"live", "spent"}
             /\ \A d \in Creds : credential'[d].grant = credential'[c].grant => c = d
  <2>1. Live(c) /\ credential'[c].grant = credential[c].grant
    BY <1>2 DEF RowsStand
  <2>2. credential[c].grant \in Grants
    BY <2>1, TypesAre DEF RowsAre, CredentialRow
  <2> QED
    BY <2>1, <2>2 DEF RowsStand, GrantsStand, GrantsAre
<1>3. \A x \in Procs : \A g \in Held(x)' : g \in Held(x) /\ g \in Grants /\ (Got(x)' \/ Granted(x)') /\ proc'[x].new = g
  <2> SUFFICES ASSUME NEW x \in Procs, NEW g \in Held(x)'
               PROVE  g \in Held(x) /\ g \in Grants /\ (Got(x)' \/ Granted(x)') /\ proc'[x].new = g
    OBVIOUS
  <2>1. (Got(x)' \/ Granted(x)') /\ proc'[x].new = g
    BY DEF Held, Got, Granted
  <2>2. (Got(x) \/ Granted(x)) /\ proc[x].new = g
    BY <2>1 DEF RenewalsCarryOn, PollsCarryOn
  <2> QED
    BY <2>1, <2>2, HoldingIs
<1>4. ASSUME NEW x \in Procs, NEW g \in Held(x)'
      PROVE  /\ grant'[g].state \in {"live", "spent"}
             /\ \A c \in Creds : credential'[c].grant # g
             /\ \A k \in DOMAIN jobs' : jobs'[k].grant # g
             /\ \A y \in Procs : g \in Held(y)' => y = x
  <2>1. g \in Held(x) /\ g \in Grants /\ (Got(x)' \/ Granted(x)') /\ proc'[x].new = g
    BY <1>3
  <2>2. /\ grant[g].state \in {"live", "spent"} /\ \A c \in Creds : credential[c].grant # g
        /\ \A k \in DOMAIN jobs : jobs[k].grant # g
        /\ \A y \in Procs : g \in Held(y) => y = x
    BY <2>1 DEF GrantsAre
  <2>3. grant'[g].state \in {"live", "spent"}
    BY <2>1, <2>2 DEF GrantsStand
  <2> QED
    BY <1>3, <2>2, <2>3 DEF RowsStand, JobsStand
<1>5. ASSUME NEW k \in DOMAIN jobs'
      PROVE  /\ grant'[jobs'[k].grant].state # "none"
             /\ \A c \in Creds : credential'[c].grant # jobs'[k].grant
  <2>1. k \in DOMAIN jobs /\ jobs'[k].grant = jobs[k].grant
    BY <1>5 DEF JobsStand
  <2>2. jobs[k].grant \in Grants
    BY <2>1, TypesAre DEF JobRow
  <2> QED
    BY <2>1, <2>2 DEF RowsStand, GrantsStand, GrantsAre
<1> QED
  BY <1>1, <1>2, <1>4, <1>5 DEF GrantsAre

LEMMA PollsKept ==
  ASSUME CredInv, PollsCarryOn,
         \A x \in Procs : Granted(x) => grant'[proc[x].new].of = grant[proc[x].new].of
  PROVE  PollsAre'
BY DEF CredInv, PollsAre, PollsCarryOn

LEMMA KeysKept ==
  ASSUME CredInv, PollsCarryOn, RowsStand,
         \A g \in Grants : grant[g].of # None => grant'[g].of = grant[g].of
  PROVE  /\ \A k \in DOMAIN jobs : KeyTells(k)'
         /\ JobsStand => KeysAre'
<1> USE DEF CredInv
<1>1. ASSUME NEW k \in DOMAIN jobs PROVE KeyTells(k)'
  <2>1. k \in Keys /\ k.source[2] \in Creds /\ k.source[2] # None /\ KeyTells(k)
    BY TypesAre, KeyIs, Constants DEF KeysAre
  <2>2. /\ credential'[k.source[2]].revision = credential[k.source[2]].revision
        /\ credential[k.source[2]].status = "disconnected" =>
             credential'[k.source[2]].status = "disconnected"
    BY <2>1 DEF RowsStand
  <2>3. ASSUME k.reason = "activation_rejected"
        PROVE  /\ \E h \in Grants : grant'[h].of = k.source[2]
               /\ \A x \in Procs : Granted(x)' => proc'[x].at # k.source[2]
    <3>1. PICK h \in Grants : grant[h].of = k.source[2]
      BY <2>1, <2>3 DEF KeyTells
    <3>2. grant'[h].of = k.source[2]
      BY <2>1, <3>1
    <3> QED
      BY <2>1, <2>3, <3>2 DEF KeyTells, PollsCarryOn
  <2> QED
    BY <2>1, <2>2, <2>3 DEF KeyTells
<1> QED
  BY <1>1 DEF KeysAre, JobsStand

LEMMA PointersKept ==
  ASSUME CredInv, RowsStand, PointersStand
  PROVE  PointerNamesTheAccount'
<1> USE DEF CredInv
<1>1. \A p \in Providers : provider[p].credential \in Creds \cup {None}
  BY TypesAre DEF ProviderRow
<1>2. ASSUME NEW p \in Providers, provider'[p].credential # None
      PROVE  /\ Live(provider[p].credential)' /\ credential'[provider'[p].credential].provider = p
  BY <1>1, <1>2 DEF RowsStand, PointersStand, PointerNamesTheAccount
<1>3. ASSUME NEW c \in Creds, Live(c)'
      PROVE  /\ \/ provider'[credential'[c].provider].credential = c
                \/ Orphans /\ c = 0 /\ credential'[c].revision = 1
             /\ provider'[credential'[c].provider].status # "deleted"
  <2>1. Live(c) /\ credential'[c].provider = credential[c].provider
        /\ credential'[c].revision = credential[c].revision /\ credential[c].provider \in Providers
    BY <1>3 DEF RowsStand, RowsAre
  <2> QED
    BY <2>1 DEF PointersStand, PointerNamesTheAccount
<1>4. \A c, d \in Creds : Live(c)' /\ Live(d)' /\ c # d => credential'[c].account # credential'[d].account
  BY DEF RowsStand, PointerNamesTheAccount
<1> QED
  BY <1>2, <1>3, <1>4 DEF PointerNamesTheAccount

LEMMA SpentKept ==
  ASSUME CredInv, OnceSpent, RenewalsCarryOn, RowsStand, GrantsStand
  PROVE  /\ \A x, y \in Procs :
              Got(x)' /\ Got(y)' /\ proc'[x].cred = proc'[y].cred
              /\ proc'[x].revision = proc'[y].revision => x = y
         /\ \A k \in DOMAIN jobs : RejectionTells(k)'
         /\ JobsStand => OnceSpent'
<1> USE DEF CredInv
<1>1. \A x \in Procs : Got(x)' => /\ Got(x) /\ proc'[x].cred = proc[x].cred
                                  /\ proc'[x].revision = proc[x].revision
  BY DEF RenewalsCarryOn, Got, Renewing
<1>2. ASSUME NEW k \in DOMAIN jobs PROVE RejectionTells(k)'
  <2>1. k.source[2] \in Creds /\ RejectionTells(k)
    BY TypesAre, KeyIs DEF OnceSpent
  <2>2. credential'[k.source[2]].revision = credential[k.source[2]].revision
        /\ credential'[k.source[2]].grant = credential[k.source[2]].grant
    BY <2>1 DEF RowsStand
  <2>3. credential[k.source[2]].grant \in Grants \cup {None}
    BY <2>1, TypesAre DEF CredentialRow
  <2>4. \A g \in Grants : grant[g].state # "live" => grant'[g].state # "live"
    BY DEF GrantsStand
  <2>5. \A y \in Procs : Renewing(y)' =>
          /\ Renewing(y) /\ proc'[y].cred = proc[y].cred /\ proc'[y].revision = proc[y].revision
          /\ proc'[y].grant = proc[y].grant /\ proc[y].grant \in Grants
    BY StateIs DEF RenewalsCarryOn, Renewing
  <2> QED
    BY <1>1, <2>1, <2>2, <2>3, <2>4, <2>5 DEF RejectionTells
<1>3. \A x, y \in Procs :
        Got(x)' /\ Got(y)' /\ proc'[x].cred = proc'[y].cred
        /\ proc'[x].revision = proc'[y].revision => x = y
  BY <1>1 DEF OnceSpent
<1> QED
  BY <1>2, <1>3 DEF OnceSpent, JobsStand

LEMMA PlacesKept ==
  ASSUME CredInv, NoGrantIsForgotten, RowsStand, JobsStand, GrantsStand, PlacesStand
  PROVE  NoGrantIsForgotten'
<1> USE DEF CredInv
<1> SUFFICES ASSUME NEW g \in Grants, grant'[g].state = "live"
             PROVE  \/ \E c \in Creds : Live(c)' /\ credential'[c].grant = g
                    \/ \E x \in Procs : g \in Held(x)'
                    \/ \E k \in DOMAIN jobs' : jobs'[k].grant = g /\ jobs'[k].status # "succeeded"
                    \/ g \in lost'
  BY DEF NoGrantIsForgotten
<1>1. grant[g].state = "live"
  BY DEF GrantsStand
<1>2. CASE \E c \in Creds : Live(c) /\ credential[c].grant = g
  BY <1>2 DEF RowsStand
<1>3. CASE \E x \in Procs : g \in Held(x)
  BY <1>3 DEF PlacesStand
<1>4. CASE \E k \in DOMAIN jobs : jobs[k].grant = g /\ jobs[k].status # "succeeded"
  BY <1>4 DEF PlacesStand, JobsStand
<1>5. CASE g \in lost
  BY <1>5 DEF PlacesStand
<1> QED
  BY <1>1, <1>2, <1>3, <1>4, <1>5 DEF NoGrantIsForgotten

\* A grant keeps the login it descends from, and a row its grant.
LEMMA FencesKept ==
  ASSUME CredInv, RowsStand, AttemptsStand,
         \A g \in Grants : grant[g].state # "none" => grant'[g].of = grant[g].of
  PROVE  Fenced
<1> USE DEF CredInv
<1>1. ASSUME NEW c \in Creds, Live(c) PROVE Login(c)' = Login(c)
  <2>1. credential[c].grant \in Grants /\ credential'[c].grant = credential[c].grant
        /\ grant[credential[c].grant].state # "none"
    BY <1>1, TypesAre DEF RowsAre, RowsStand, CredentialRow, GrantsAre
  <2>2. Login(c)' = {grant'[g].of : g \in {credential[c].grant} \cap Grants}
    BY <2>1 DEF Login
  <2> QED
    BY <2>1, <2>2 DEF Login
<1>2. ASSUME NEW c \in Creds, credential[c].status = "disconnected"
      PROVE  credential'[c].status = "disconnected" /\ credential'[c].grant = None
  BY <1>2 DEF RowsStand, RowsAre, Live
<1> QED
  BY <1>1, <1>2 DEF Fenced, AttemptsStand

\* A step that leaves the grants, the rows and the outbox where they are.
LEMMA CalmHolds ==
  ASSUME CredInv, TypeOK', proc' \in [Procs -> ProcStates], ProcsKnow',
         RenewalsCarryOn, PollsCarryOn, RowsStand, PointersStand, AttemptsStand, JobsStand,
         GrantsStand, PlacesStand, RevocationIsReportedTruly'
  PROVE  CredInv' /\ Fenced
<1>1. \A g \in Grants : grant'[g].of = grant[g].of
  BY DEF GrantsStand
<1>2. \A x \in Procs : Granted(x) => proc[x].new \in Grants
  BY HoldingIs DEF CredInv
<1>3. PollsAre' /\ KeysAre' /\ Fenced
  BY <1>1, <1>2, PollsKept, KeysKept, FencesKept
<1>4. AttemptsAre' /\ RowsAre' /\ RenewalsAre' /\ GrantsAre' /\ PointerNamesTheAccount'
  <2>1. \A a \in Attempts : credential[a] = NoCredential => credential'[a] = NoCredential
    BY Constants DEF RowsStand
  <2> QED
    BY <2>1, AttemptsKept, RowsKept, RenewalsKept, GrantsKept, PointersKept
<1>5. ASSUME RotationSpends PROVE OnceSpent' /\ NoGrantIsForgotten'
  BY <1>5, SpentKept, PlacesKept DEF CredInv
<1> QED
  BY <1>3, <1>4, <1>5 DEF CredInv

-----------------------------------------------------------------------------
(* What a step does not touch. *)

LEMMA TypesNext ==
  TypeOK' <=> /\ provider' \in [Providers -> ProviderRow]
              /\ credential' \in [Creds -> CredentialRow]
              /\ attempt' \in [Attempts -> AttemptRow]
              /\ DOMAIN jobs' \subseteq Keys
              /\ \A k \in DOMAIN jobs' : jobs'[k] \in JobRow
              /\ grant' \in [Grants -> GrantRow]
              /\ lost' \subseteq Grants
BY DEF TypeOK, ProviderRow, CredentialRow, AttemptRow, JobRow, GrantRow

LEMMA Unmoved ==
  ASSUME CredInv
  PROVE  /\ credential' = credential => RowsStand
         /\ provider' = provider => PointersStand
         /\ attempt' = attempt => AttemptsStand
         /\ jobs' = jobs => JobsStand
         /\ grant' = grant => GrantsStand
         /\ credential' = credential /\ jobs' = jobs /\ grant' = grant => RevocationIsReportedTruly'
<1>1. credential' = credential => RowsStand
  BY DEF RowsStand, CredInv, RowsAre, Live
<1>2. (provider' = provider => PointersStand) /\ (attempt' = attempt => AttemptsStand)
  BY DEF PointersStand, AttemptsStand, CredInv, AttemptsAre, Active
<1>3. (jobs' = jobs => JobsStand) /\ (grant' = grant => GrantsStand)
  BY DEF JobsStand, GrantsStand
<1>4. credential' = credential /\ jobs' = jobs /\ grant' = grant => RevocationIsReportedTruly'
  BY DEF RevocationIsReportedTruly, CredInv
<1> QED
  BY <1>1, <1>2, <1>3, <1>4

LEMMA OthersKnow ==
  ASSUME CredInv, NEW x \in Procs, \A z \in Procs : z # x => proc'[z] = proc[z], Knows(x)',
         DOMAIN jobs \subseteq DOMAIN jobs',
         \A k \in DOMAIN jobs : jobs'[k].grant = jobs[k].grant,
         \A a \in Attempts : attempt[a].status # "none" => attempt'[a].status # "none"
  PROVE  ProcsKnow'
<1>1. ASSUME NEW z \in Procs, z # x PROVE Knows(z)'
  <2>1. Knows(z) /\ proc'[z] = proc[z]
    BY <1>1 DEF CredInv, ProcsKnow
  <2>2. proc[z] \in ProcStates
    BY DEF CredInv
  <2>3. OnAttempt(z) => proc[z].at \in Attempts
    BY <2>2, StateIs DEF OnAttempt
  <2> QED
    BY <2>1, <2>3 DEF Knows, OnAttempt
<1> QED
  BY <1>1 DEF ProcsKnow

\* A request is over, or goes on to a step in which it has no grant.
LEMMA Goes ==
  ASSUME CredInv, NEW x \in Procs, NEW r \in ProcStates, proc' = [proc EXCEPT ![x] = r],
         r.pc \in {"idle", "work", "revoke", "start", "poll", "fail", "mark"},
         r.pc \in {"work", "revoke", "fail", "mark"} => r.job \in DOMAIN jobs',
         r.pc = "mark" => OnRow(x) /\ r.cred = proc[x].cred,
         r.pc = "revoke" => r.grant = jobs'[r.job].grant,
         r.pc \in {"start", "poll", "fail"} => attempt'[r.at].status # "none",
         DOMAIN jobs \subseteq DOMAIN jobs',
         \A k \in DOMAIN jobs : jobs'[k].grant = jobs[k].grant, AttemptsStand
  PROVE  /\ proc' \in [Procs -> ProcStates] /\ ProcsKnow' /\ RenewalsCarryOn /\ PollsCarryOn
         /\ \A z \in Procs : z # x => proc'[z] = proc[z] /\ Held(z)' = Held(z)
         /\ ~ Got(x)' /\ ~ Granted(x)' /\ ~ Renewing(x)' /\ Held(x)' = {}
<1>1. /\ proc'[x] = r /\ \A z \in Procs : z # x => proc'[z] = proc[z]
      /\ proc' \in [Procs -> ProcStates]
  BY OneMoves
<1>2. Knows(x)'
  BY <1>1 DEF Knows, OnAttempt
<1>3. /\ ~ Got(x)' /\ ~ Granted(x)' /\ ~ Renewing(x)' /\ Held(x)' = {}
      /\ OnRow(x)' => OnRow(x) /\ proc'[x].cred = proc[x].cred
  BY <1>1 DEF Got, Granted, OnRow, Renewing, Held
<1>4. RenewalsCarryOn /\ PollsCarryOn
  BY <1>1, <1>3 DEF RenewalsCarryOn, PollsCarryOn, Got, Granted, OnRow, Renewing
<1>5. ProcsKnow'
  BY <1>1, <1>2, OthersKnow DEF AttemptsStand
<1>6. \A z \in Procs : z # x => Held(z)' = Held(z)
  BY <1>1 DEF Held
<1> QED
  BY <1>1, <1>3, <1>4, <1>5, <1>6

LEMMA NobodyGoes ==
  ASSUME CredInv, proc' = proc, AttemptsStand, JobsStand
  PROVE  /\ proc' \in [Procs -> ProcStates] /\ ProcsKnow' /\ RenewalsCarryOn /\ PollsCarryOn
         /\ \A z \in Procs : Held(z)' = Held(z)
<1>1. RenewalsCarryOn /\ PollsCarryOn /\ \A z \in Procs : Held(z)' = Held(z)
  BY DEF RenewalsCarryOn, PollsCarryOn, Got, Granted, OnRow, Renewing, Held
<1>2. ASSUME NEW x \in Procs PROVE ProcsKnow'
  <2>1. Knows(x) /\ proc[x] \in ProcStates
    BY DEF CredInv, ProcsKnow
  <2>2. OnAttempt(x) => proc[x].at \in Attempts
    BY <2>1, StateIs DEF OnAttempt
  <2>3. Knows(x)'
    BY <2>1, <2>2 DEF Knows, OnAttempt, AttemptsStand, JobsStand
  <2> QED
    BY <2>3, OthersKnow DEF AttemptsStand, JobsStand
<1>3. ProcsKnow'
  BY <1>2 DEF ProcsKnow
<1> QED
  BY <1>1, <1>3 DEF CredInv

\* Whoever had no grant leaves none behind.
LEMMA NothingDropped ==
  ASSUME CredInv, NEW x \in Procs, \A z \in Procs : z # x => Held(z)' = Held(z),
         \A g \in Held(x) : grant'[g].state = "live" => g \in Held(x)' \/ g \in lost', lost \subseteq lost',
         \A k \in DOMAIN jobs :
           jobs'[k].status = "succeeded" =>
             jobs[k].status = "succeeded" \/ grant'[jobs[k].grant].state # "live"
  PROVE  PlacesStand
BY DEF PlacesStand

LEMMA EmptyHanded ==
  ASSUME CredInv, NEW x \in Procs,
         \/ proc[x].pc \notin {"answered", "reject", "polled"}
         \/ proc[x].pc = "answered" /\ proc[x].result \in {"reauthorize", "failed"}
         \/ proc[x].pc = "polled" /\ proc[x].result \notin {"connected", "rejected"}
         \/ proc[x].pc = "answered" /\ proc[x].new = None
  PROVE  Held(x) = {}
BY DEF Held, CredInv, ProcsKnow, Knows

-----------------------------------------------------------------------------
(* The outbox. *)

LEMMA ClaimJobHolds ==
  ASSUME CredInv, NEW x \in Procs, ClaimJob(x)
  PROVE  CredInv' /\ Fenced
<1> DEFINE k == proc[x].job
<1>1. proc[x].pc = "work" /\ k \in DOMAIN jobs /\ k \in Keys
  BY TypesAre DEF ClaimJob, CredInv, ProcsKnow, Knows
<1>2. jobs[k] \in JobRow
  BY <1>1, TypesAre DEF CredInv
<1> DEFINE j == [jobs[k] EXCEPT !.status = "processing", !.lease = x, !.revision = @ + 1,
                                !.late = FALSE]
           r == [pc |-> "revoke", job |-> k, jrev |-> jobs[k].revision + 1,
                 grant |-> jobs[k].grant]
<1>3. j \in JobRow /\ j.grant = jobs[k].grant /\ j.status = "processing"
  <2>1. jobs[k].revision + 1 \in Nat \ {0} /\ "processing" \in Statuses /\ x \in Procs \cup {None}
    BY <1>2 DEF JobRow, Statuses
  <2> QED
    BY <1>2, <2>1 DEF JobRow
<1>4. r \in ProcStates
  BY <1>1, <1>2, StatesMade DEF JobRow
<1>5. \/ jobs' = jobs /\ proc' = [proc EXCEPT ![x] = Idle]
      \/ jobs' = [jobs EXCEPT ![k] = j] /\ proc' = [proc EXCEPT ![x] = r]
  BY DEF ClaimJob
<1> HIDE DEF j
<1>6. /\ DOMAIN jobs' = DOMAIN jobs
      /\ \A q \in DOMAIN jobs : jobs'[q] = jobs[q] \/ (q = k /\ jobs'[q] = j)
  BY <1>1, <1>5
<1>7. /\ UNCHANGED <<provider, credential, attempt, grant, lost, faults>>
      /\ AttemptsStand /\ RowsStand /\ PointersStand /\ GrantsStand
  BY Unmoved DEF ClaimJob
<1>8. JobsStand
  BY <1>3, <1>6 DEF JobsStand
<1>9. /\ proc' \in [Procs -> ProcStates] /\ ProcsKnow' /\ RenewalsCarryOn /\ PollsCarryOn
      /\ \A z \in Procs : z # x => Held(z)' = Held(z)
  <2>1. CASE proc' = [proc EXCEPT ![x] = Idle]
    BY <1>7, <1>8, <2>1, Goes, StatesMade DEF Idle, JobsStand
  <2>2. CASE proc' = [proc EXCEPT ![x] = r]
    <3>1. r.pc = "revoke" /\ r.job = k /\ r.grant = jobs[k].grant
      OBVIOUS
    <3> HIDE DEF r, k
    <3> QED
      BY <1>1, <1>4, <1>7, <1>8, <2>2, <3>1, Goes DEF JobsStand
  <2> QED
    BY <1>5, <2>1, <2>2
<1>10. TypeOK'
  BY <1>3, <1>6, <1>7, TypesAre, TypesNext DEF CredInv
<1>11. PlacesStand
  BY <1>1, <1>3, <1>6, <1>7, <1>9, EmptyHanded, NothingDropped
<1>12. RevocationIsReportedTruly'
  BY <1>3, <1>6, <1>7 DEF RevocationIsReportedTruly, CredInv
<1> QED
  BY <1>7, <1>8, <1>9, <1>10, <1>11, <1>12, CalmHolds

\* The row a disconnection left is told the outcome of its own job, and of no other.
LEMMA RevokeHolds ==
  ASSUME CredInv, NEW x \in Procs, RevokeAndFinish(x)
  PROVE  CredInv' /\ Fenced
<1> DEFINE k == proc[x].job
           c == k.source[2]
           own == /\ jobs[k].revision = proc[x].jrev /\ jobs[k].lease = x
                  /\ jobs[k].status = "processing"
<1>1. /\ proc[x].pc = "revoke" /\ k \in DOMAIN jobs /\ k \in Keys /\ c \in Creds
      /\ proc[x].grant = jobs[k].grant /\ jobs[k] \in JobRow /\ jobs[k].grant \in Grants
  <2>1. proc[x].pc = "revoke" /\ k \in DOMAIN jobs /\ proc[x].grant = jobs[k].grant
    BY DEF RevokeAndFinish, CredInv, ProcsKnow, Knows
  <2>2. k \in Keys /\ jobs[k] \in JobRow
    BY <2>1, TypesAre DEF CredInv
  <2> QED
    BY <2>1, <2>2, KeyIs DEF JobRow
<1> HIDE DEF k
<1>2. PICK outcome \in Outcomes :
        /\ grant' = IF outcome = "succeeded"
                    THEN [grant EXCEPT ![proc[x].grant].state = "revoked"] ELSE grant
        /\ jobs' = IF own
                   THEN [jobs EXCEPT ![k].status = outcome, ![k].late = FALSE,
                                     ![k].revision = @ + 1, ![k].lease = None]
                   ELSE jobs
        /\ credential' = IF own /\ Tells(k)
                         THEN [credential EXCEPT ![c].revocation = outcome]
                         ELSE credential
  BY DEF RevokeAndFinish, k
<1>3. /\ proc' = [proc EXCEPT ![x] = Idle]
      /\ UNCHANGED <<provider, attempt, lost, faults>>
      /\ outcome \in {"succeeded", "unsupported", "failed"}
  BY Constants DEF RevokeAndFinish
<1> DEFINE j == [jobs[k] EXCEPT !.status = outcome, !.late = FALSE, !.revision = @ + 1,
                                !.lease = None]
           row == [credential[c] EXCEPT !.revocation = outcome]
<1>4. j \in JobRow /\ j.grant = jobs[k].grant /\ j.status = outcome
  <2>1. jobs[k].revision + 1 \in Nat \ {0} /\ outcome \in Statuses
    BY <1>1, <1>3 DEF JobRow, Statuses
  <2> QED
    BY <1>1, <2>1 DEF JobRow
<1>5. /\ credential[c] \in CredentialRow
      /\ row \in CredentialRow /\ row.revocation = outcome
      /\ row.status = credential[c].status /\ row.provider = credential[c].provider
      /\ row.account = credential[c].account /\ row.revision = credential[c].revision
      /\ row.grant = credential[c].grant /\ row.lease = credential[c].lease
  <2>1. credential[c] \in CredentialRow
    BY <1>1, TypesAre DEF CredInv
  <2> QED
    BY <1>3, <2>1 DEF CredentialRow
<1>6. /\ DOMAIN jobs' = DOMAIN jobs
      /\ \A q \in DOMAIN jobs : q # k => jobs'[q] = jobs[q]
      /\ jobs'[k] = IF own THEN j ELSE jobs[k]
  BY <1>1, <1>2
<1>7. /\ DOMAIN credential = Creds /\ credential' \in [Creds -> CredentialRow]
      /\ \A d \in Creds : d # c => credential'[d] = credential[d]
      /\ credential'[c] = IF own /\ Tells(k) THEN row ELSE credential[c]
  <2>1. credential \in [Creds -> CredentialRow]
    BY TypesAre DEF CredInv
  <2>2. credential' = IF own /\ Tells(k) THEN [credential EXCEPT ![c] = row] ELSE credential
    BY <1>2
  <2> HIDE DEF row, own
  <2> QED
    BY <1>1, <1>5, <2>1, <2>2
<1>8. /\ grant' \in [Grants -> GrantRow]
      /\ \A g \in Grants : /\ grant'[g].of = grant[g].of
                           /\ grant'[g].state # grant[g].state =>
                                g = jobs[k].grant /\ grant'[g].state = "revoked"
      /\ outcome = "succeeded" => grant'[jobs[k].grant].state = "revoked"
  <2>1. grant \in [Grants -> GrantRow]
    BY TypesAre DEF CredInv
  <2> QED
    BY <1>1, <1>2, <2>1 DEF GrantRow
<1> HIDE DEF j, row
<1>9. AttemptsStand /\ PointersStand
  BY <1>3, Unmoved
<1>10. JobsStand
  BY <1>4, <1>6 DEF JobsStand
<1>11. Tells(k) => credential[c].status = "disconnected"
  BY DEF Tells
<1>12. RowsStand
  <2>1. CASE ~ (own /\ Tells(k))
    BY <1>7, <2>1, Unmoved, TypesAre DEF CredInv
  <2>2. CASE own /\ Tells(k)
    <3>1. credential'[c] = row /\ credential[c].status = "disconnected"
      BY <1>7, <1>11, <2>2
    <3>2. \A d \in Creds : credential[d].lease # None => credential[d].status = "connected"
      BY DEF CredInv, RowsAre
    <3> QED
      BY <1>5, <1>7, <3>1, <3>2 DEF RowsStand, Live, NoCredential
  <2> QED
    BY <2>1, <2>2
<1>13. /\ proc' \in [Procs -> ProcStates] /\ ProcsKnow' /\ RenewalsCarryOn /\ PollsCarryOn
       /\ \A z \in Procs : z # x => Held(z)' = Held(z)
  BY <1>3, <1>9, <1>10, Goes, StatesMade DEF Idle, JobsStand
<1>14. GrantsStand
  <2>1. /\ grant[jobs[k].grant].state # "none"
        /\ \A d \in Creds : credential[d].grant # jobs[k].grant
        /\ \A z \in Procs : jobs[k].grant \notin Held(z)
    BY <1>1 DEF CredInv, GrantsAre
  <2>2. \A z \in Procs : (Got(z)' => Got(z) /\ proc'[z].new = proc[z].new)
                         /\ (Granted(z)' => Granted(z) /\ proc'[z].new = proc[z].new)
    BY <1>13 DEF RenewalsCarryOn, PollsCarryOn
  <2>3. \A z \in Procs : Got(z) \/ Granted(z) => Held(z) = {proc[z].new}
    BY HoldingIs DEF CredInv
  <2> QED
    BY <1>8, <2>1, <2>2, <2>3 DEF GrantsStand
<1>15. TypeOK'
  BY <1>3, <1>4, <1>6, <1>7, <1>8, TypesAre, TypesNext DEF CredInv
<1>16. PlacesStand
  <2>1. \A q \in DOMAIN jobs : jobs'[q].status = "succeeded" =>
             jobs[q].status = "succeeded" \/ grant'[jobs[q].grant].state # "live"
    BY <1>4, <1>6, <1>8
  <2>2. Held(x) = {}
    BY <1>1, EmptyHanded
  <2> QED
    BY <1>3, <1>13, <2>1, <2>2, NothingDropped
<1>17. RevocationIsReportedTruly'
  <2> SUFFICES ASSUME NEW q \in DOMAIN jobs
               PROVE  /\ jobs'[q].status = "succeeded" => grant'[jobs'[q].grant].state = "revoked"
                      /\ q.reason = "disconnect" =>
                           (jobs'[q].status \in {"succeeded", "unsupported", "failed"}
                              => credential'[q.source[2]].revocation = jobs'[q].status)
    BY <1>6 DEF RevocationIsReportedTruly
  <2>1. /\ jobs[q].status = "succeeded" => grant[jobs[q].grant].state = "revoked"
        /\ q.reason = "disconnect" =>
             (jobs[q].status \in {"succeeded", "unsupported", "failed"}
                => credential[q.source[2]].revocation = jobs[q].status)
    BY DEF CredInv, RevocationIsReportedTruly
  <2>2. q \in Keys /\ q.source[2] \in Creds /\ jobs[q].grant \in Grants
    BY TypesAre, KeyIs DEF CredInv, JobRow
  <2>3. jobs'[q].status = "succeeded" => grant'[jobs'[q].grant].state = "revoked"
    BY <1>4, <1>6, <1>8, <2>1, <2>2
  <2>4. ASSUME q.reason = "disconnect", jobs'[q].status \in {"succeeded", "unsupported", "failed"}
        PROVE  credential'[q.source[2]].revocation = jobs'[q].status
    <3>1. CASE q = k /\ own
      <4>1. Tells(k)
        BY <2>4, <3>1 DEF Tells, CredInv, KeysAre, KeyTells
      <4> QED
        BY <1>4, <1>5, <1>6, <1>7, <3>1, <4>1
    <3>2. CASE ~ (q = k /\ own)
      <4>1. jobs'[q] = jobs[q]
        BY <1>6, <3>2
      <4>2. CASE own /\ Tells(k) /\ q.source[2] = c
        <5>1. /\ k.source[1] = "credential" /\ q.source[1] = "credential"
              /\ k.reason = q.reason /\ k.revision = q.revision
          <6>1. k.reason = "disconnect" /\ k.reason # "activation_rejected"
                /\ q.reason # "activation_rejected"
            BY <2>4, <4>2 DEF Tells
          <6>2. k.source[1] # "attempt" /\ q.source[1] # "attempt"
            BY <1>1, <6>1 DEF CredInv, KeysAre, KeyTells
          <6>3. k.source[1] \in {"credential", "attempt"} /\ q.source[1] \in {"credential", "attempt"}
                /\ k.revision \in Nat /\ q.revision \in Nat
            BY <1>1, <2>2, KeyIs
          <6>4. credential[c].revision = k.revision + 1 /\ credential[c].revision = q.revision + 1
            BY <1>1, <2>4, <4>2, <6>1 DEF CredInv, KeysAre, KeyTells
          <6> QED
            BY <2>4, <6>1, <6>2, <6>3, <6>4
        <5>2. q = k
          BY <1>1, <2>2, <4>2, <5>1, KeysDiffer
        <5> QED
          BY <3>2, <4>2, <5>2
      <4>3. CASE ~ (own /\ Tells(k) /\ q.source[2] = c)
        <5>1. credential'[q.source[2]] = credential[q.source[2]]
          BY <1>7, <2>2, <4>3
        <5> QED
          BY <2>1, <2>4, <4>1, <5>1
      <4> QED
        BY <4>2, <4>3
    <3> QED
      BY <3>1, <3>2
  <2> QED
    BY <2>3, <2>4
<1> QED
  BY <1>9, <1>10, <1>12, <1>13, <1>14, <1>15, <1>16, <1>17, CalmHolds

LEMMA RetryHolds ==
  ASSUME CredInv, NEW x \in Procs, NEW k \in DOMAIN jobs, RetryRevocation(x, k)
  PROVE  CredInv' /\ Fenced
<1>1. UNCHANGED <<provider, credential, attempt, jobs, grant, lost, faults>>
  BY DEF RetryRevocation
<1> DEFINE r == [pc |-> "work", job |-> k, jrev |-> jobs[k].revision]
<1>2. r \in ProcStates /\ r.pc = "work" /\ r.job = k /\ proc' = [proc EXCEPT ![x] = r]
  BY TypesAre, StatesMade DEF CredInv, JobRow, RetryRevocation
<1> HIDE DEF r
<1>3. AttemptsStand /\ RowsStand /\ PointersStand /\ GrantsStand /\ JobsStand /\ RevocationIsReportedTruly'
  BY <1>1, Unmoved
<1>4. /\ proc' \in [Procs -> ProcStates] /\ ProcsKnow' /\ RenewalsCarryOn /\ PollsCarryOn
      /\ \A z \in Procs : z # x => Held(z)' = Held(z)
  BY <1>1, <1>2, <1>3, Goes DEF JobsStand
<1>5. TypeOK'
  BY <1>1, TypesAre, TypesNext DEF CredInv
<1>6. PlacesStand
  <2>1. Held(x) = {}
    BY EmptyHanded DEF RetryRevocation
  <2> QED
    BY <1>1, <1>4, <2>1, NothingDropped
<1> QED
  BY <1>3, <1>4, <1>5, <1>6, CalmHolds

-----------------------------------------------------------------------------
(* The requests of the gateway. *)

\* The request that renews a row is fenced by what it read.
LEMMA LoadHolds ==
  ASSUME CredInv, NEW x \in Procs, NEW p \in Providers, LoadToRenew(x, p)
  PROVE  CredInv' /\ Fenced
<1> DEFINE c == provider[p].credential
           r == [pc |-> "renew", cred |-> c, revision |-> credential[c].revision,
                 epoch |-> credential[c].epoch, grant |-> credential[c].grant]
<1>1. /\ UNCHANGED <<provider, credential, attempt, jobs, grant, lost, faults>>
      /\ proc[x].pc = "idle" /\ proc' = [proc EXCEPT ![x] = r]
      /\ c # None /\ credential[c].status = "connected"
  BY DEF LoadToRenew
<1>2. /\ c \in Creds /\ Live(c) /\ credential[c].provider = p /\ credential[c].grant \in Grants
      /\ credential[c].revision \in Nat \ {0} /\ credential[c].epoch \in Nat
      /\ grant[credential[c].grant].state # "none"
  <2>1. c \in Creds /\ credential[c] \in CredentialRow
    BY <1>1, TypesAre DEF CredInv, ProviderRow
  <2>2. Live(c)
    BY <1>1 DEF Live
  <2> QED
    BY <1>1, <2>1, <2>2
    DEF CredInv, CredentialRow, RowsAre, GrantsAre, PointerNamesTheAccount
<1>3. /\ r \in ProcStates /\ r.pc = "renew" /\ r.cred = c /\ r.revision = credential[c].revision
      /\ r.grant = credential[c].grant
  BY <1>2, StatesMade
<1>4. /\ proc' \in [Procs -> ProcStates] /\ proc'[x] = r
      /\ \A z \in Procs : z # x => proc'[z] = proc[z]
  BY <1>1, <1>3, OneMoves
<1> HIDE DEF r
<1>5. /\ ~ Got(x)' /\ ~ Granted(x)' /\ OnRow(x)' /\ Renewing(x)'
      /\ \A z \in Procs : Held(z)' = Held(z)
      /\ \A z \in Procs : z # x => /\ Got(z)' <=> Got(z)
                                   /\ Granted(z)' <=> Granted(z)
                                   /\ OnRow(z)' <=> OnRow(z)
                                   /\ Renewing(z)' <=> Renewing(z)
  BY <1>1, <1>3, <1>4 DEF Got, Granted, OnRow, Renewing, Held
<1>6. PollsCarryOn /\ PollsAre' /\ KeysAre' /\ Fenced
  <2>1. PollsCarryOn
    BY <1>4, <1>5 DEF PollsCarryOn
  <2> QED
    BY <1>1, <2>1, Unmoved, PollsKept, KeysKept, FencesKept
<1>7. ProcsKnow'
  <2>1. Knows(x)'
    BY <1>3, <1>4 DEF Knows, OnAttempt
  <2> QED
    BY <1>1, <1>4, <2>1, OthersKnow
<1>8. RenewalsAre'
  <2>1. \A z \in Procs : OnRow(z)' =>
          /\ credential[proc'[z].cred].provider \in Providers
          /\ Live(proc'[z].cred) =>
               provider[credential[proc'[z].cred].provider].credential = proc'[z].cred
    BY <1>2, <1>3, <1>4, <1>5 DEF CredInv, RenewalsAre
  <2>2. \A z \in Procs : Renewing(z)' =>
          /\ proc'[z].revision <= credential[proc'[z].cred].revision
          /\ proc'[z].revision = credential[proc'[z].cred].revision =>
               proc'[z].grant = credential[proc'[z].cred].grant
          /\ grant[proc'[z].grant].state # "none"
    BY <1>2, <1>3, <1>4, <1>5 DEF CredInv, RenewalsAre
  <2>3. \A y, z \in Procs :
          Renewing(y)' /\ Renewing(z)' /\ proc'[y].cred = proc'[z].cred
          /\ proc'[y].revision = proc'[z].revision => proc'[y].grant = proc'[z].grant
    <3> SUFFICES ASSUME NEW y \in Procs, NEW z \in Procs, Renewing(y)', Renewing(z)',
                        proc'[y].cred = proc'[z].cred, proc'[y].revision = proc'[z].revision
                 PROVE  proc'[y].grant = proc'[z].grant
      OBVIOUS
    <3>1. CASE y = x \/ z = x
      BY <1>3, <1>4, <2>2, <3>1
    <3>2. CASE y # x /\ z # x
      BY <1>4, <1>5, <3>2 DEF CredInv, RenewalsAre
    <3> QED
      BY <3>1, <3>2
  <2>4. \A z \in Procs : Got(z)' => /\ grant[proc'[z].grant].state # "live"
                                    /\ grant[proc'[z].new].of = grant[proc'[z].grant].of
    BY <1>4, <1>5 DEF CredInv, RenewalsAre
  <2>5. \A d : Live(d)' <=> Live(d)
    BY <1>1 DEF Live
  <2> QED
    BY <1>1, <2>1, <2>2, <2>3, <2>4, <2>5 DEF RenewalsAre
<1>9. GrantsAre'
  <2>1. \A d : Live(d)' <=> Live(d)
    BY <1>1 DEF Live
  <2> QED
    BY <1>1, <1>5, <2>1 DEF CredInv, GrantsAre
<1>10. ASSUME RotationSpends PROVE OnceSpent' /\ NoGrantIsForgotten'
  <2>1. OnceSpent /\ NoGrantIsForgotten
    BY <1>10 DEF CredInv
  <2>2. \A k \in DOMAIN jobs : k.reason = "renewal_rejected" =>
          /\ credential[k.source[2]].revision = k.revision /\ credential[k.source[2]].grant # None
               => grant[credential[k.source[2]].grant].state # "live"
          /\ \A y \in Procs :
               Renewing(y)' /\ proc'[y].cred = k.source[2] /\ proc'[y].revision = k.revision
                 => ~ Got(y)' /\ grant[proc'[y].grant].state # "live"
    <3> SUFFICES ASSUME NEW k \in DOMAIN jobs, k.reason = "renewal_rejected", NEW y \in Procs,
                        Renewing(y)', proc'[y].cred = k.source[2], proc'[y].revision = k.revision
                 PROVE  ~ Got(y)' /\ grant[proc'[y].grant].state # "live"
      BY <2>1 DEF OnceSpent, RejectionTells
    <3>1. CASE y = x
      <4>1. k.source[2] = c /\ k.revision = credential[c].revision /\ credential[c].grant # None
        BY <1>2, <1>3, <1>4, <3>1, Constants
      <4> QED
        BY <1>3, <1>4, <1>5, <2>1, <3>1, <4>1 DEF OnceSpent, RejectionTells
    <3>2. CASE y # x
      BY <1>4, <1>5, <2>1, <3>2 DEF OnceSpent, RejectionTells
    <3> QED
      BY <3>1, <3>2
  <2>3. \A y, z \in Procs :
          Got(y)' /\ Got(z)' /\ proc'[y].cred = proc'[z].cred /\ proc'[y].revision = proc'[z].revision
            => y = z
    BY <1>4, <1>5, <2>1 DEF OnceSpent, RejectionTells
  <2>4. NoGrantIsForgotten'
    <3>1. \A d : Live(d)' <=> Live(d)
      BY <1>1 DEF Live
    <3> QED
      BY <1>1, <1>5, <2>1, <3>1 DEF NoGrantIsForgotten
  <2> QED
    BY <1>1, <2>2, <2>3, <2>4 DEF OnceSpent, RejectionTells
<1>11. /\ TypeOK' /\ AttemptsAre' /\ RowsAre' /\ PointerNamesTheAccount' /\ RevocationIsReportedTruly'
  <2>1. TypeOK'
    BY <1>1, TypesAre, TypesNext DEF CredInv
  <2> QED
    BY <1>1, <2>1, Unmoved, AttemptsKept, RowsKept, PointersKept
<1> QED
  BY <1>4, <1>6, <1>7, <1>8, <1>9, <1>10, <1>11 DEF CredInv

\* A row is written and stays the account it was.
LEMMA RowWritten ==
  ASSUME CredInv, NEW c \in Creds, NEW row \in CredentialRow,
         credential' = [credential EXCEPT ![c] = row],
         row.provider = credential[c].provider, row.account = credential[c].account,
         row.revision = credential[c].revision, row.grant = credential[c].grant,
         row.revocation = credential[c].revocation, Live(c),
         row.status \in {"connected", "reauth_required"}, row.lease # None => row.status = "connected"
  PROVE  /\ credential' \in [Creds -> CredentialRow] /\ RowsStand
         /\ jobs' = jobs /\ grant' = grant => RevocationIsReportedTruly'
<1>1. credential \in [Creds -> CredentialRow]
  BY TypesAre DEF CredInv
<1>2. /\ credential' \in [Creds -> CredentialRow] /\ credential'[c] = row
      /\ \A d \in Creds : d # c => credential'[d] = credential[d]
  BY <1>1
<1>3. RowsStand
  <2>1. \A d \in Creds : credential[d].lease # None => credential[d].status = "connected"
    BY DEF CredInv, RowsAre
  <2>2. credential[c].status \notin {"disconnected", "none"} /\ credential[c] # NoCredential
    BY DEF Live, NoCredential
  <2> QED
    BY <1>2, <2>1, <2>2 DEF RowsStand, Live
<1>4. ASSUME jobs' = jobs, grant' = grant PROVE RevocationIsReportedTruly'
  <2>1. \A k \in DOMAIN jobs : k.source[2] \in Creds
    BY TypesAre, KeyIs DEF CredInv
  <2>2. \A d \in Creds : credential'[d].revocation = credential[d].revocation
    BY <1>2
  <2> QED
    BY <1>4, <2>1, <2>2 DEF CredInv, RevocationIsReportedTruly
<1> QED
  BY <1>2, <1>3, <1>4

LEMMA ClaimLeaseHolds ==
  ASSUME CredInv, NEW x \in Procs, ClaimLease(x)
  PROVE  CredInv' /\ Fenced
<1> DEFINE c == proc[x].cred
           row == [credential[c] EXCEPT !.lease = x, !.late = FALSE]
           r == [proc[x] EXCEPT !.pc = "refresh"]
<1>1. /\ UNCHANGED <<provider, attempt, jobs, grant, lost, faults>>
      /\ proc[x].pc = "renew" /\ proc[x] \in ProcStates
      /\ c \in Creds /\ credential[c] \in CredentialRow
  <2>1. proc[x].pc = "renew" /\ proc[x] \in ProcStates
    BY DEF ClaimLease, CredInv
  <2> QED
    BY <2>1, StateIs, TypesAre DEF ClaimLease, CredInv
<1>2. \/ credential' = credential /\ proc' = [proc EXCEPT ![x] = Idle]
      \/ /\ credential' = [credential EXCEPT ![c] = row] /\ credential[c].status = "connected"
         /\ proc' = [proc EXCEPT ![x] = r]
  BY DEF ClaimLease
<1>3. AttemptsStand /\ PointersStand /\ GrantsStand /\ JobsStand
  BY <1>1, Unmoved
<1>4. /\ credential' \in [Creds -> CredentialRow] /\ RowsStand /\ RevocationIsReportedTruly'
  <2>1. CASE credential' = credential
    BY <1>1, <2>1, Unmoved, TypesAre DEF CredInv
  <2>2. CASE credential' = [credential EXCEPT ![c] = row] /\ credential[c].status = "connected"
    <3>1. /\ row \in CredentialRow /\ row.provider = credential[c].provider
          /\ row.account = credential[c].account /\ row.revision = credential[c].revision
          /\ row.grant = credential[c].grant /\ row.revocation = credential[c].revocation
          /\ row.status = credential[c].status
      BY <1>1 DEF CredentialRow
    <3>2. Live(c)
      BY <2>2 DEF Live
    <3> HIDE DEF row, c
    <3> QED
      BY <1>1, <2>2, <3>1, <3>2, RowWritten
  <2> QED
    BY <1>2, <2>1, <2>2
<1>5. /\ proc' \in [Procs -> ProcStates] /\ ProcsKnow' /\ RenewalsCarryOn /\ PollsCarryOn
      /\ \A z \in Procs : z # x => Held(z)' = Held(z)
  <2>1. CASE proc' = [proc EXCEPT ![x] = Idle]
    BY <1>1, <1>3, <2>1, Goes, StatesMade DEF Idle
  <2>2. CASE proc' = [proc EXCEPT ![x] = r]
    <3>1. /\ r \in ProcStates /\ r.pc = "refresh" /\ r.cred = c /\ r.revision = proc[x].revision
          /\ r.grant = proc[x].grant
      <4>1. proc[x] \in [pc : {"renew", "refresh"}, cred : Creds, revision : Nat \ {0},
                         epoch : Nat, grant : Grants]
        BY <1>1 DEF ProcStates, Idle
      <4>2. r \in [pc : {"renew", "refresh"}, cred : Creds, revision : Nat \ {0},
                   epoch : Nat, grant : Grants]
        BY <4>1
      <4>3. r \in ProcStates
        BY <4>2 DEF ProcStates
      <4> QED
        BY <4>1, <4>3
    <3> HIDE DEF r
    <3>2. /\ proc' \in [Procs -> ProcStates] /\ proc'[x] = r
          /\ \A z \in Procs : z # x => proc'[z] = proc[z]
      BY <2>2, <3>1, OneMoves
    <3>3. Knows(x)'
      BY <3>1, <3>2 DEF Knows, OnAttempt
    <3>4. ProcsKnow'
      BY <1>1, <3>2, <3>3, OthersKnow
    <3>5. RenewalsCarryOn /\ PollsCarryOn
      BY <1>1, <3>1, <3>2 DEF RenewalsCarryOn, PollsCarryOn, Got, Granted, OnRow, Renewing
    <3> QED
      BY <3>2, <3>4, <3>5 DEF Held
  <2> QED
    BY <1>2, <2>1, <2>2
<1>6. TypeOK'
  BY <1>1, <1>4, TypesAre, TypesNext DEF CredInv
<1>7. PlacesStand
  <2>1. Held(x) = {}
    BY <1>1, EmptyHanded
  <2> QED
    BY <1>1, <1>5, <2>1, NothingDropped
<1> QED
  BY <1>3, <1>4, <1>5, <1>6, <1>7, CalmHolds

LEMMA ReleaseHolds ==
  ASSUME CredInv, NEW x \in Procs, Release(x)
  PROVE  CredInv' /\ Fenced
<1> DEFINE c == proc[x].cred
           row == [credential[c] EXCEPT !.lease = None, !.late = FALSE]
<1>1. /\ UNCHANGED <<provider, attempt, jobs, grant, lost, faults>>
      /\ proc[x].pc = "answered" /\ proc[x].result = "failed"
      /\ c \in Creds /\ credential[c] \in CredentialRow
      /\ proc' = [proc EXCEPT ![x] = Idle]
  <2>1. proc[x].pc = "answered" /\ proc[x] \in ProcStates
    BY DEF Release, CredInv
  <2> QED
    BY <2>1, StateIs, TypesAre DEF Release, CredInv
<1>2. \/ credential' = credential
      \/ credential' = [credential EXCEPT ![c] = row] /\ credential[c].lease = x
  BY DEF Release
<1>3. AttemptsStand /\ PointersStand /\ GrantsStand /\ JobsStand
  BY <1>1, Unmoved
<1>4. /\ credential' \in [Creds -> CredentialRow] /\ RowsStand /\ RevocationIsReportedTruly'
  <2>1. CASE credential' = credential
    BY <1>1, <2>1, Unmoved, TypesAre DEF CredInv
  <2>2. CASE credential' = [credential EXCEPT ![c] = row] /\ credential[c].lease = x
    <3>1. /\ row \in CredentialRow /\ row.provider = credential[c].provider
          /\ row.account = credential[c].account /\ row.revision = credential[c].revision
          /\ row.grant = credential[c].grant /\ row.revocation = credential[c].revocation
          /\ row.status = credential[c].status /\ row.lease = None
      BY <1>1 DEF CredentialRow
    <3>2. Live(c) /\ credential[c].status = "connected"
      BY <1>1, <2>2, Constants DEF CredInv, RowsAre, Live
    <3> HIDE DEF row, c
    <3> QED
      BY <1>1, <2>2, <3>1, <3>2, RowWritten
  <2> QED
    BY <1>2, <2>1, <2>2
<1>5. /\ proc' \in [Procs -> ProcStates] /\ ProcsKnow' /\ RenewalsCarryOn /\ PollsCarryOn
      /\ \A z \in Procs : z # x => Held(z)' = Held(z)
  BY <1>1, <1>3, Goes, StatesMade DEF Idle
<1>6. TypeOK'
  BY <1>1, <1>4, TypesAre, TypesNext DEF CredInv
<1>7. PlacesStand
  <2>1. Held(x) = {}
    BY <1>1, EmptyHanded
  <2> QED
    BY <1>1, <1>5, <2>1, NothingDropped
<1> QED
  BY <1>3, <1>4, <1>5, <1>6, <1>7, CalmHolds

LEMMA MarkHolds ==
  ASSUME CredInv, NEW x \in Procs, MarkReauthorization(x)
  PROVE  CredInv' /\ Fenced
<1> DEFINE c == proc[x].cred
           row == [credential[c] EXCEPT !.status = "reauth_required", !.epoch = @ + 1,
                                        !.lease = None, !.late = FALSE]
           refused == proc[x].pc = "answered" /\ proc[x].result = "reauthorize"
           r == IF refused THEN Idle ELSE ThenWork(proc[x].job)
<1>1. /\ UNCHANGED <<provider, attempt, jobs, grant, lost, faults>>
      /\ refused \/ proc[x].pc = "mark"
      /\ c \in Creds /\ credential[c] \in CredentialRow
      /\ proc' = [proc EXCEPT ![x] = r]
  <2>1. (refused \/ proc[x].pc = "mark") /\ proc[x] \in ProcStates
    BY DEF MarkReauthorization, CredInv
  <2>2. c \in Creds
    BY <2>1, StateIs
  <2>3. proc' = [proc EXCEPT ![x] = r]
    BY DEF MarkReauthorization
  <2> QED
    BY <2>1, <2>2, <2>3, TypesAre DEF MarkReauthorization, CredInv
<1>2. \/ credential' = credential
      \/ credential' = [credential EXCEPT ![c] = row] /\ credential[c].lease = x
  BY DEF MarkReauthorization, Holds
<1>3. AttemptsStand /\ PointersStand /\ GrantsStand /\ JobsStand
  BY <1>1, Unmoved
<1>4. /\ credential' \in [Creds -> CredentialRow] /\ RowsStand /\ RevocationIsReportedTruly'
  <2>1. CASE credential' = credential
    BY <1>1, <2>1, Unmoved, TypesAre DEF CredInv
  <2>2. CASE credential' = [credential EXCEPT ![c] = row] /\ credential[c].lease = x
    <3>1. /\ row \in CredentialRow /\ row.provider = credential[c].provider
          /\ row.account = credential[c].account /\ row.revision = credential[c].revision
          /\ row.grant = credential[c].grant /\ row.revocation = credential[c].revocation
          /\ row.status = "reauth_required" /\ row.lease = None
      <4>1. credential[c].epoch + 1 \in Nat
        BY <1>1 DEF CredentialRow
      <4> QED
        BY <1>1, <4>1 DEF CredentialRow
    <3>2. Live(c)
      BY <1>1, <2>2, Constants DEF CredInv, RowsAre, Live
    <3> HIDE DEF row, c
    <3> QED
      BY <1>1, <2>2, <3>1, <3>2, RowWritten
  <2> QED
    BY <1>2, <2>1, <2>2
<1>5. /\ proc' \in [Procs -> ProcStates] /\ ProcsKnow' /\ RenewalsCarryOn /\ PollsCarryOn
      /\ \A z \in Procs : z # x => Held(z)' = Held(z)
  <2>1. /\ r \in ProcStates /\ r.pc \in {"idle", "work"}
        /\ r.pc = "work" => r.job \in DOMAIN jobs
    <3>1. CASE refused
      BY <3>1, StatesMade DEF Idle
    <3>2. CASE ~ refused
      <4>1. proc[x].job \in DOMAIN jobs /\ proc[x].job \in Keys
        BY <1>1, <3>2, TypesAre DEF CredInv, ProcsKnow, Knows
      <4> QED
        BY <3>2, <4>1, StatesMade DEF ThenWork
    <3> QED
      BY <3>1, <3>2
  <2> HIDE DEF r
  <2> QED
    BY <1>1, <1>3, <2>1, Goes
<1>6. TypeOK'
  BY <1>1, <1>4, TypesAre, TypesNext DEF CredInv
<1>7. PlacesStand
  <2>1. Held(x) = {}
    BY <1>1, EmptyHanded
  <2> QED
    BY <1>1, <1>5, <2>1, NothingDropped
<1> QED
  BY <1>3, <1>4, <1>5, <1>6, <1>7, CalmHolds

LEMMA RenewingIs ==
  ASSUME CredInv, NEW x \in Procs, Renewing(x)
  PROVE  /\ proc[x].cred \in Creds /\ proc[x].revision \in Nat \ {0} /\ proc[x].grant \in Grants
         /\ Got(x) => proc[x].new \in Grants
         /\ OnRow(x)
<1>1. proc[x] \in ProcStates
  BY DEF CredInv
<1> QED
  BY <1>1, StateIs DEF Renewing, Got, OnRow

\* What the provider has not issued is nowhere.
LEMMA FreshIs ==
  ASSUME CredInv, NEW new \in Grants, grant[new].state = "none"
  PROVE  /\ grant[new].of = None
         /\ \A c \in Creds : credential[c].grant # new
         /\ \A k \in DOMAIN jobs : jobs[k].grant # new
         /\ \A z \in Procs : new \notin Held(z)
         /\ \A z \in Procs : Renewing(z) => proc[z].grant # new
         /\ \A z \in Procs : Got(z) \/ Granted(z) => proc[z].new # new
<1>1. \A c \in Creds : credential[c].grant # new
  BY Constants DEF CredInv, GrantsAre, RowsAre
<1>2. \A z \in Procs : new \notin Held(z)
  BY DEF CredInv, GrantsAre
<1>3. \A z \in Procs : Got(z) \/ Granted(z) => proc[z].new # new
  BY <1>2, HoldingIs DEF CredInv
<1> QED
  BY <1>1, <1>2, <1>3 DEF CredInv, GrantsAre, RenewalsAre

\* The provider is asked for a new grant: the old one is spent, and the new one is of
\* the same login.
LEMMA RotateHolds ==
  ASSUME CredInv, NEW x \in Procs, NEW result \in {"ready", "rejected"}, NEW new \in Grants,
         proc[x].pc = "refresh", Usable(proc[x].grant), Fresh(new),
         grant' = [grant EXCEPT ![new] = Issued(grant[proc[x].grant].account, grant[proc[x].grant].of),
                                ![proc[x].grant].state = "spent"],
         proc' = [proc EXCEPT ![x] = [pc |-> "answered", cred |-> @.cred,
                        revision |-> @.revision, epoch |-> @.epoch, grant |-> proc[x].grant,
                        result |-> result, new |-> new]],
         UNCHANGED <<provider, credential, attempt, jobs, lost, faults>>
  PROVE  CredInv' /\ Fenced
<1> DEFINE g == proc[x].grant
           r == [pc |-> "answered", cred |-> proc[x].cred, revision |-> proc[x].revision,
                 epoch |-> proc[x].epoch, grant |-> g, result |-> result, new |-> new]
<1>1. /\ proc[x] \in ProcStates /\ Renewing(x) /\ g \in Grants /\ ~ Got(x) /\ ~ Granted(x)
      /\ r \in ProcStates
  <2>1. proc[x] \in ProcStates /\ Renewing(x) /\ ~ Got(x) /\ ~ Granted(x)
    BY DEF CredInv, Renewing, Got, Granted
  <2>2. proc[x].epoch \in Nat
    BY <2>1, StateIs
  <2>3. /\ proc[x].cred \in Creds /\ proc[x].revision \in Nat \ {0} /\ g \in Grants
    BY <2>1, RenewingIs
  <2>4. "answered" \in {"answered", "reject"} /\ result \in {"ready", "rejected", "reauthorize", "failed"}
        /\ new \in Grants \cup {None}
    OBVIOUS
  <2>5. r \in ProcStates
    BY <2>2, <2>3, <2>4, StatesMade
  <2> QED
    BY <2>1, <2>3, <2>5
<1>2. /\ r.pc = "answered" /\ r.cred = proc[x].cred /\ r.revision = proc[x].revision
      /\ r.grant = g /\ r.new = new /\ r.result = result
  OBVIOUS
<1>3. /\ proc' \in [Procs -> ProcStates] /\ proc'[x] = r
      /\ \A z \in Procs : z # x => proc'[z] = proc[z]
  BY <1>1, OneMoves
<1> HIDE DEF r
<1>4. /\ Got(x)' /\ ~ Granted(x)' /\ OnRow(x)' /\ Renewing(x)' /\ Held(x)' = {new}
      /\ \A z \in Procs : z # x => /\ Got(z)' <=> Got(z)
                                   /\ Granted(z)' <=> Granted(z)
                                   /\ OnRow(z)' <=> OnRow(z)
                                   /\ Renewing(z)' <=> Renewing(z)
                                   /\ Held(z)' = Held(z)
  BY <1>2, <1>3, Constants DEF Got, Granted, OnRow, Renewing, Held
<1>5. /\ grant[new].state = "none" /\ grant[g].state \in {"live", "spent"} /\ g # new
      /\ RotationSpends => grant[g].state = "live"
  BY DEF Fresh, Usable
<1>6. /\ grant[new].of = None
      /\ \A c \in Creds : credential[c].grant # new
      /\ \A k \in DOMAIN jobs : jobs[k].grant # new
      /\ \A z \in Procs : new \notin Held(z)
      /\ \A z \in Procs : Renewing(z) => proc[z].grant # new
      /\ \A z \in Procs : Got(z) \/ Granted(z) => proc[z].new # new
  BY <1>5, FreshIs
<1>7. /\ grant' \in [Grants -> GrantRow]
      /\ grant'[new].state = "live" /\ grant'[new].of = grant[g].of
      /\ grant'[g].state = "spent" /\ grant'[g].of = grant[g].of
      /\ \A h \in Grants : h # new /\ h # g => grant'[h] = grant[h]
  <2>1. grant \in [Grants -> GrantRow]
    BY TypesAre DEF CredInv
  <2>2. Issued(grant[g].account, grant[g].of) \in GrantRow
    BY <1>1, <2>1 DEF GrantRow, Issued
  <2>3. [grant[g] EXCEPT !.state = "spent"] \in GrantRow
    BY <1>1, <2>1 DEF GrantRow
  <2>4. grant' = [[grant EXCEPT ![new] = Issued(grant[g].account, grant[g].of)]
                    EXCEPT ![g] = [grant[g] EXCEPT !.state = "spent"]]
    BY <1>1, <1>5, <2>1
  <2> QED
    <3>1. /\ grant' \in [Grants -> GrantRow]
          /\ grant'[new] = Issued(grant[g].account, grant[g].of)
          /\ grant'[g] = [grant[g] EXCEPT !.state = "spent"]
          /\ \A h \in Grants : h # new /\ h # g => grant'[h] = grant[h]
      <4> DEFINE i == Issued(grant[g].account, grant[g].of)
                 o == [grant[g] EXCEPT !.state = "spent"]
      <4> HIDE DEF i, o
      <4>1. /\ grant' = [[grant EXCEPT ![new] = i] EXCEPT ![g] = o] /\ i \in GrantRow /\ o \in GrantRow
            /\ grant \in [Grants -> GrantRow] /\ new \in Grants /\ g \in Grants /\ new # g
        BY <1>1, <1>5, <2>1, <2>2, <2>3, <2>4 DEF i, o
      <4>2. /\ grant' \in [Grants -> GrantRow] /\ grant'[new] = i /\ grant'[g] = o
            /\ \A h \in Grants : h # new /\ h # g => grant'[h] = grant[h]
        BY ONLY <4>1
      <4> QED
        BY <4>2 DEF i, o
    <3>2. grant[g] \in GrantRow
      BY <1>1, <2>1
    <3>3. /\ Issued(grant[g].account, grant[g].of).state = "live"
          /\ Issued(grant[g].account, grant[g].of).of = grant[g].of
      BY DEF Issued
    <3>4. /\ [grant[g] EXCEPT !.state = "spent"].state = "spent"
          /\ [grant[g] EXCEPT !.state = "spent"].of = grant[g].of
      BY <3>2 DEF GrantRow
    <3> QED
      BY <3>1, <3>3, <3>4
<1>8. \A h \in Grants : /\ grant[h].state # "none" => grant'[h].of = grant[h].of
                        /\ grant[h].state # "none" => grant'[h].state # "none"
                        /\ grant'[h].state = "live" => grant[h].state = "live" \/ h = new
                        /\ grant[h].state = "revoked" => grant'[h].state = "revoked"
                        /\ grant[h].state \in {"live", "spent"} => grant'[h].state \in {"live", "spent"}
                        /\ grant'[h].state = "none" => grant[h].state = "none" /\ h # new
                        /\ h # new => grant'[h].of = grant[h].of
  BY <1>5, <1>7
<1>9. TypeOK' /\ AttemptsAre' /\ RowsAre' /\ PointerNamesTheAccount'
  <2>1. TypeOK'
    BY <1>7, TypesAre, TypesNext DEF CredInv
  <2> QED
    BY <2>1, Unmoved, AttemptsKept, RowsKept, PointersKept
<1>10. RevocationIsReportedTruly'
  <2>1. \A k \in DOMAIN jobs : jobs[k].grant \in Grants
    BY TypesAre DEF CredInv, JobRow
  <2>2. \A k \in DOMAIN jobs : jobs[k].status = "succeeded" => grant'[jobs[k].grant].state = "revoked"
    BY <1>8, <2>1 DEF CredInv, RevocationIsReportedTruly
  <2> QED
    BY <2>2 DEF CredInv, RevocationIsReportedTruly
<1>11. ProcsKnow'
  <2>1. Knows(x)'
    BY <1>2, <1>3, Constants DEF Knows, OnAttempt
  <2> QED
    BY <1>3, <2>1, OthersKnow
<1>12. PollsAre' /\ KeysAre' /\ Fenced
  <2>1. PollsCarryOn
    BY <1>3, <1>4 DEF PollsCarryOn
  <2>2. \A z \in Procs : Granted(z) => proc[z].new \in Grants /\ grant[proc[z].new].state # "none"
    <3> SUFFICES ASSUME NEW z \in Procs, Granted(z)
                 PROVE  proc[z].new \in Grants /\ grant[proc[z].new].state # "none"
      OBVIOUS
    <3>1. proc[z].new \in Grants /\ proc[z].new \in Held(z)
      BY HoldingIs DEF CredInv
    <3> QED
      BY <3>1 DEF CredInv, GrantsAre
  <2> QED
    BY <1>6, <1>8, <2>1, <2>2, Unmoved, PollsKept, KeysKept, FencesKept
<1>13. RenewalsAre'
  <2>1. \A z \in Procs : OnRow(z)' => OnRow(z) /\ proc'[z].cred = proc[z].cred
    BY <1>1, <1>2, <1>3, <1>4 DEF OnRow
  <2>2. \A z \in Procs : Renewing(z)' => /\ Renewing(z) /\ proc'[z].cred = proc[z].cred
          /\ proc'[z].revision = proc[z].revision /\ proc'[z].grant = proc[z].grant
    BY <1>1, <1>2, <1>3, <1>4
  <2>3. \A z \in Procs : Got(z)' =>
          /\ grant'[proc'[z].grant].state # "live"
          /\ grant'[proc'[z].new].of = grant'[proc'[z].grant].of
    <3> SUFFICES ASSUME NEW z \in Procs, Got(z)'
                 PROVE  /\ grant'[proc'[z].grant].state # "live"
                        /\ grant'[proc'[z].new].of = grant'[proc'[z].grant].of
      OBVIOUS
    <3>0. CASE z = x
      BY <1>2, <1>3, <1>7, <3>0
    <3>1. CASE z # x
      <4>1. Got(z) /\ Renewing(z) /\ proc[z].new \in Grants /\ proc[z].grant \in Grants
        BY <1>4, <3>1, RenewingIs DEF Got, Renewing
      <4>2. /\ grant[proc[z].grant].state # "live"
            /\ grant[proc[z].new].of = grant[proc[z].grant].of
            /\ proc[z].new # new /\ proc[z].grant # new
        BY <1>6, <4>1 DEF CredInv, RenewalsAre
      <4>3. /\ grant'[proc[z].grant].state # "live" /\ grant'[proc[z].new].of = grant[proc[z].new].of
            /\ grant'[proc[z].grant].of = grant[proc[z].grant].of
        BY <1>8, <4>1, <4>2
      <4> QED
        BY <1>3, <3>1, <4>2, <4>3
    <3> QED
      BY <3>0, <3>1
  <2>4. \A z \in Procs : Renewing(z) => proc[z].grant \in Grants
    BY RenewingIs
  <2>5. \A d : Live(d)' <=> Live(d)
    BY DEF Live
  <2>6. \A z \in Procs : OnRow(z) =>
          /\ credential[proc[z].cred].provider \in Providers
          /\ Live(proc[z].cred) =>
               provider[credential[proc[z].cred].provider].credential = proc[z].cred
    BY DEF CredInv, RenewalsAre
  <2>7. \A z \in Procs : Renewing(z) =>
          /\ proc[z].revision <= credential[proc[z].cred].revision
          /\ proc[z].revision = credential[proc[z].cred].revision =>
               proc[z].grant = credential[proc[z].cred].grant
          /\ grant'[proc[z].grant].state # "none"
          /\ \A y \in Procs :
              Renewing(y) /\ proc[y].cred = proc[z].cred /\ proc[y].revision = proc[z].revision
                => proc[y].grant = proc[z].grant
    BY <1>8, <2>4 DEF CredInv, RenewalsAre
  <2>8. ASSUME NEW z \in Procs, Renewing(z)'
        PROVE  /\ proc'[z].revision <= credential[proc'[z].cred].revision
               /\ proc'[z].revision = credential[proc'[z].cred].revision =>
                    proc'[z].grant = credential[proc'[z].cred].grant
               /\ grant'[proc'[z].grant].state # "none"
               /\ \A y \in Procs :
                    Renewing(y)' /\ proc'[y].cred = proc'[z].cred
                    /\ proc'[y].revision = proc'[z].revision => proc'[y].grant = proc'[z].grant
    <3>1. /\ Renewing(z) /\ proc'[z].cred = proc[z].cred
          /\ proc'[z].revision = proc[z].revision /\ proc'[z].grant = proc[z].grant
      BY <2>2, <2>8
    <3>2. \A y \in Procs :
            Renewing(y)' /\ proc'[y].cred = proc'[z].cred
            /\ proc'[y].revision = proc'[z].revision => proc'[y].grant = proc'[z].grant
      <4> SUFFICES ASSUME NEW y \in Procs, Renewing(y)', proc'[y].cred = proc'[z].cred,
                          proc'[y].revision = proc'[z].revision
                   PROVE  proc'[y].grant = proc'[z].grant
        OBVIOUS
      <4>1. /\ Renewing(y) /\ proc'[y].cred = proc[y].cred
            /\ proc'[y].revision = proc[y].revision /\ proc'[y].grant = proc[y].grant
        BY <2>2
      <4> QED
        <5>1. \A w \in Procs : Renewing(w) /\ proc[w].cred = proc[z].cred /\ proc[w].revision = proc[z].revision
                => proc[w].grant = proc[z].grant
          BY <2>7, <3>1
        <5> QED
          BY <3>1, <4>1, <5>1
    <3> QED
      BY <2>7, <3>1, <3>2
  <2>9. ASSUME NEW z \in Procs, OnRow(z)'
        PROVE  /\ credential[proc'[z].cred].provider \in Providers
               /\ Live(proc[z].cred)' =>
                    provider[credential[proc'[z].cred].provider].credential = proc'[z].cred
    <3>1. OnRow(z) /\ proc'[z].cred = proc[z].cred
      BY <2>1, <2>9
    <3>2. Live(proc[z].cred)' => Live(proc[z].cred)
      BY <3>1 DEF Live
    <3> QED
      BY <2>6, <3>1, <3>2
  <2> SUFFICES ASSUME NEW z \in Procs
               PROVE  /\ OnRow(z)' =>
                           /\ credential'[proc'[z].cred].provider \in Providers
                           /\ Live(proc[z].cred)' =>
                                provider'[credential'[proc'[z].cred].provider].credential = proc'[z].cred
                      /\ Renewing(z)' =>
                           /\ proc'[z].revision <= credential'[proc'[z].cred].revision
                           /\ proc'[z].revision = credential'[proc'[z].cred].revision =>
                                proc'[z].grant = credential'[proc'[z].cred].grant
                           /\ grant'[proc'[z].grant].state # "none"
                           /\ \A y \in Procs :
                                Renewing(y)' /\ proc'[y].cred = proc'[z].cred
                                /\ proc'[y].revision = proc'[z].revision =>
                                  proc'[y].grant = proc'[z].grant
                      /\ Got(z)' => /\ grant'[proc'[z].grant].state # "live"
                                    /\ grant'[proc'[z].new].of = grant'[proc'[z].grant].of
    BY DEF RenewalsAre
  <2> QED
    BY <2>3, <2>8, <2>9
<1>14. GrantsAre'
  <2>1. \A h \in Grants : grant'[h].state = "none" => grant'[h].of = None
    <3>1. GrantsAre
      BY DEF CredInv
    <3>2. \A h \in Grants : grant[h].state = "none" => grant[h].of = None
      BY <3>1 DEF GrantsAre
    <3> QED
      BY <1>8, <3>2
  <2>2. \A c \in Creds : Live(c) => grant'[credential[c].grant].state \in {"live", "spent"}
    <3>1. \A c \in Creds : Live(c) => credential[c].grant \in Grants
      BY TypesAre DEF CredInv, RowsAre, CredentialRow
    <3> QED
      BY <1>8, <3>1 DEF CredInv, GrantsAre
  <2>3. ASSUME NEW z \in Procs, NEW h \in Held(z)'
        PROVE  /\ grant'[h].state \in {"live", "spent"}
               /\ \A c \in Creds : credential[c].grant # h
               /\ \A k \in DOMAIN jobs : jobs[k].grant # h
               /\ \A y \in Procs : h \in Held(y)' => y = z
    <3>1. CASE z = x
      BY <1>4, <1>6, <1>7, <2>3, <3>1
    <3>2. CASE z # x
      <4>1. h \in Held(z) /\ h # new /\ h \in Grants
        BY <1>4, <1>6, <2>3, <3>2, HoldingIs DEF CredInv
      <4>2. /\ grant[h].state \in {"live", "spent"} /\ \A c \in Creds : credential[c].grant # h
            /\ \A k \in DOMAIN jobs : jobs[k].grant # h
            /\ \A y \in Procs : h \in Held(y) => y = z
        BY <4>1 DEF CredInv, GrantsAre
      <4>3. grant'[h].state \in {"live", "spent"}
        BY <1>8, <4>1, <4>2
      <4> QED
        BY <1>4, <4>1, <4>2, <4>3
    <3> QED
      BY <3>1, <3>2
  <2>4. \A k \in DOMAIN jobs : /\ grant'[jobs[k].grant].state # "none"
                               /\ \A c \in Creds : credential[c].grant # jobs[k].grant
    <3>1. \A k \in DOMAIN jobs : jobs[k].grant \in Grants
      BY TypesAre DEF CredInv, JobRow
    <3> QED
      BY <1>8, <3>1 DEF CredInv, GrantsAre
  <2>5. \A d : Live(d)' <=> Live(d)
    BY DEF Live
  <2>6. \A c, d \in Creds : Live(c) /\ credential[d].grant = credential[c].grant => c = d
    BY DEF CredInv, GrantsAre
  <2> QED
    <3>1. \A c \in Creds : Live(c)' => grant'[credential'[c].grant].state \in {"live", "spent"}
      BY <2>2, <2>5
    <3>2. \A c, d \in Creds : Live(c)' /\ credential'[d].grant = credential'[c].grant => c = d
      BY <2>5, <2>6
    <3>3. \A z \in Procs : \A h \in Held(z)' :
            /\ grant'[h].state \in {"live", "spent"}
            /\ \A c \in Creds : credential'[c].grant # h
            /\ \A k \in DOMAIN jobs' : jobs'[k].grant # h
            /\ \A y \in Procs : h \in Held(y)' => y = z
      BY <2>3
    <3>4. \A k \in DOMAIN jobs' : /\ grant'[jobs'[k].grant].state # "none"
                                  /\ \A c \in Creds : credential'[c].grant # jobs'[k].grant
      BY <2>4
    <3> QED
      BY ONLY <2>1, <3>1, <3>2, <3>3, <3>4 DEF GrantsAre
<1>15. ASSUME RotationSpends PROVE OnceSpent' /\ NoGrantIsForgotten'
  <2>1. OnceSpent /\ NoGrantIsForgotten /\ grant[g].state = "live"
    BY <1>5, <1>15 DEF CredInv
  \* Whoever has a grant of this revision has spent the one it was asked with.
  <2>2. \A z \in Procs : Got(z) /\ proc[z].cred = proc[x].cred /\ proc[z].revision = proc[x].revision
          => FALSE
    <3> SUFFICES ASSUME NEW z \in Procs, Got(z), proc[z].cred = proc[x].cred,
                        proc[z].revision = proc[x].revision
                 PROVE  FALSE
      OBVIOUS
    <3>1. Renewing(z)
      BY DEF Got, Renewing
    <3>2. proc[z].grant = g /\ grant[proc[z].grant].state # "live"
      BY <1>1, <3>1 DEF CredInv, RenewalsAre
    <3> QED
      BY <2>1, <3>2
  <2>3. \A y, z \in Procs :
          Got(y)' /\ Got(z)' /\ proc'[y].cred = proc'[z].cred /\ proc'[y].revision = proc'[z].revision
            => y = z
    BY <1>2, <1>3, <1>4, <2>1, <2>2 DEF OnceSpent, RejectionTells
  <2>4. ASSUME NEW k \in DOMAIN jobs, k.reason = "renewal_rejected"
        PROVE  /\ credential[k.source[2]].revision = k.revision /\ credential[k.source[2]].grant # None
                    => grant'[credential[k.source[2]].grant].state # "live"
               /\ \A y \in Procs :
                    Renewing(y)' /\ proc'[y].cred = k.source[2] /\ proc'[y].revision = k.revision
                      => ~ Got(y)' /\ grant'[proc'[y].grant].state # "live"
    <3>1. k.source[2] \in Creds
      BY TypesAre, KeyIs DEF CredInv
    <3>2. credential[k.source[2]].grant \in Grants \cup {None} /\ credential[k.source[2]].grant # new
      BY <1>6, <3>1, TypesAre DEF CredInv, CredentialRow
    <3>3. credential[k.source[2]].revision = k.revision /\ credential[k.source[2]].grant # None
            => grant[credential[k.source[2]].grant].state # "live"
      BY <2>1, <2>4 DEF OnceSpent, RejectionTells
    <3>4. ASSUME NEW y \in Procs, Renewing(y)', proc'[y].cred = k.source[2], proc'[y].revision = k.revision
          PROVE  ~ Got(y)' /\ grant'[proc'[y].grant].state # "live"
      <4>1. /\ Renewing(y) /\ proc'[y].cred = proc[y].cred /\ proc'[y].revision = proc[y].revision
            /\ proc'[y].grant = proc[y].grant /\ proc[y].grant \in Grants /\ proc[y].grant # new
        <5>1. Renewing(y)
          BY <1>1, <1>4, <3>4
        <5> QED
          BY <1>2, <1>3, <1>6, <5>1, RenewingIs
      <4>2. ~ Got(y) /\ grant[proc[y].grant].state # "live"
        BY <2>1, <2>4, <3>4, <4>1 DEF OnceSpent, RejectionTells
      <4>3. y # x
        BY <2>1, <4>2
      <4>4. grant'[proc[y].grant].state # "live"
        BY <1>8, <4>1, <4>2
      <4>5. ~ Got(y)'
        BY <1>4, <4>2, <4>3
      <4> QED
        BY <4>1, <4>4, <4>5
    <3> QED
      BY <1>8, <3>2, <3>3, <3>4
  <2>5. NoGrantIsForgotten'
    <3> SUFFICES ASSUME NEW h \in Grants, grant'[h].state = "live"
                 PROVE  \/ \E c \in Creds : Live(c) /\ credential[c].grant = h
                        \/ \E z \in Procs : h \in Held(z)'
                        \/ \E k \in DOMAIN jobs : jobs[k].grant = h /\ jobs[k].status # "succeeded"
                        \/ h \in lost
      BY DEF NoGrantIsForgotten, Live
    <3>1. CASE h = new
      BY <1>4, <3>1
    <3>2. CASE h # new
      <4>1. grant[h].state = "live"
        BY <1>8, <3>2
      <4>2. \A z \in Procs : h \in Held(z) => h \in Held(z)'
        BY <1>1, <1>4, HoldingIs DEF CredInv
      <4> QED
        BY <2>1, <4>1, <4>2 DEF NoGrantIsForgotten
    <3> QED
      BY <3>1, <3>2
  <2> QED
    BY <2>3, <2>4, <2>5 DEF OnceSpent, RejectionTells
<1> QED
  BY <1>3, <1>9, <1>10, <1>11, <1>12, <1>13, <1>14, <1>15 DEF CredInv

LEMMA RefreshHolds ==
  ASSUME CredInv, NEW x \in Procs, Refresh(x)
  PROVE  CredInv' /\ Fenced
<1>1. /\ UNCHANGED <<provider, credential, attempt, jobs, lost, faults>>
      /\ proc[x].pc = "refresh"
  BY DEF Refresh
<1>2. ASSUME NEW result \in {"ready", "reauthorize", "failed"}, UNCHANGED grant,
             proc' = [proc EXCEPT ![x] = [pc |-> "answered", cred |-> @.cred,
                        revision |-> @.revision, epoch |-> @.epoch, grant |-> proc[x].grant,
                        result |-> result, new |-> None]]
      PROVE  CredInv' /\ Fenced
  <2> DEFINE r == [pc |-> "answered", cred |-> proc[x].cred, revision |-> proc[x].revision,
                   epoch |-> proc[x].epoch, grant |-> proc[x].grant, result |-> result, new |-> None]
  <2>1. /\ r \in ProcStates /\ Renewing(x) /\ r.pc = "answered" /\ r.cred = proc[x].cred
        /\ r.revision = proc[x].revision /\ r.grant = proc[x].grant /\ r.new = None /\ r.result = result
    <3>1. proc[x] \in ProcStates /\ Renewing(x)
      BY <1>1 DEF CredInv, Renewing
    <3>2. proc[x].epoch \in Nat
      BY <1>1, <3>1, StateIs
    <3>3. proc[x].cred \in Creds /\ proc[x].revision \in Nat \ {0} /\ proc[x].grant \in Grants
      BY <3>1, RenewingIs
    <3>4. "answered" \in {"answered", "reject"} /\ None \in Grants \cup {None}
          /\ result \in {"ready", "rejected", "reauthorize", "failed"}
      OBVIOUS
    <3>5. r \in ProcStates
      BY <3>2, <3>3, <3>4, StatesMade
    <3> QED
      BY <3>1, <3>5
  <2>2. /\ proc' \in [Procs -> ProcStates] /\ proc'[x] = r
        /\ \A z \in Procs : z # x => proc'[z] = proc[z]
    BY <1>2, <2>1, OneMoves
  <2> HIDE DEF r
  <2>3. ProcsKnow'
    <3>1. Knows(x)'
      BY <1>2, <2>1, <2>2 DEF Knows, OnAttempt
    <3> QED
      BY <1>1, <2>2, <3>1, OthersKnow
  <2>4. RenewalsCarryOn /\ PollsCarryOn /\ \A z \in Procs : z # x => Held(z)' = Held(z)
    BY <2>1, <2>2 DEF RenewalsCarryOn, PollsCarryOn, Got, Granted, OnRow, Renewing, Held
  <2>5. PlacesStand
    <3>1. Held(x) = {}
      BY <1>1, EmptyHanded
    <3> QED
      BY <1>1, <2>4, <3>1, NothingDropped
  <2>6. TypeOK'
    BY <1>1, <1>2, TypesAre, TypesNext DEF CredInv
  <2>7. /\ AttemptsStand /\ RowsStand /\ PointersStand /\ GrantsStand /\ JobsStand
        /\ RevocationIsReportedTruly'
    BY <1>1, <1>2, Unmoved
  <2> QED
    BY <2>2, <2>3, <2>4, <2>5, <2>6, <2>7, CalmHolds
<1> QED
  BY <1>1, <1>2, RotateHolds DEF Refresh

\* What a renewal knows while its row is still of the revision it read.
LEMMA OwnRow ==
  ASSUME CredInv, NEW x \in Procs, Renewing(x), credential[proc[x].cred].status = "connected",
         credential[proc[x].cred].revision = proc[x].revision
  PROVE  LET c == proc[x].cred IN
         /\ c \in Creds /\ Live(c) /\ credential[c].grant = proc[x].grant /\ proc[x].grant \in Grants
         /\ credential[c].provider \in Providers
         /\ provider[credential[c].provider].credential = c
         /\ credential[c] \in CredentialRow
<1> DEFINE c == proc[x].cred
<1>1. c \in Creds /\ proc[x].grant \in Grants /\ OnRow(x)
  BY RenewingIs
<1>2. Live(c)
  BY DEF Live
<1>3. credential[c] \in CredentialRow
  BY <1>1, TypesAre DEF CredInv
<1> QED
  BY <1>1, <1>2, <1>3 DEF CredInv, RenewalsAre

\* A new bundle is written by the request that still holds the row.
LEMMA PersistOwnHolds ==
  ASSUME CredInv, NEW x \in Procs, NEW c \in Creds, NEW new, NEW held, NEW row \in CredentialRow,
         proc[x].pc = "answered", c = proc[x].cred, new = proc[x].new, Renewing(x), Live(c),
         credential[c].status = "connected", credential[c].grant = proc[x].grant,
         credential[c].revision = proc[x].revision, proc[x].grant \in Grants,
         credential[c].provider \in Providers, provider[credential[c].provider].credential = c,
         held = (IF new = None THEN credential[c].grant ELSE new),
         row.provider = credential[c].provider, row.account = credential[c].account,
         row.revision = credential[c].revision + 1, row.grant = held,
         row.revocation = credential[c].revocation, row.status = "connected",
         row.epoch = credential[c].epoch, row.lease = None,
         credential' = [credential EXCEPT ![c] = row], proc' = [proc EXCEPT ![x] = Idle],
         UNCHANGED <<provider, attempt, jobs, grant, lost, faults>>
  PROVE  CredInv' /\ Fenced
<1>1. /\ (Got(x) <=> new # None) /\ credential[c] \in CredentialRow
      /\ credential[c].revision \in Nat /\ credential[c].revision # 0
  BY TypesAre DEF CredInv, CredentialRow, RowsAre, Got
<1>2. Got(x) => /\ new \in Grants /\ Held(x) = {new} /\ grant[new].of = grant[proc[x].grant].of
                /\ grant[proc[x].grant].state # "live" /\ grant[new].state \in {"live", "spent"}
                /\ \A d \in Creds : credential[d].grant # new
                /\ \A k \in DOMAIN jobs : jobs[k].grant # new
                /\ \A z \in Procs : z # x => new \notin Held(z)
  <2> SUFFICES ASSUME Got(x)
               PROVE  /\ new \in Grants /\ Held(x) = {new} /\ grant[new].of = grant[proc[x].grant].of
                      /\ grant[proc[x].grant].state # "live" /\ grant[new].state \in {"live", "spent"}
                      /\ \A d \in Creds : credential[d].grant # new
                      /\ \A k \in DOMAIN jobs : jobs[k].grant # new
                      /\ \A z \in Procs : z # x => new \notin Held(z)
    OBVIOUS
  <2>1. new \in Grants /\ Held(x) = {new}
    BY HoldingIs DEF CredInv
  <2> QED
    BY <2>1 DEF CredInv, RenewalsAre, GrantsAre
<1>3. held \in Grants /\ (~ Got(x) => held = credential[c].grant /\ Held(x) = {})
  <2>1. ~ Granted(x)
    BY DEF Granted
  <2> QED
    BY <1>1, <1>2, <2>1, HoldingIs DEF CredInv
<1>5. /\ credential' \in [Creds -> CredentialRow] /\ credential'[c] = row
      /\ \A d \in Creds : d # c => credential'[d] = credential[d]
  BY TypesAre DEF CredInv
<1>6. /\ AttemptsStand /\ JobsStand /\ GrantsStand
  BY Unmoved
<1>7. /\ proc' \in [Procs -> ProcStates] /\ ProcsKnow' /\ RenewalsCarryOn /\ PollsCarryOn
      /\ \A z \in Procs : z # x => proc'[z] = proc[z] /\ Held(z)' = Held(z)
      /\ ~ Got(x)' /\ ~ Granted(x)' /\ ~ Renewing(x)'
  BY <1>6, Goes, StatesMade DEF Idle
<1>8. \A d \in Creds : /\ (Live(d)' <=> Live(d))
                       /\ credential'[d].provider = credential[d].provider
                       /\ credential'[d].account = credential[d].account
                       /\ credential'[d].status = credential[d].status
                       /\ credential'[d].revocation = credential[d].revocation
                       /\ credential[d].revision \in Nat
                       /\ credential[d].revision <= credential'[d].revision
                       /\ d # c => credential'[d] = credential[d]
  <2> SUFFICES ASSUME NEW d \in Creds
               PROVE  /\ credential'[d].provider = credential[d].provider
                      /\ credential'[d].account = credential[d].account
                      /\ credential'[d].status = credential[d].status
                      /\ credential'[d].revocation = credential[d].revocation
                      /\ credential[d].revision \in Nat
                      /\ credential[d].revision <= credential'[d].revision
                      /\ d # c => credential'[d] = credential[d]
    BY DEF Live
  <2>1. credential[d].revision \in Nat
    BY TypesAre DEF CredInv, CredentialRow
  <2>2. CASE d # c
    BY <1>5, <2>1, <2>2
  <2>3. CASE d = c
    BY <1>1, <1>5, <2>3
  <2> QED
    BY <2>2, <2>3
<1>9. TypeOK' /\ AttemptsAre' /\ RowsAre'
  <2>1. TypeOK'
    BY <1>5, TypesAre, TypesNext DEF CredInv
  <2>2. \A a \in Attempts : credential[a] = NoCredential => credential'[a] = NoCredential
    <3>1. credential[c] # NoCredential
      BY DEF NoCredential
    <3> QED
      BY <1>5, <3>1, Constants
  <2>3. RowsAre'
    <3>1. held # None /\ credential[c].revision + 1 # 0
      BY <1>1, <1>3, Constants DEF CredentialRow
    <3> QED
      BY <1>1, <1>5, <1>8, <3>1 DEF CredInv, RowsAre, Live
  <2> QED
    BY <1>6, <2>1, <2>2, <2>3, AttemptsKept
<1>10. PointerNamesTheAccount'
  <2>1. \A p \in Providers : provider[p].credential \in Creds \cup {None}
    BY TypesAre DEF CredInv, ProviderRow
  <2>2. ASSUME NEW p \in Providers, provider'[p].credential # None
        PROVE  Live(provider[p].credential)' /\ credential'[provider'[p].credential].provider = p
    <3>1. provider[p].credential \in Creds /\ Live(provider[p].credential)
          /\ credential[provider[p].credential].provider = p /\ provider' = provider
      BY <2>1, <2>2 DEF CredInv, PointerNamesTheAccount
    <3> QED
      BY <1>8, <3>1 DEF Live
  <2>3. ASSUME NEW d \in Creds, Live(d)'
        PROVE  /\ \/ provider'[credential'[d].provider].credential = d
                  \/ Orphans /\ d = 0 /\ credential'[d].revision = 1
               /\ provider'[credential'[d].provider].status # "deleted"
    BY <1>1, <1>8, <2>3 DEF CredInv, PointerNamesTheAccount, Live
  <2>4. \A d, e \in Creds : Live(d)' /\ Live(e)' /\ d # e => credential'[d].account # credential'[e].account
    BY <1>8 DEF CredInv, PointerNamesTheAccount, Live
  <2> QED
    BY <2>2, <2>3, <2>4 DEF PointerNamesTheAccount
<1>11. RevocationIsReportedTruly'
  <2>1. \A k \in DOMAIN jobs : k.source[2] \in Creds
    BY TypesAre, KeyIs DEF CredInv
  <2> QED
    BY <1>8, <2>1 DEF CredInv, RevocationIsReportedTruly
<1>12. PollsAre'
  BY <1>7, PollsKept
<1>13. KeysAre'
  <2> SUFFICES ASSUME NEW k \in DOMAIN jobs
               PROVE
      /\ (k.source[1] = "attempt" <=> k.reason = "activation_rejected")
      /\ k.reason \in {"disconnect", "replacement"} =>
           k.revision < credential'[k.source[2]].revision
      /\ k.reason = "disconnect" =>
           /\ credential'[k.source[2]].status = "disconnected"
           /\ credential'[k.source[2]].revision = k.revision + 1
      /\ k.reason = "renewal_rejected" => k.revision <= credential'[k.source[2]].revision
      /\ k.reason = "activation_rejected" =>
           /\ \E h \in Grants : grant[h].of = k.source[2]
           /\ \A z \in Procs : Granted(z)' => proc'[z].at # k.source[2]
    BY DEF KeysAre, KeyTells
  <2>1. k.source[2] \in Creds /\ k.revision \in Nat
    BY TypesAre, KeyIs DEF CredInv
  <2>2. /\ credential[k.source[2]].revision <= credential'[k.source[2]].revision
        /\ credential'[k.source[2]].status = credential[k.source[2]].status
        /\ credential[k.source[2]].revision \in Nat /\ credential'[k.source[2]].revision \in Nat
        /\ k.reason = "disconnect" => credential'[k.source[2]] = credential[k.source[2]]
    <3>1. k.reason = "disconnect" => k.source[2] # c
      BY DEF CredInv, KeysAre, KeyTells
    <3>2. /\ credential[k.source[2]] \in CredentialRow /\ credential'[k.source[2]] \in CredentialRow
      BY <1>5, <2>1, TypesAre DEF CredInv
    <3> QED
      BY <1>8, <2>1, <3>1, <3>2 DEF CredentialRow
  <2> QED
    BY <1>7, <2>1, <2>2 DEF CredInv, KeysAre, KeyTells, PollsCarryOn
<1>14. RenewalsAre'
  <2>1. ASSUME NEW z \in Procs, OnRow(z)'
        PROVE  /\ credential'[proc'[z].cred].provider \in Providers
               /\ Live(proc[z].cred)' =>
                    provider[credential'[proc'[z].cred].provider].credential = proc'[z].cred
    <3>1. OnRow(z) /\ proc'[z].cred = proc[z].cred
      BY <1>7, <2>1 DEF RenewalsCarryOn
    <3>2. proc[z].cred \in Creds
      BY <3>1, StateIs DEF CredInv, OnRow, Renewing
    <3>3. /\ credential[proc[z].cred].provider \in Providers
          /\ Live(proc[z].cred) =>
               provider[credential[proc[z].cred].provider].credential = proc[z].cred
      BY <3>1 DEF CredInv, RenewalsAre
    <3>4. /\ Live(proc[z].cred)' => Live(proc[z].cred)
          /\ credential'[proc[z].cred].provider = credential[proc[z].cred].provider
      BY <1>8, <3>1, <3>2 DEF Live
    <3> QED
      BY <3>1, <3>3, <3>4
  <2>2. ASSUME NEW z \in Procs, Renewing(z)'
        PROVE  /\ proc'[z].revision <= credential'[proc'[z].cred].revision
               /\ proc'[z].revision = credential'[proc'[z].cred].revision =>
                    proc'[z].grant = credential'[proc'[z].cred].grant
               /\ grant[proc'[z].grant].state # "none"
               /\ \A y \in Procs :
                    Renewing(y)' /\ proc'[y].cred = proc'[z].cred
                    /\ proc'[y].revision = proc'[z].revision => proc'[y].grant = proc'[z].grant
    <3>1. /\ Renewing(z) /\ proc'[z] = proc[z] /\ proc[z].cred \in Creds /\ proc[z].revision \in Nat
      BY <1>7, <2>2, RenewingIs DEF RenewalsCarryOn
    <3>2. /\ proc[z].revision <= credential[proc[z].cred].revision
          /\ proc[z].revision = credential[proc[z].cred].revision =>
               proc[z].grant = credential[proc[z].cred].grant
          /\ grant[proc[z].grant].state # "none"
          /\ \A y \in Procs :
               Renewing(y) /\ proc[y].cred = proc[z].cred /\ proc[y].revision = proc[z].revision
                 => proc[y].grant = proc[z].grant
      BY <3>1 DEF CredInv, RenewalsAre
    <3>3. /\ credential[proc[z].cred].revision \in Nat
          /\ proc[z].cred = c => credential'[proc[z].cred].revision = credential[proc[z].cred].revision + 1
          /\ proc[z].cred # c => credential'[proc[z].cred] = credential[proc[z].cred]
      BY <1>5, <3>1, TypesAre DEF CredInv, CredentialRow
    <3>4. \A y \in Procs : Renewing(y)' => Renewing(y) /\ proc'[y] = proc[y]
      BY <1>7 DEF RenewalsCarryOn
    <3>5. /\ proc[z].revision <= credential'[proc[z].cred].revision
          /\ proc[z].revision = credential'[proc[z].cred].revision =>
               proc[z].grant = credential'[proc[z].cred].grant
      BY <3>1, <3>2, <3>3
    <3> QED
      BY <3>1, <3>2, <3>4, <3>5
  <2>3. ASSUME NEW z \in Procs, Got(z)'
        PROVE  /\ grant[proc'[z].grant].state # "live"
               /\ grant[proc'[z].new].of = grant[proc'[z].grant].of
    <3>1. Got(z) /\ proc'[z] = proc[z]
      BY <1>7, <2>3 DEF RenewalsCarryOn
    <3> QED
      BY <3>1 DEF CredInv, RenewalsAre
  <2> SUFFICES ASSUME NEW z \in Procs
               PROVE  /\ OnRow(z)' =>
                           /\ credential'[proc'[z].cred].provider \in Providers
                           /\ Live(proc[z].cred)' =>
                                provider'[credential'[proc'[z].cred].provider].credential = proc'[z].cred
                      /\ Renewing(z)' =>
                           /\ proc'[z].revision <= credential'[proc'[z].cred].revision
                           /\ proc'[z].revision = credential'[proc'[z].cred].revision =>
                                proc'[z].grant = credential'[proc'[z].cred].grant
                           /\ grant'[proc'[z].grant].state # "none"
                           /\ \A y \in Procs :
                                Renewing(y)' /\ proc'[y].cred = proc'[z].cred
                                /\ proc'[y].revision = proc'[z].revision =>
                                  proc'[y].grant = proc'[z].grant
                      /\ Got(z)' => /\ grant'[proc'[z].grant].state # "live"
                                    /\ grant'[proc'[z].new].of = grant'[proc'[z].grant].of
    BY DEF RenewalsAre
  <2> QED
    BY <2>1, <2>2, <2>3
<1>15. GrantsAre'
  <2>1. \A d \in Creds : d = c \/ credential'[d].grant = credential[d].grant
    BY <1>8
  <2>2. credential'[c].grant = held
    BY <1>5
  <2>3. grant[held].state \in {"live", "spent"} /\ \A k \in DOMAIN jobs : jobs[k].grant # held
    <3>1. CASE Got(x)
      BY <1>1, <1>2, <3>1
    <3>2. CASE ~ Got(x)
      BY <1>1, <1>3, <3>2 DEF CredInv, GrantsAre
    <3> QED
      BY <3>1, <3>2
  <2>4. \A d \in Creds : credential[d].grant = held => d = c
    <3>1. CASE Got(x)
      BY <1>1, <1>2, <3>1
    <3>2. CASE ~ Got(x)
      BY <1>1, <1>3, <3>2 DEF CredInv, GrantsAre
    <3> QED
      BY <3>1, <3>2
  <2>5. \A d \in Creds : Live(d)' => grant[credential'[d].grant].state \in {"live", "spent"}
    BY <1>8, <2>1, <2>2, <2>3 DEF CredInv, GrantsAre
  <2>6. \A d, e \in Creds : Live(d)' /\ credential'[e].grant = credential'[d].grant => d = e
    BY <1>8, <2>1, <2>2, <2>4 DEF CredInv, GrantsAre, Live
  <2>7. ASSUME NEW z \in Procs, NEW h \in Held(z)'
        PROVE  /\ grant[h].state \in {"live", "spent"}
               /\ \A d \in Creds : credential'[d].grant # h
               /\ \A k \in DOMAIN jobs : jobs[k].grant # h
               /\ \A y \in Procs : h \in Held(y)' => y = z
    <3>1. Held(x)' = {}
      BY DEF Held, Idle, CredInv
    <3>2. z # x /\ h \in Held(z)
      BY <1>7, <2>7, <3>1
    <3>3. /\ grant[h].state \in {"live", "spent"} /\ \A d \in Creds : credential[d].grant # h
          /\ \A k \in DOMAIN jobs : jobs[k].grant # h
          /\ \A y \in Procs : h \in Held(y) => y = z
      BY <3>2 DEF CredInv, GrantsAre
    <3>4. h # held
      BY <1>1, <1>2, <1>3, <3>2, <3>3
    <3> QED
      BY <1>7, <2>1, <2>2, <3>1, <3>3, <3>4
  <2>8. \A k \in DOMAIN jobs : \A d \in Creds : credential'[d].grant # jobs[k].grant
    BY <2>1, <2>2, <2>3 DEF CredInv, GrantsAre
  <2>9. /\ \A k \in DOMAIN jobs : grant[jobs[k].grant].state # "none"
        /\ \A g \in Grants : grant[g].state = "none" => grant[g].of = None
    BY DEF CredInv, GrantsAre
  <2> QED
    <3>1. \A z \in Procs : \A h \in Held(z)' :
            /\ grant'[h].state \in {"live", "spent"}
            /\ \A d \in Creds : credential'[d].grant # h
            /\ \A k \in DOMAIN jobs' : jobs'[k].grant # h
            /\ \A y \in Procs : h \in Held(y)' => y = z
      BY <2>7
    <3>2. \A k \in DOMAIN jobs' : /\ grant'[jobs'[k].grant].state # "none"
                                  /\ \A d \in Creds : credential'[d].grant # jobs'[k].grant
      BY <2>8, <2>9
    <3>3. /\ \A h \in Grants : grant'[h].state = "none" => grant'[h].of = None
          /\ \A d \in Creds : Live(d)' => grant'[credential'[d].grant].state \in {"live", "spent"}
      BY <2>5, <2>9
    <3> QED
      BY ONLY <2>6, <3>1, <3>2, <3>3 DEF GrantsAre
<1>16. ASSUME RotationSpends PROVE OnceSpent' /\ NoGrantIsForgotten'
  <2>1. OnceSpent /\ NoGrantIsForgotten
    BY <1>16 DEF CredInv
  <2>2. \A y, z \in Procs :
          Got(y)' /\ Got(z)' /\ proc'[y].cred = proc'[z].cred /\ proc'[y].revision = proc'[z].revision
            => y = z
    BY <1>7, <2>1 DEF OnceSpent, RejectionTells, RenewalsCarryOn
  <2>3. ASSUME NEW k \in DOMAIN jobs, k.reason = "renewal_rejected"
        PROVE  /\ credential'[k.source[2]].revision = k.revision /\ credential'[k.source[2]].grant # None
                    => grant[credential'[k.source[2]].grant].state # "live"
               /\ \A y \in Procs :
                    Renewing(y)' /\ proc'[y].cred = k.source[2] /\ proc'[y].revision = k.revision
                      => ~ Got(y)' /\ grant[proc'[y].grant].state # "live"
    <3>1. k.source[2] \in Creds /\ k.revision \in Nat
      BY TypesAre, KeyIs DEF CredInv
    \* The key names a revision that is over.
    <3>2. k.source[2] = c => credential'[k.source[2]].revision # k.revision
      <4>1. k.revision <= credential[k.source[2]].revision
        BY <2>3 DEF CredInv, KeysAre, KeyTells
      <4>2. credential[c].revision \in Nat /\ credential'[c].revision = credential[c].revision + 1
        BY <1>1, <1>5 DEF CredentialRow
      <4> QED
        BY <3>1, <4>1, <4>2
    <3>3. \A y \in Procs : Renewing(y)' => /\ Renewing(y) /\ proc'[y] = proc[y]
                                           /\ Got(y)' => Got(y)
      BY <1>7 DEF RenewalsCarryOn
    <3> QED
      <4>1. /\ credential[k.source[2]].revision = k.revision /\ credential[k.source[2]].grant # None
                 => grant[credential[k.source[2]].grant].state # "live"
            /\ \A y \in Procs :
                 Renewing(y) /\ proc[y].cred = k.source[2] /\ proc[y].revision = k.revision
                   => ~ Got(y) /\ grant[proc[y].grant].state # "live"
        BY <2>1, <2>3 DEF OnceSpent, RejectionTells
      <4>2. credential'[k.source[2]].revision = k.revision => credential'[k.source[2]] = credential[k.source[2]]
        BY <1>8, <3>1, <3>2
      <4> QED
        BY <3>3, <4>1, <4>2
  <2>4. NoGrantIsForgotten'
    <3> SUFFICES ASSUME NEW h \in Grants, grant[h].state = "live"
                 PROVE  \/ \E d \in Creds : Live(d)' /\ credential'[d].grant = h
                        \/ \E z \in Procs : h \in Held(z)'
                        \/ \E k \in DOMAIN jobs : jobs[k].grant = h /\ jobs[k].status # "succeeded"
                        \/ h \in lost
      BY DEF NoGrantIsForgotten
    <3>1. CASE \E d \in Creds : Live(d) /\ credential[d].grant = h
      <4>1. PICK d \in Creds : Live(d) /\ credential[d].grant = h
        BY <3>1
      <4>2. d = c => ~ Got(x)
        BY <1>1, <1>2, <4>1
      <4>3. credential'[d].grant = h
        BY <1>3, <1>5, <4>1, <4>2
      <4> QED
        BY <1>8, <4>1, <4>3
    <3>2. CASE \E z \in Procs : h \in Held(z)
      <4>1. PICK z \in Procs : h \in Held(z)
        BY <3>2
      <4>2. CASE z = x
        <5>1. Got(x) /\ h = new /\ held = new
          BY <1>1, <1>2, <1>3, <4>1, <4>2
        <5> QED
          BY <1>1, <1>5, <1>8, <5>1
      <4>3. CASE z # x
        BY <1>7, <4>1, <4>3
      <4> QED
        BY <4>2, <4>3
    <3> QED
      BY <2>1, <3>1, <3>2 DEF NoGrantIsForgotten
  <2> QED
    BY <2>2, <2>3, <2>4 DEF OnceSpent, RejectionTells
<1>17. Fenced
  <2>1. ASSUME NEW d \in Creds, Live(d) PROVE Login(d)' = Login(d)
    <3>1. CASE d # c
      BY <1>8, <3>1 DEF Login
    <3>2. CASE d = c
      <4>1. grant[held].of = grant[credential[c].grant].of
        BY <1>1, <1>2, <1>3
      <4>2. Login(c) = {grant[credential[c].grant].of}
        BY <1>1 DEF Login
      <4>3. Login(c)' = {grant[held].of}
        BY <1>3, <1>5 DEF Login
      <4> QED
        BY <3>2, <4>1, <4>2, <4>3
    <3> QED
      BY <3>1, <3>2
  <2>2. ASSUME NEW d \in Creds, credential[d].status = "disconnected"
        PROVE  credential'[d].status = "disconnected" /\ credential'[d].grant = None
    BY <1>8, <2>2 DEF CredInv, RowsAre, Live
  <2> QED
    BY <2>1, <2>2 DEF Fenced
<1> QED
  BY <1>7, <1>9, <1>10, <1>11, <1>12, <1>13, <1>14, <1>15, <1>16, <1>17 DEF CredInv

LEMMA PersistHolds ==
  ASSUME CredInv, NEW x \in Procs, Persist(x)
  PROVE  CredInv' /\ Fenced
<1> DEFINE c == proc[x].cred
           own == Holds(x) /\ credential[c].status = "connected"
           r == [proc[x] EXCEPT !.pc = "reject"]
<1>1. /\ UNCHANGED <<provider, attempt, jobs, grant, lost, faults>>
      /\ proc[x].pc = "answered" /\ proc[x] \in ProcStates
  BY DEF Persist, CredInv
<1>2. CASE own
  <2> DEFINE new == proc[x].new
             held == IF new = None THEN credential[c].grant ELSE new
             row == [credential[c] EXCEPT !.revision = @ + 1, !.lease = None, !.late = FALSE,
                                          !.grant = held]
  <2>1. proc' = [proc EXCEPT ![x] = Idle] /\ credential' = [credential EXCEPT ![c] = row]
    BY <1>2 DEF Persist
  <2>2. /\ Renewing(x) /\ credential[c].revision = proc[x].revision
        /\ credential[c].status = "connected"
    BY <1>1, <1>2 DEF Renewing, Holds, Unchanged
  <2>3. /\ c \in Creds /\ Live(c) /\ credential[c].grant = proc[x].grant /\ proc[x].grant \in Grants
        /\ credential[c].provider \in Providers
        /\ provider[credential[c].provider].credential = c
        /\ credential[c] \in CredentialRow
    BY <2>2, OwnRow
  <2>4. held \in Grants \cup {None} /\ credential[c].revision + 1 \in Nat
    BY <1>1, <2>3, StateIs DEF CredentialRow
  <2> HIDE DEF held
  <2>5. /\ row \in CredentialRow /\ row.provider = credential[c].provider
        /\ row.account = credential[c].account /\ row.revision = credential[c].revision + 1
        /\ row.grant = held /\ row.revocation = credential[c].revocation
        /\ row.status = "connected" /\ row.epoch = credential[c].epoch /\ row.lease = None
    BY <2>2, <2>3, <2>4 DEF CredentialRow
  <2>6. held = (IF new = None THEN credential[c].grant ELSE new)
    BY DEF held
  <2> HIDE DEF row
  <2> QED
    BY <1>1, <2>1, <2>2, <2>3, <2>5, <2>6, PersistOwnHolds
<1>3. CASE ~ own
  <2>1. UNCHANGED credential
    BY <1>3 DEF Persist
  <2>2. /\ AttemptsStand /\ RowsStand /\ PointersStand /\ GrantsStand /\ JobsStand
        /\ RevocationIsReportedTruly'
    BY <1>1, <2>1, Unmoved
  <2>3. TypeOK'
    BY <1>1, <2>1, TypesAre, TypesNext DEF CredInv
  <2>4. CASE proc[x].new = None
    <3>1. proc' = [proc EXCEPT ![x] = Idle]
      BY <2>4 DEF Persist
    <3>2. /\ proc' \in [Procs -> ProcStates] /\ ProcsKnow' /\ RenewalsCarryOn /\ PollsCarryOn
          /\ \A z \in Procs : z # x => Held(z)' = Held(z)
      BY <1>1, <2>2, <3>1, Goes, StatesMade DEF Idle
    <3>3. PlacesStand
      <4>1. Held(x) = {}
        BY <1>1, <2>4, EmptyHanded
      <4> QED
        BY <1>1, <3>2, <4>1, NothingDropped
    <3> QED
      BY <2>2, <2>3, <3>2, <3>3, CalmHolds
  <2>5. CASE proc[x].new # None
    <3>1. proc' = [proc EXCEPT ![x] = r]
      BY <1>3, <2>5 DEF Persist
    <3>2. /\ r \in ProcStates /\ r.pc = "reject" /\ r.cred = proc[x].cred
          /\ r.revision = proc[x].revision /\ r.grant = proc[x].grant /\ r.new = proc[x].new
      <4>1. proc[x] \in [pc : {"answered", "reject"}, cred : Creds, revision : Nat \ {0}, epoch : Nat,
                         grant : Grants, result : {"ready", "rejected", "reauthorize", "failed"},
                         new : Grants \cup {None}]
        BY <1>1 DEF ProcStates, Idle
      <4>2. r \in [pc : {"answered", "reject"}, cred : Creds, revision : Nat \ {0}, epoch : Nat,
                   grant : Grants, result : {"ready", "rejected", "reauthorize", "failed"},
                   new : Grants \cup {None}]
        BY <4>1
      <4>3. r \in ProcStates
        BY <4>2 DEF ProcStates
      <4> QED
        BY <4>1, <4>3
    <3> HIDE DEF r
    <3>3. /\ proc' \in [Procs -> ProcStates] /\ proc'[x] = r
          /\ \A z \in Procs : z # x => proc'[z] = proc[z]
      BY <3>1, <3>2, OneMoves
    <3>4. ProcsKnow'
      <4>1. Knows(x)'
        BY <2>5, <3>2, <3>3 DEF Knows, OnAttempt
      <4> QED
        BY <1>1, <3>3, <4>1, OthersKnow
    <3>5. RenewalsCarryOn /\ PollsCarryOn /\ \A z \in Procs : Held(z)' = Held(z)
      BY <1>1, <3>2, <3>3 DEF RenewalsCarryOn, PollsCarryOn, Got, Granted, OnRow, Renewing, Held
    <3>6. PlacesStand
      BY <1>1, <3>5, NothingDropped
    <3> QED
      BY <2>2, <2>3, <3>3, <3>4, <3>5, <3>6, CalmHolds
  <2> QED
    BY <2>4, <2>5
<1> QED
  BY <1>2, <1>3

-----------------------------------------------------------------------------
(* Grants that are handed to the outbox. *)

\* A request hands the grant it holds to a new job.
LEMMA HandedOver ==
  ASSUME CredInv, NEW x \in Procs, NEW k \in Keys, NEW j \in JobRow, jobs' = Enqueued(k, j),
         Held(x) = {j.grant}, Held(x)' = {}, \A z \in Procs : z # x => Held(z)' = Held(z),
         UNCHANGED <<credential, grant, lost>>
  PROVE  /\ GrantsAre'
         /\ NoGrantIsForgotten /\ k \notin DOMAIN jobs /\ j.status = "pending" => NoGrantIsForgotten'
<1>1. /\ DOMAIN jobs' = DOMAIN jobs \cup {k}
      /\ \A q \in DOMAIN jobs : jobs'[q] = jobs[q]
      /\ k \notin DOMAIN jobs => jobs'[k] = j
  BY EnqueuedIs
<1>2. /\ grant[j.grant].state \in {"live", "spent"}
      /\ \A c \in Creds : credential[c].grant # j.grant
      /\ \A z \in Procs : z # x => j.grant \notin Held(z)
  BY DEF CredInv, GrantsAre
<1>3. \A q \in DOMAIN jobs' : jobs'[q].grant = j.grant \/ (q \in DOMAIN jobs /\ jobs'[q] = jobs[q])
  BY <1>1
<1>4. \A d \in Creds : Live(d)' <=> Live(d)
  BY DEF Live
<1>5. GrantsAre'
  <2>1. ASSUME NEW z \in Procs, NEW h \in Held(z)'
        PROVE  /\ grant[h].state \in {"live", "spent"}
               /\ \A c \in Creds : credential[c].grant # h
               /\ \A q \in DOMAIN jobs' : jobs'[q].grant # h
               /\ \A y \in Procs : h \in Held(y)' => y = z
    <3>1. z # x /\ h \in Held(z)
      BY <2>1
    <3>2. /\ grant[h].state \in {"live", "spent"} /\ \A c \in Creds : credential[c].grant # h
          /\ \A q \in DOMAIN jobs : jobs[q].grant # h
          /\ \A y \in Procs : h \in Held(y) => y = z
      BY <3>1 DEF CredInv, GrantsAre
    <3>3. h # j.grant
      BY <1>2, <3>1
    <3> QED
      BY <1>3, <3>1, <3>2, <3>3
  <2>2. ASSUME NEW q \in DOMAIN jobs'
        PROVE  /\ grant[jobs'[q].grant].state # "none"
               /\ \A c \in Creds : credential[c].grant # jobs'[q].grant
    BY <1>2, <1>3 DEF CredInv, GrantsAre
  <2> QED
    BY <1>4, <2>1, <2>2 DEF CredInv, GrantsAre
<1>6. ASSUME NoGrantIsForgotten, k \notin DOMAIN jobs, j.status = "pending" PROVE NoGrantIsForgotten'
  <2> SUFFICES ASSUME NEW g \in Grants, grant[g].state = "live"
               PROVE  \/ \E c \in Creds : Live(c)' /\ credential[c].grant = g
                      \/ \E z \in Procs : g \in Held(z)'
                      \/ \E q \in DOMAIN jobs' : jobs'[q].grant = g /\ jobs'[q].status # "succeeded"
                      \/ g \in lost
    BY DEF NoGrantIsForgotten
  <2>1. CASE \E z \in Procs : g \in Held(z)
    BY <1>1, <1>6, <2>1
  <2>2. CASE \E q \in DOMAIN jobs : jobs[q].grant = g /\ jobs[q].status # "succeeded"
    BY <1>1, <2>2
  <2> QED
    BY <1>4, <1>6, <2>1, <2>2 DEF NoGrantIsForgotten
<1> QED
  BY <1>5, <1>6

\* A renewal gives up the grant it got: one job at most is of its revision.
LEMMA RejectRenewalHolds ==
  ASSUME CredInv, NEW x \in Procs, RejectRenewal(x)
  PROVE  CredInv' /\ Fenced
<1> DEFINE c == proc[x].cred
           rev == proc[x].revision
           k == Key("credential", c, rev, "renewal_rejected")
           j == NewJob(proc[x].new, credential[c].provider, c)
           r == IF proc[x].pc = "reject" THEN ThenWork(k)
                ELSE [pc |-> "mark", cred |-> c, revision |-> rev, epoch |-> proc[x].epoch, job |-> k]
<1>1. /\ UNCHANGED <<provider, credential, attempt, grant, lost, faults>>
      /\ proc[x].pc \in {"reject", "answered"} /\ jobs' = Enqueued(k, j)
      /\ proc' = [proc EXCEPT ![x] = r] /\ Got(x)
  <2>1. \/ proc[x].pc = "reject"
        \/ proc[x].pc = "answered" /\ proc[x].result = "rejected"
    BY DEF RejectRenewal
  <2>2. Got(x)
    BY <2>1 DEF Got, CredInv, ProcsKnow, Knows
  <2> QED
    BY <2>1, <2>2 DEF RejectRenewal
<1>2. /\ Renewing(x) /\ c \in Creds /\ rev \in Nat \ {0} /\ proc[x].grant \in Grants
      /\ proc[x].new \in Grants /\ OnRow(x) /\ proc[x].epoch \in Nat
      /\ credential[c].provider \in Providers /\ Held(x) = {proc[x].new}
      /\ rev <= credential[c].revision
      /\ rev = credential[c].revision => credential[c].grant = proc[x].grant
      /\ grant[proc[x].grant].state # "live"
  <2>1. Renewing(x)
    BY <1>1 DEF Got, Renewing
  <2>2. c \in Creds /\ rev \in Nat \ {0} /\ proc[x].grant \in Grants /\ proc[x].new \in Grants /\ OnRow(x)
    BY <1>1, <2>1, RenewingIs
  <2>3. proc[x].epoch \in Nat
    BY <1>1, StateIs DEF CredInv
  <2>4. Held(x) = {proc[x].new}
    BY <1>1, HoldingIs DEF CredInv
  <2> QED
    BY <1>1, <2>1, <2>2, <2>3, <2>4 DEF CredInv, RenewalsAre
<1>3. /\ k \in Keys /\ k.source[1] = "credential" /\ k.source[2] = c /\ k.revision = rev
      /\ k.reason = "renewal_rejected"
  BY <1>2, KeyMade
<1>4. j \in JobRow /\ j.grant = proc[x].new /\ j.status = "pending"
  BY <1>2, JobMade
<1>5. r \in ProcStates /\ r.pc \in {"work", "mark"} /\ r.job = k /\ (r.pc = "mark" => r.cred = c)
  <2>1. CASE proc[x].pc = "reject"
    BY <1>3, <2>1, StatesMade DEF ThenWork
  <2>2. CASE proc[x].pc # "reject"
    <3> HIDE DEF k
    <3> QED
      BY <1>2, <1>3, <2>2, StatesMade
  <2> QED
    BY <2>1, <2>2
<1> HIDE DEF k, j, r
<1>6. /\ DOMAIN jobs' = DOMAIN jobs \cup {k}
      /\ \A q \in DOMAIN jobs : jobs'[q] = jobs[q]
      /\ k \notin DOMAIN jobs => jobs'[k] = j
      /\ DOMAIN jobs' \subseteq Keys /\ \A q \in DOMAIN jobs' : jobs'[q] \in JobRow
  BY <1>1, <1>3, <1>4, EnqueuedIs
<1>7. AttemptsStand /\ RowsStand /\ PointersStand /\ GrantsStand
  BY <1>1, Unmoved
<1>8. /\ proc' \in [Procs -> ProcStates] /\ ProcsKnow' /\ RenewalsCarryOn /\ PollsCarryOn
      /\ \A z \in Procs : z # x => proc'[z] = proc[z] /\ Held(z)' = Held(z)
      /\ ~ Got(x)' /\ ~ Renewing(x)' /\ Held(x)' = {}
  BY <1>1, <1>2, <1>5, <1>6, <1>7, Goes
<1>9. TypeOK' /\ AttemptsAre' /\ RowsAre' /\ PointerNamesTheAccount' /\ RenewalsAre' /\ PollsAre' /\ Fenced
  <2>1. TypeOK'
    BY <1>1, <1>6, TypesAre, TypesNext DEF CredInv
  <2> QED
    BY <1>1, <1>7, <1>8, <2>1, AttemptsKept, RowsKept, PointersKept, RenewalsKept, PollsKept, FencesKept
<1>10. GrantsAre'
  BY <1>1, <1>2, <1>3, <1>4, <1>8, HandedOver
<1>11. KeysAre'
  <2>1. \A q \in DOMAIN jobs : KeyTells(q)'
    BY <1>1, <1>7, <1>8, KeysKept
  <2>2. ASSUME NEW q \in Keys, q = k PROVE KeyTells(q)'
    BY <1>1, <1>2, <1>3, <2>2 DEF KeyTells
  <2> QED
    BY <1>3, <1>6, <2>1, <2>2 DEF KeysAre
<1>12. RevocationIsReportedTruly'
  <2>1. \A q \in DOMAIN jobs' : \/ q \in DOMAIN jobs /\ jobs'[q] = jobs[q]
                                \/ jobs'[q].status = "pending"
    BY <1>4, <1>6
  <2> QED
    BY <1>1, <2>1 DEF CredInv, RevocationIsReportedTruly
<1>13. ASSUME RotationSpends PROVE OnceSpent' /\ NoGrantIsForgotten'
  <2>1. OnceSpent /\ NoGrantIsForgotten
    BY <1>13 DEF CredInv
  <2>2. k \notin DOMAIN jobs
    BY <1>1, <1>2, <1>3, <2>1 DEF OnceSpent, RejectionTells
  <2>3. NoGrantIsForgotten'
    BY <1>1, <1>2, <1>3, <1>4, <1>8, <2>1, <2>2, HandedOver
  <2>4. /\ \A y, z \in Procs :
             Got(y)' /\ Got(z)' /\ proc'[y].cred = proc'[z].cred
             /\ proc'[y].revision = proc'[z].revision => y = z
        /\ \A q \in DOMAIN jobs : RejectionTells(q)'
    BY <1>7, <1>8, <2>1, SpentKept
  <2>5. ASSUME NEW q \in Keys, q = k PROVE RejectionTells(q)'
    <3>1. credential'[c].revision = rev /\ credential'[c].grant # None
            => grant'[credential'[c].grant].state # "live"
      BY <1>1, <1>2
    <3>2. ASSUME NEW y \in Procs, Renewing(y)', proc'[y].cred = c, proc'[y].revision = rev
          PROVE  ~ Got(y)' /\ grant'[proc'[y].grant].state # "live"
      <4>1. y # x /\ Renewing(y) /\ proc'[y] = proc[y] /\ (Got(y)' => Got(y))
        BY <1>8, <3>2 DEF RenewalsCarryOn
      <4>2. ~ Got(y)
        BY <1>1, <2>1, <3>2, <4>1 DEF OnceSpent
      <4>3. proc[y].grant = proc[x].grant
        BY <1>2, <3>2, <4>1 DEF CredInv, RenewalsAre
      <4> QED
        BY <1>1, <1>2, <4>1, <4>2, <4>3
    <3> QED
      BY <1>3, <2>5, <3>1, <3>2 DEF RejectionTells
  <2> QED
    BY <1>3, <1>6, <2>3, <2>4, <2>5 DEF OnceSpent
<1> QED
  BY <1>8, <1>9, <1>10, <1>11, <1>12, <1>13 DEF CredInv

\* An attempt gives up its grant: it has one, and one job.
LEMMA RejectGrantHolds ==
  ASSUME CredInv, NEW x \in Procs, RejectGrant(x)
  PROVE  CredInv' /\ Fenced
<1> DEFINE a == proc[x].at
           rev == proc[x].revision
           k == Key("attempt", a, rev, "activation_rejected")
           j == NewJob(proc[x].new, attempt[a].provider, None)
           r == [pc |-> "fail", at |-> a, job |-> k, revision |-> rev]
<1>1. /\ UNCHANGED <<provider, credential, attempt, grant, lost, faults>>
      /\ proc[x].pc = "polled" /\ jobs' = Enqueued(k, j)
      /\ proc' = [proc EXCEPT ![x] = r] /\ Granted(x)
  <2>1. proc[x].pc = "polled" /\ proc[x].result \in {"connected", "rejected"}
    BY DEF RejectGrant
  <2>2. Granted(x)
    BY <2>1 DEF Granted, CredInv, ProcsKnow, Knows
  <2> QED
    BY <2>1, <2>2 DEF RejectGrant
<1>2. /\ a \in Attempts /\ a \in Creds /\ rev \in Nat \ {0} /\ proc[x].new \in Grants
      /\ attempt[a].status # "none" /\ attempt[a].provider \in Providers
      /\ Held(x) = {proc[x].new} /\ grant[proc[x].new].of = a
  <2>1. a \in Attempts /\ rev \in Nat \ {0}
    BY <1>1, StateIs DEF CredInv
  <2>2. proc[x].new \in Grants /\ Held(x) = {proc[x].new}
    BY <1>1, HoldingIs DEF CredInv
  <2>3. attempt[a].status # "none"
    BY <1>1 DEF CredInv, ProcsKnow, Knows, OnAttempt
  <2> QED
    BY <1>1, <2>1, <2>2, <2>3, Constants DEF CredInv, AttemptsAre, PollsAre
<1>3. /\ k \in Keys /\ k.source[1] = "attempt" /\ k.source[2] = a /\ k.revision = rev
      /\ k.reason = "activation_rejected"
  BY <1>2, KeyMade
<1>4. j \in JobRow /\ j.grant = proc[x].new /\ j.status = "pending"
  BY <1>2, JobMade
<1> HIDE DEF k, j
<1>5. r \in ProcStates /\ r.pc = "fail" /\ r.job = k /\ r.at = a
  BY <1>2, <1>3, StatesMade
<1> HIDE DEF r
<1>6. /\ DOMAIN jobs' = DOMAIN jobs \cup {k}
      /\ \A q \in DOMAIN jobs : jobs'[q] = jobs[q]
      /\ k \notin DOMAIN jobs => jobs'[k] = j
      /\ DOMAIN jobs' \subseteq Keys /\ \A q \in DOMAIN jobs' : jobs'[q] \in JobRow
  BY <1>1, <1>3, <1>4, EnqueuedIs
<1>7. AttemptsStand /\ RowsStand /\ PointersStand /\ GrantsStand
  BY <1>1, Unmoved
<1>8. /\ proc' \in [Procs -> ProcStates] /\ ProcsKnow' /\ RenewalsCarryOn /\ PollsCarryOn
      /\ \A z \in Procs : z # x => proc'[z] = proc[z] /\ Held(z)' = Held(z)
      /\ ~ Granted(x)' /\ Held(x)' = {}
  BY <1>1, <1>2, <1>5, <1>6, <1>7, Goes
<1>9. TypeOK' /\ AttemptsAre' /\ RowsAre' /\ PointerNamesTheAccount' /\ RenewalsAre' /\ PollsAre' /\ Fenced
  <2>1. TypeOK'
    BY <1>1, <1>6, TypesAre, TypesNext DEF CredInv
  <2> QED
    BY <1>1, <1>7, <1>8, <2>1, AttemptsKept, RowsKept, PointersKept, RenewalsKept, PollsKept, FencesKept
<1>10. GrantsAre'
  BY <1>1, <1>2, <1>3, <1>4, <1>8, HandedOver
<1>11. KeysAre'
  <2>1. \A q \in DOMAIN jobs : KeyTells(q)'
    BY <1>1, <1>7, <1>8, KeysKept
  <2>2. ASSUME NEW q \in Keys, q = k PROVE KeyTells(q)'
    <3>1. \A z \in Procs : Granted(z)' => proc'[z].at # a
      BY <1>1, <1>8 DEF CredInv, PollsAre, PollsCarryOn
    <3> QED
      BY <1>1, <1>2, <1>3, <2>2, <3>1 DEF KeyTells
  <2> QED
    BY <1>3, <1>6, <2>1, <2>2 DEF KeysAre
<1>12. RevocationIsReportedTruly'
  <2>1. \A q \in DOMAIN jobs' : \/ q \in DOMAIN jobs /\ jobs'[q] = jobs[q]
                                \/ jobs'[q].status = "pending"
    BY <1>4, <1>6
  <2> QED
    BY <1>1, <2>1 DEF CredInv, RevocationIsReportedTruly
<1>13. ASSUME RotationSpends PROVE OnceSpent' /\ NoGrantIsForgotten'
  <2>1. OnceSpent /\ NoGrantIsForgotten
    BY <1>13 DEF CredInv
  <2>2. k \notin DOMAIN jobs
    BY <1>1, <1>3 DEF CredInv, KeysAre, KeyTells
  <2>3. NoGrantIsForgotten'
    BY <1>1, <1>2, <1>3, <1>4, <1>8, <2>1, <2>2, HandedOver
  <2>4. /\ \A y, z \in Procs :
             Got(y)' /\ Got(z)' /\ proc'[y].cred = proc'[z].cred
             /\ proc'[y].revision = proc'[z].revision => y = z
        /\ \A q \in DOMAIN jobs : RejectionTells(q)'
    BY <1>7, <1>8, <2>1, SpentKept
  <2>5. ASSUME NEW q \in Keys, q = k PROVE RejectionTells(q)'
    BY <1>3, <2>5 DEF RejectionTells
  <2> QED
    BY <1>3, <1>6, <2>3, <2>4, <2>5 DEF OnceSpent
<1> QED
  BY <1>8, <1>9, <1>10, <1>11, <1>12, <1>13 DEF CredInv

-----------------------------------------------------------------------------
(* The attempts. *)

LEMMA EndedIs ==
  ASSUME CredInv, NEW a \in Attempts, attempt[a].status # "none"
  PROVE  /\ Ended(a) \in AttemptRow /\ Ended(a).status = "ended" /\ Ended(a).lease = None
         /\ Ended(a).provider = attempt[a].provider /\ attempt[a].provider \in Providers
<1>1. attempt[a].provider \in Providers
  BY DEF CredInv, AttemptsAre
<1> QED
  BY <1>1 DEF Ended, NoAttempt, AttemptRow

LEMMA AttemptChanged ==
  ASSUME CredInv, NEW a \in Attempts, NEW row \in AttemptRow, attempt' = [attempt EXCEPT ![a] = row],
         attempt[a].status # "ended", row.status # "none", row.provider \in Providers,
         row.lease # None => row.status = "pending",
         row.status \in {"starting", "pending"} => row.revision # 0
  PROVE  attempt' \in [Attempts -> AttemptRow] /\ AttemptsStand
<1>1. attempt \in [Attempts -> AttemptRow]
  BY TypesAre DEF CredInv
<1>2. /\ attempt' \in [Attempts -> AttemptRow] /\ attempt'[a] = row
      /\ \A b \in Attempts : b # a => attempt'[b] = attempt[b]
  BY <1>1
<1> QED
  BY <1>2 DEF AttemptsStand, CredInv, AttemptsAre, Active

\* A step of the attempts and of one request.
LEMMA AttemptStepHolds ==
  ASSUME CredInv, UNCHANGED <<provider, credential, jobs, grant>>,
         attempt' \in [Attempts -> AttemptRow], AttemptsStand, lost' \subseteq Grants,
         proc' \in [Procs -> ProcStates], ProcsKnow', RenewalsCarryOn, PollsCarryOn, PlacesStand
  PROVE  CredInv' /\ Fenced
<1>1. RowsStand /\ PointersStand /\ GrantsStand /\ JobsStand /\ RevocationIsReportedTruly'
  BY Unmoved
<1>2. TypeOK'
  BY TypesAre, TypesNext DEF CredInv
<1> QED
  BY <1>1, <1>2, CalmHolds

LEMMA StartHolds ==
  ASSUME CredInv, NEW x \in Procs, NEW p \in Providers, NEW a \in Attempts, Start(x, p, a)
  PROVE  CredInv' /\ Fenced
<1> DEFINE c == provider[p].credential
           superseded(b) == attempt[b].provider = p /\ Active(b)
                            /\ attempt[b].epoch = provider[p].epoch
           row == [NoAttempt EXCEPT !.status = "starting", !.provider = p, !.target = c,
                      !.epoch = provider[p].epoch, !.revision = 1,
                      !.tEpoch = IF c = None THEN 0 ELSE credential[c].epoch,
                      !.tRevision = IF c = None THEN 0 ELSE credential[c].revision]
           r == [pc |-> "start", at |-> a]
<1>1. /\ UNCHANGED <<provider, credential, jobs, grant, lost, faults>>
      /\ proc[x].pc = "idle" /\ attempt[a].status = "none" /\ proc' = [proc EXCEPT ![x] = r]
      /\ attempt' = [b \in Attempts |->
             IF b = a THEN row ELSE IF superseded(b) THEN Ended(b) ELSE attempt[b]]
  BY DEF Start
<1>2. row \in AttemptRow /\ row.status = "starting" /\ row.provider = p /\ row.lease = None /\ row.revision = 1
  <2>1. c \in Creds \cup {None} /\ provider[p].epoch \in Nat
    BY TypesAre DEF CredInv, ProviderRow
  <2>2. (IF c = None THEN 0 ELSE credential[c].epoch) \in Nat
        /\ (IF c = None THEN 0 ELSE credential[c].revision) \in Nat
    BY <2>1, TypesAre DEF CredInv, CredentialRow
  <2> HIDE DEF c
  <2> QED
    BY <2>1, <2>2 DEF NoAttempt, AttemptRow
<1> HIDE DEF row
<1>3. \A b \in Attempts : superseded(b) =>
        /\ attempt[b].status \in {"starting", "pending"}
        /\ Ended(b) \in AttemptRow /\ Ended(b).status = "ended" /\ Ended(b).lease = None
        /\ Ended(b).provider \in Providers
  BY EndedIs DEF Active
<1>4. \A b \in Attempts : \/ b = a /\ attempt'[b] = row
                          \/ b # a /\ superseded(b) /\ attempt'[b] = Ended(b)
                          \/ b # a /\ attempt'[b] = attempt[b]
  BY <1>1
<1>5. attempt' \in [Attempts -> AttemptRow]
  <2>1. attempt \in [Attempts -> AttemptRow]
    BY TypesAre DEF CredInv
  <2> HIDE DEF superseded
  <2>2. \A b \in Attempts : attempt'[b] \in AttemptRow
    BY <1>2, <1>3, <1>4, <2>1
  <2> QED
    BY <1>1, <2>2
<1>6. AttemptsStand
  <2> HIDE DEF superseded
  <2> SUFFICES ASSUME NEW b \in Attempts
               PROVE  /\ attempt[b].status = "ended" => attempt'[b] = attempt[b]
                      /\ attempt[b].status # "none" => attempt'[b].status # "none"
                      /\ attempt'[b].status # "none" => attempt'[b].provider \in Providers
                      /\ attempt'[b].lease # None => attempt'[b].status = "pending"
                      /\ attempt'[b].status \in {"starting", "pending"} => attempt'[b].revision # 0
    BY DEF AttemptsStand
  <2>1. CASE b = a
    BY <1>1, <1>2, <1>4, <2>1
  <2>2. CASE superseded(b) /\ b # a /\ attempt'[b] = Ended(b)
    BY <1>3, <2>2
  <2>3. CASE attempt'[b] = attempt[b]
    BY <2>3 DEF CredInv, AttemptsAre, Active
  <2> QED
    BY <1>4, <2>1, <2>2, <2>3
<1>7. r \in ProcStates /\ r.pc = "start" /\ r.at = a /\ attempt'[a].status # "none"
  BY <1>2, <1>4, StatesMade
<1> HIDE DEF r
<1>8. /\ proc' \in [Procs -> ProcStates] /\ ProcsKnow' /\ RenewalsCarryOn /\ PollsCarryOn
      /\ \A z \in Procs : z # x => Held(z)' = Held(z)
  BY <1>1, <1>6, <1>7, Goes
<1>9. PlacesStand
  <2>1. Held(x) = {}
    BY <1>1, EmptyHanded
  <2> QED
    BY <1>1, <1>8, <2>1, NothingDropped
<1> QED
  BY <1>1, <1>5, <1>6, <1>8, <1>9, AttemptStepHolds DEF CredInv, TypeOK

\* A request is over, having changed at most its attempt.
LEMMA OverHolds ==
  ASSUME CredInv, NEW x \in Procs, UNCHANGED <<provider, credential, jobs, grant, lost, faults>>,
         attempt' \in [Attempts -> AttemptRow], AttemptsStand, Held(x) = {},
         NEW r \in ProcStates, proc' = [proc EXCEPT ![x] = r], r.pc \in {"idle", "work", "poll"},
         r.pc = "work" => r.job \in DOMAIN jobs, r.pc = "poll" => attempt'[r.at].status # "none"
  PROVE  CredInv' /\ Fenced
<1>1. /\ proc' \in [Procs -> ProcStates] /\ ProcsKnow' /\ RenewalsCarryOn /\ PollsCarryOn
      /\ \A z \in Procs : z # x => Held(z)' = Held(z)
  BY Goes
<1>2. PlacesStand
  BY <1>1, NothingDropped
<1> QED
  BY <1>1, <1>2, AttemptStepHolds DEF CredInv, TypeOK

LEMMA SameAttempts ==
  ASSUME CredInv, attempt' = attempt
  PROVE  attempt' \in [Attempts -> AttemptRow] /\ AttemptsStand
BY Unmoved, TypesAre DEF CredInv

LEMMA OneEnds ==
  ASSUME CredInv, NEW a \in Attempts, attempt[a].status \in {"starting", "pending"},
         attempt' = [attempt EXCEPT ![a] = Ended(a)]
  PROVE  attempt' \in [Attempts -> AttemptRow] /\ AttemptsStand
<1>1. /\ Ended(a) \in AttemptRow /\ Ended(a).status = "ended" /\ Ended(a).lease = None
      /\ Ended(a).provider \in Providers
  BY EndedIs
<1> QED
  BY <1>1, AttemptChanged

LEMMA StartAnsweredHolds ==
  ASSUME CredInv, NEW x \in Procs, StartAnswered(x)
  PROVE  CredInv' /\ Fenced
<1> DEFINE a == proc[x].at
           row == [attempt[a] EXCEPT !.status = "pending", !.revision = 2]
<1>1. /\ UNCHANGED <<provider, credential, jobs, grant, lost, faults>>
      /\ proc[x].pc = "start" /\ a \in Attempts /\ proc' = [proc EXCEPT ![x] = Idle]
      /\ attempt[a] \in AttemptRow
  <2>1. proc[x].pc = "start" /\ proc[x] \in ProcStates
    BY DEF StartAnswered, CredInv
  <2>2. a \in Attempts
    BY <2>1, StateIs
  <2> QED
    BY <2>1, <2>2, TypesAre DEF StartAnswered, CredInv
<1>2. \/ attempt' = attempt
      \/ attempt[a].status = "starting" /\ attempt' = [attempt EXCEPT ![a] = Ended(a)]
      \/ attempt[a].status = "starting" /\ attempt' = [attempt EXCEPT ![a] = row]
  BY DEF StartAnswered
<1>3. attempt' \in [Attempts -> AttemptRow] /\ AttemptsStand
  <2>1. CASE attempt' = attempt
    BY <2>1, SameAttempts
  <2>2. CASE attempt[a].status = "starting" /\ attempt' = [attempt EXCEPT ![a] = Ended(a)]
    BY <1>1, <2>2, OneEnds
  <2>3. CASE attempt[a].status = "starting" /\ attempt' = [attempt EXCEPT ![a] = row]
    <3>1. /\ row \in AttemptRow /\ row.status = "pending" /\ row.provider \in Providers
          /\ row.revision # 0 /\ row.status \notin {"none", "ended"}
      <4>1. row \in AttemptRow /\ row.status = "pending" /\ row.provider \in Providers /\ row.revision = 2
        BY <1>1, <2>3 DEF AttemptRow, CredInv, AttemptsAre
      <4> QED
        BY <4>1
    <3>2. a \in Attempts /\ attempt[a].status # "ended" /\ attempt' = [attempt EXCEPT ![a] = row]
      BY <1>1, <2>3
    <3> HIDE DEF row
    <3> QED
      BY <3>1, <3>2, AttemptChanged
  <2> QED
    BY <1>2, <2>1, <2>2, <2>3
<1>4. Held(x) = {} /\ Idle \in ProcStates /\ Idle.pc = "idle"
  BY <1>1, EmptyHanded, StatesMade DEF Idle
<1> QED
  BY <1>1, <1>3, <1>4, OverHolds

LEMMA ClaimPollHolds ==
  ASSUME CredInv, NEW x \in Procs, NEW a \in Attempts, ClaimPoll(x, a)
  PROVE  CredInv' /\ Fenced
<1> DEFINE row == [attempt[a] EXCEPT !.lease = x, !.late = FALSE]
           r == [pc |-> "poll", at |-> a, revision |-> attempt[a].revision]
<1>1. /\ UNCHANGED <<provider, credential, jobs, grant, lost, faults>>
      /\ proc[x].pc = "idle" /\ attempt[a].status = "pending" /\ attempt[a] \in AttemptRow
  BY TypesAre DEF ClaimPoll, CredInv
<1>2. CASE attempt' = [attempt EXCEPT ![a] = Ended(a)] /\ UNCHANGED proc
  <2>1. attempt' \in [Attempts -> AttemptRow] /\ AttemptsStand
    BY <1>1, <1>2, OneEnds
  <2>2. JobsStand
    BY <1>1, Unmoved
  <2>3. /\ proc' \in [Procs -> ProcStates] /\ ProcsKnow' /\ RenewalsCarryOn /\ PollsCarryOn
        /\ \A z \in Procs : Held(z)' = Held(z)
    BY <1>2, <2>1, <2>2, NobodyGoes
  <2>4. PlacesStand
    BY <1>1, <2>3, NothingDropped
  <2> QED
    BY <1>1, <2>1, <2>3, <2>4, AttemptStepHolds DEF CredInv, TypeOK
<1>3. CASE attempt' = [attempt EXCEPT ![a] = row] /\ proc' = [proc EXCEPT ![x] = r]
  <2>1. /\ row \in AttemptRow /\ row.status = "pending" /\ row.provider \in Providers
        /\ row.revision = attempt[a].revision /\ attempt[a].revision \in Nat \ {0}
    BY <1>1 DEF AttemptRow, CredInv, AttemptsAre, Active
  <2> HIDE DEF row
  <2>2. attempt' \in [Attempts -> AttemptRow] /\ AttemptsStand
    BY <1>1, <1>3, <2>1, AttemptChanged
  <2>3. r \in ProcStates /\ r.pc = "poll" /\ r.at = a /\ attempt'[a].status # "none" /\ Held(x) = {}
    BY <1>1, <2>1, <2>2, EmptyHanded, StatesMade DEF AttemptsStand
  <2> HIDE DEF r
  <2> QED
    BY <1>1, <1>3, <2>2, <2>3, OverHolds
<1> QED
  BY <1>2, <1>3 DEF ClaimPoll

LEMMA OwnedIs ==
  ASSUME CredInv, NEW x \in Procs, proc[x].pc \in {"polled", "fail"}
  PROVE  /\ proc[x].at \in Attempts /\ attempt[proc[x].at] \in AttemptRow
         /\ OwnsPoll(x) => attempt[proc[x].at].status = "pending"
<1>1. proc[x].at \in Attempts
  BY StateIs DEF CredInv
<1> QED
  BY <1>1, TypesAre DEF CredInv, OwnsPoll

LEMMA PollEndsHolds ==
  ASSUME CredInv, NEW x \in Procs, PollEnds(x)
  PROVE  CredInv' /\ Fenced
<1> DEFINE a == proc[x].at
           row == [attempt[a] EXCEPT !.revision = @ + 1, !.lease = None, !.late = FALSE]
<1>1. /\ UNCHANGED <<provider, credential, jobs, grant, lost, faults>>
      /\ proc[x].pc = "polled" /\ a \in Attempts /\ attempt[a] \in AttemptRow
      /\ proc' = [proc EXCEPT ![x] = Idle] /\ Held(x) = {}
      /\ OwnsPoll(x) => attempt[a].status = "pending"
  <2>1. proc[x].pc = "polled" /\ proc[x].result \notin {"connected", "rejected"}
    BY DEF PollEnds
  <2> QED
    BY <2>1, OwnedIs, EmptyHanded DEF PollEnds
<1>2. \/ attempt' = attempt
      \/ OwnsPoll(x) /\ attempt' = [attempt EXCEPT ![a] = Ended(a)]
      \/ OwnsPoll(x) /\ attempt' = [attempt EXCEPT ![a] = row]
  BY DEF PollEnds, PollFits
<1>3. attempt' \in [Attempts -> AttemptRow] /\ AttemptsStand
  <2>1. CASE attempt' = attempt
    BY <2>1, SameAttempts
  <2>2. CASE OwnsPoll(x) /\ attempt' = [attempt EXCEPT ![a] = Ended(a)]
    BY <1>1, <2>2, OneEnds
  <2>3. CASE OwnsPoll(x) /\ attempt' = [attempt EXCEPT ![a] = row]
    <3>1. /\ row \in AttemptRow /\ row.status = "pending" /\ row.provider \in Providers
          /\ row.revision # 0 /\ row.status \notin {"none", "ended"}
      <4>1. attempt[a].revision + 1 \in Nat /\ attempt[a].revision + 1 # 0
        BY <1>1 DEF AttemptRow
      <4> QED
        BY <1>1, <2>3, <4>1 DEF AttemptRow, CredInv, AttemptsAre
    <3>2. a \in Attempts /\ attempt[a].status # "ended" /\ attempt' = [attempt EXCEPT ![a] = row]
      BY <1>1, <2>3
    <3> HIDE DEF row
    <3> QED
      BY <3>1, <3>2, AttemptChanged
  <2> QED
    BY <1>2, <2>1, <2>2, <2>3
<1>4. Idle \in ProcStates /\ Idle.pc = "idle"
  BY StatesMade DEF Idle
<1> QED
  BY <1>1, <1>3, <1>4, OverHolds

LEMMA FailAttemptHolds ==
  ASSUME CredInv, NEW x \in Procs, FailAttempt(x)
  PROVE  CredInv' /\ Fenced
<1> DEFINE a == proc[x].at
           r == ThenWork(proc[x].job)
<1>1. /\ UNCHANGED <<provider, credential, jobs, grant, lost, faults>>
      /\ proc[x].pc = "fail" /\ a \in Attempts /\ Held(x) = {}
      /\ OwnsPoll(x) => attempt[a].status = "pending"
      /\ proc' = [proc EXCEPT ![x] = r]
  <2>1. proc[x].pc = "fail"
    BY DEF FailAttempt
  <2> QED
    BY <2>1, OwnedIs, EmptyHanded DEF FailAttempt
<1>2. attempt' \in [Attempts -> AttemptRow] /\ AttemptsStand
  <2>1. CASE OwnsPoll(x)
    BY <1>1, <2>1, OneEnds DEF FailAttempt
  <2>2. CASE ~ OwnsPoll(x)
    BY <2>2, SameAttempts DEF FailAttempt
  <2> QED
    BY <2>1, <2>2
<1>3. r \in ProcStates /\ r.pc = "work" /\ r.job \in DOMAIN jobs
  <2>1. proc[x].job \in DOMAIN jobs /\ proc[x].job \in Keys
    BY <1>1, TypesAre DEF CredInv, ProcsKnow, Knows
  <2> QED
    BY <2>1, StatesMade DEF ThenWork
<1> HIDE DEF r
<1> QED
  BY <1>1, <1>2, <1>3, OverHolds

LEMMA CancelHolds ==
  ASSUME CredInv, NEW a \in Attempts, Cancel(a)
  PROVE  CredInv' /\ Fenced
<1>1. UNCHANGED <<provider, credential, jobs, grant, proc, lost, faults>>
  BY DEF Cancel
<1>2. attempt' \in [Attempts -> AttemptRow] /\ AttemptsStand
  BY OneEnds DEF Cancel, Active
<1>3. JobsStand
  BY <1>1, Unmoved
<1>4. /\ proc' \in [Procs -> ProcStates] /\ ProcsKnow' /\ RenewalsCarryOn /\ PollsCarryOn
      /\ \A z \in Procs : Held(z)' = Held(z)
  BY <1>1, <1>2, <1>3, NobodyGoes
<1>5. PlacesStand
  BY <1>1, <1>4 DEF PlacesStand
<1> QED
  BY <1>1, <1>2, <1>4, <1>5, AttemptStepHolds DEF CredInv, TypeOK

\* The device code yields its one grant.
LEMMA IssueHolds ==
  ASSUME CredInv, NEW x \in Procs, NEW result \in {"connected", "rejected"}, NEW u \in Accounts,
         NEW new \in Grants, proc[x].pc = "poll", Fresh(new),
         \A h \in Grants : grant[h].of # proc[x].at,
         grant' = [grant EXCEPT ![new] = Issued(u, proc[x].at)],
         proc' = [proc EXCEPT ![x] = [pc |-> "polled", at |-> proc[x].at, result |-> result,
                                      revision |-> @.revision, new |-> new]],
         UNCHANGED <<provider, credential, attempt, jobs, lost, faults>>
  PROVE  CredInv' /\ Fenced
<1> DEFINE a == proc[x].at
           r == [pc |-> "polled", at |-> a, result |-> result, revision |-> proc[x].revision,
                 new |-> new]
<1>1. /\ proc[x] \in ProcStates /\ a \in Attempts /\ proc[x].revision \in Nat \ {0}
      /\ ~ Got(x) /\ ~ Granted(x) /\ r \in ProcStates /\ attempt[a].status # "none"
  <2>1. proc[x] \in ProcStates /\ ~ Got(x) /\ ~ Granted(x)
    BY DEF CredInv, Got, Granted
  <2>2. a \in Attempts /\ proc[x].revision \in Nat \ {0}
    BY <2>1, StateIs
  <2>3. attempt[a].status # "none"
    BY DEF CredInv, ProcsKnow, Knows, OnAttempt
  <2>4. new \in Grants \cup {None} /\ result \in {"connected", "rejected", "pending", "over"}
    OBVIOUS
  <2>5. r \in ProcStates
    BY <2>2, <2>4, StatesMade
  <2> QED
    BY <2>1, <2>2, <2>3, <2>5
<1>2. r.pc = "polled" /\ r.at = a /\ r.result = result /\ r.new = new
  OBVIOUS
<1>3. /\ proc' \in [Procs -> ProcStates] /\ proc'[x] = r
      /\ \A z \in Procs : z # x => proc'[z] = proc[z]
  BY <1>1, OneMoves
<1> HIDE DEF r
<1>4. /\ ~ Got(x)' /\ Granted(x)' /\ ~ OnRow(x)' /\ ~ Renewing(x)' /\ Held(x)' = {new}
      /\ \A z \in Procs : z # x => /\ Got(z)' <=> Got(z)
                                   /\ Granted(z)' <=> Granted(z)
                                   /\ OnRow(z)' <=> OnRow(z)
                                   /\ Renewing(z)' <=> Renewing(z)
                                   /\ Held(z)' = Held(z)
  BY <1>2, <1>3, Constants DEF Got, Granted, OnRow, Renewing, Held
<1>5. /\ grant[new].state = "none" /\ grant[new].of = None
      /\ \A c \in Creds : credential[c].grant # new
      /\ \A k \in DOMAIN jobs : jobs[k].grant # new
      /\ \A z \in Procs : new \notin Held(z)
      /\ \A z \in Procs : Renewing(z) => proc[z].grant # new
      /\ \A z \in Procs : Got(z) \/ Granted(z) => proc[z].new # new
  BY FreshIs DEF Fresh
<1>6. /\ grant' \in [Grants -> GrantRow] /\ grant'[new].state = "live" /\ grant'[new].of = a
      /\ \A h \in Grants : h # new => grant'[h] = grant[h]
  <2>1. grant \in [Grants -> GrantRow]
    BY TypesAre DEF CredInv
  <2>2. Issued(u, a) \in GrantRow /\ Issued(u, a).state = "live" /\ Issued(u, a).of = a
    BY <1>1 DEF GrantRow, Issued
  <2> QED
    BY <2>1, <2>2
<1>7. \A z \in Procs : Granted(z) => proc[z].new \in Grants /\ proc[z].at # a
  <2> SUFFICES ASSUME NEW z \in Procs, Granted(z) PROVE proc[z].new \in Grants /\ proc[z].at # a
    OBVIOUS
  <2>1. proc[z].new \in Grants
    BY HoldingIs DEF CredInv
  <2> QED
    BY <2>1 DEF CredInv, PollsAre
<1>8. RowsStand /\ PointersStand /\ AttemptsStand /\ JobsStand
  BY Unmoved
<1>9. TypeOK' /\ AttemptsAre' /\ RowsAre' /\ PointerNamesTheAccount' /\ Fenced
  <2>1. TypeOK'
    BY <1>6, TypesAre, TypesNext DEF CredInv
  <2>2. \A h \in Grants : grant[h].state # "none" => grant'[h].of = grant[h].of
    BY <1>5, <1>6
  <2> QED
    BY <1>8, <2>1, <2>2, AttemptsKept, RowsKept, PointersKept, FencesKept
<1>10. RevocationIsReportedTruly'
  <2>1. \A k \in DOMAIN jobs : grant'[jobs[k].grant] = grant[jobs[k].grant]
    BY <1>5, <1>6, TypesAre DEF CredInv, JobRow
  <2> QED
    BY <2>1 DEF CredInv, RevocationIsReportedTruly
<1>11. ProcsKnow'
  <2>1. Knows(x)'
    BY <1>1, <1>2, <1>3, Constants DEF Knows, OnAttempt
  <2> QED
    BY <1>3, <2>1, OthersKnow
<1>12. PollsAre'
  <2> SUFFICES ASSUME NEW z \in Procs, Granted(z)'
               PROVE  /\ grant'[proc'[z].new].of = proc'[z].at
                      /\ \A y \in Procs : Granted(y)' /\ proc'[y].at = proc'[z].at => y = z
    BY DEF PollsAre
  <2>1. CASE z = x
    BY <1>2, <1>3, <1>4, <1>6, <1>7, <2>1
  <2>2. CASE z # x
    <3>1. Granted(z) /\ proc'[z] = proc[z] /\ proc[z].new \in Grants /\ proc[z].new # new
          /\ proc[z].at # a
      BY <1>3, <1>4, <1>5, <1>7, <2>2
    <3>2. grant'[proc[z].new] = grant[proc[z].new]
      BY <1>6, <3>1
    <3>3. grant[proc[z].new].of = proc[z].at
          /\ \A y \in Procs : Granted(y) /\ proc[y].at = proc[z].at => y = z
      BY <3>1 DEF CredInv, PollsAre
    <3> QED
      BY <1>2, <1>3, <1>4, <3>1, <3>2, <3>3
  <2> QED
    BY <2>1, <2>2
<1>13. KeysAre'
  <2> SUFFICES ASSUME NEW k \in DOMAIN jobs PROVE KeyTells(k)'
    BY DEF KeysAre
  <2>1. KeyTells(k) /\ k.source[2] # None
    BY TypesAre, KeyIs, Constants DEF CredInv, KeysAre
  <2>2. ASSUME k.reason = "activation_rejected"
        PROVE  /\ \E h \in Grants : grant'[h].of = k.source[2]
               /\ \A z \in Procs : Granted(z)' => proc'[z].at # k.source[2]
    <3>1. PICK h \in Grants : grant[h].of = k.source[2]
      BY <2>1, <2>2 DEF KeyTells
    <3>2. grant'[h].of = k.source[2] /\ k.source[2] # a
      BY <1>5, <1>6, <2>1, <3>1
    <3>3. \A z \in Procs : Granted(z) => proc[z].at # k.source[2]
      BY <2>1, <2>2 DEF KeyTells
    <3> QED
      BY <1>2, <1>3, <1>4, <3>2, <3>3
  <2> QED
    BY <2>1, <2>2 DEF KeyTells
<1>14. RenewalsAre'
  <2>1. \A z \in Procs : OnRow(z)' => OnRow(z) /\ proc'[z] = proc[z]
    BY <1>3, <1>4
  <2>2. \A z \in Procs : Renewing(z)' => Renewing(z) /\ proc'[z] = proc[z]
                                         /\ proc[z].grant \in Grants /\ proc[z].grant # new
    BY <1>3, <1>4, <1>5, RenewingIs
  <2>3. ASSUME NEW z \in Procs, Got(z)'
        PROVE  /\ Got(z) /\ Renewing(z) /\ proc'[z] = proc[z] /\ proc[z].new \in Grants
               /\ proc[z].new # new /\ proc[z].grant \in Grants /\ proc[z].grant # new
    <3>1. Got(z) /\ Renewing(z) /\ proc'[z] = proc[z]
      BY <1>3, <1>4, <2>3 DEF Got, Renewing
    <3> QED
      BY <1>5, <3>1, RenewingIs
  <2>4. ASSUME NEW z \in Procs, OnRow(z)'
        PROVE  /\ credential[proc'[z].cred].provider \in Providers
               /\ Live(proc[z].cred)' =>
                    provider[credential[proc'[z].cred].provider].credential = proc'[z].cred
    <3>1. OnRow(z) /\ proc'[z] = proc[z]
      BY <2>1, <2>4
    <3>2. Live(proc[z].cred)' => Live(proc[z].cred)
      BY <3>1 DEF Live
    <3> QED
      BY <3>1, <3>2 DEF CredInv, RenewalsAre
  <2>5. ASSUME NEW z \in Procs, Renewing(z)'
        PROVE  /\ proc'[z].revision <= credential[proc'[z].cred].revision
               /\ proc'[z].revision = credential[proc'[z].cred].revision =>
                    proc'[z].grant = credential[proc'[z].cred].grant
               /\ grant'[proc'[z].grant].state # "none"
               /\ \A y \in Procs :
                    Renewing(y)' /\ proc'[y].cred = proc'[z].cred
                    /\ proc'[y].revision = proc'[z].revision => proc'[y].grant = proc'[z].grant
    <3>1. Renewing(z) /\ proc'[z] = proc[z] /\ proc[z].grant \in Grants /\ proc[z].grant # new
      BY <2>2, <2>5
    <3>2. grant'[proc[z].grant] = grant[proc[z].grant]
      BY <1>6, <3>1
    <3> QED
      BY <2>2, <3>1, <3>2 DEF CredInv, RenewalsAre
  <2>6. ASSUME NEW z \in Procs, Got(z)'
        PROVE  /\ grant'[proc'[z].grant].state # "live"
               /\ grant'[proc'[z].new].of = grant'[proc'[z].grant].of
    BY <1>6, <2>3, <2>6 DEF CredInv, RenewalsAre
  <2> QED
    BY <2>4, <2>5, <2>6 DEF RenewalsAre
<1>15. GrantsAre'
  <2>1. \A c \in Creds : Live(c)' => Live(c) /\ grant'[credential[c].grant] = grant[credential[c].grant]
    <3>1. \A c \in Creds : Live(c) => credential[c].grant \in Grants
      BY TypesAre DEF CredInv, RowsAre, CredentialRow
    <3> QED
      BY <1>5, <1>6, <3>1 DEF Live
  <2>2. \A k \in DOMAIN jobs : grant'[jobs[k].grant] = grant[jobs[k].grant]
    BY <1>5, <1>6, TypesAre DEF CredInv, JobRow
  <2>3. ASSUME NEW z \in Procs, NEW h \in Held(z)'
        PROVE  /\ grant'[h].state \in {"live", "spent"}
               /\ \A c \in Creds : credential[c].grant # h
               /\ \A k \in DOMAIN jobs : jobs[k].grant # h
               /\ \A y \in Procs : h \in Held(y)' => y = z
    <3>1. CASE z = x
      BY <1>4, <1>5, <1>6, <2>3, <3>1
    <3>2. CASE z # x
      <4>1. h \in Held(z) /\ h # new /\ h \in Grants
        BY <1>4, <1>5, <2>3, <3>2, HoldingIs DEF CredInv
      <4>2. /\ grant[h].state \in {"live", "spent"} /\ \A c \in Creds : credential[c].grant # h
            /\ \A k \in DOMAIN jobs : jobs[k].grant # h
            /\ \A y \in Procs : h \in Held(y) => y = z
        BY <4>1 DEF CredInv, GrantsAre
      <4> QED
        BY <1>4, <1>6, <4>1, <4>2
    <3> QED
      BY <3>1, <3>2
  <2>4. \A h \in Grants : grant'[h].state = "none" => grant'[h].of = None
    BY <1>6 DEF CredInv, GrantsAre
  <2> QED
    BY <2>1, <2>2, <2>3, <2>4 DEF CredInv, GrantsAre
<1>16. ASSUME RotationSpends PROVE OnceSpent' /\ NoGrantIsForgotten'
  <2>1. OnceSpent /\ NoGrantIsForgotten
    BY <1>16 DEF CredInv
  <2>2. ASSUME NEW k \in DOMAIN jobs PROVE RejectionTells(k)'
    <3>1. RejectionTells(k) /\ k.source[2] \in Creds
      BY <2>1, TypesAre, KeyIs DEF OnceSpent, CredInv
    <3>2. credential[k.source[2]].grant \in Grants \cup {None} /\ credential[k.source[2]].grant # new
      BY <1>5, <3>1, TypesAre DEF CredInv, CredentialRow
    <3>3. credential[k.source[2]].grant # None =>
            grant'[credential[k.source[2]].grant] = grant[credential[k.source[2]].grant]
      BY <1>6, <3>2
    <3>4. \A y \in Procs : Renewing(y)' => /\ Renewing(y) /\ proc'[y] = proc[y] /\ (Got(y)' => Got(y))
                                           /\ grant'[proc[y].grant] = grant[proc[y].grant]
      BY <1>3, <1>4, <1>5, <1>6, RenewingIs
    <3> QED
      BY <3>1, <3>3, <3>4 DEF RejectionTells
  <2>3. \A y, z \in Procs :
          Got(y)' /\ Got(z)' /\ proc'[y].cred = proc'[z].cred /\ proc'[y].revision = proc'[z].revision
            => y = z
    BY <1>3, <1>4, <2>1 DEF OnceSpent
  <2>4. NoGrantIsForgotten'
    <3> SUFFICES ASSUME NEW h \in Grants, grant'[h].state = "live"
                 PROVE  \/ \E c \in Creds : Live(c) /\ credential[c].grant = h
                        \/ \E z \in Procs : h \in Held(z)'
                        \/ \E k \in DOMAIN jobs : jobs[k].grant = h /\ jobs[k].status # "succeeded"
                        \/ h \in lost
      BY DEF NoGrantIsForgotten, Live
    <3>1. CASE h = new
      BY <1>4, <3>1
    <3>2. CASE h # new
      <4>1. grant[h].state = "live"
        BY <1>6, <3>2
      <4>2. \A z \in Procs : h \in Held(z) => h \in Held(z)'
        BY <1>1, <1>4, HoldingIs DEF CredInv
      <4> QED
        BY <2>1, <4>1, <4>2 DEF NoGrantIsForgotten
    <3> QED
      BY <3>1, <3>2
  <2> QED
    BY <2>2, <2>3, <2>4 DEF OnceSpent
<1> QED
  BY <1>3, <1>9, <1>10, <1>11, <1>12, <1>13, <1>14, <1>15, <1>16 DEF CredInv

LEMMA PollDeviceHolds ==
  ASSUME CredInv, NEW x \in Procs, PollDevice(x)
  PROVE  CredInv' /\ Fenced
<1>1. /\ UNCHANGED <<provider, credential, attempt, jobs, lost, faults>>
      /\ proc[x].pc = "poll"
  BY DEF PollDevice
<1>2. ASSUME NEW result \in {"pending", "over"}, UNCHANGED grant,
             proc' = [proc EXCEPT ![x] = [pc |-> "polled", at |-> proc[x].at, result |-> result,
                                          revision |-> @.revision, new |-> None]]
      PROVE  CredInv' /\ Fenced
  <2> DEFINE r == [pc |-> "polled", at |-> proc[x].at, result |-> result,
                   revision |-> proc[x].revision, new |-> None]
  <2>1. /\ r \in ProcStates /\ r.pc = "polled" /\ r.at = proc[x].at /\ r.new = None /\ r.result = result
    <3>1. proc[x].at \in Attempts /\ proc[x].revision \in Nat \ {0}
      BY <1>1, StateIs DEF CredInv
    <3>2. None \in Grants \cup {None} /\ result \in {"connected", "rejected", "pending", "over"}
      OBVIOUS
    <3>3. r \in ProcStates
      BY <3>1, <3>2, StatesMade
    <3> QED
      BY <3>3
  <2>2. /\ proc' \in [Procs -> ProcStates] /\ proc'[x] = r
        /\ \A z \in Procs : z # x => proc'[z] = proc[z]
    BY <1>2, <2>1, OneMoves
  <2> HIDE DEF r
  <2>3. ProcsKnow'
    <3>1. attempt[proc[x].at].status # "none"
      BY <1>1 DEF CredInv, ProcsKnow, Knows, OnAttempt
    <3>2. Knows(x)'
      BY <1>1, <1>2, <2>1, <2>2, <3>1 DEF Knows, OnAttempt
    <3> QED
      BY <1>1, <2>2, <3>2, OthersKnow
  <2>4. RenewalsCarryOn /\ PollsCarryOn /\ \A z \in Procs : z # x => Held(z)' = Held(z)
    BY <2>1, <2>2 DEF RenewalsCarryOn, PollsCarryOn, Got, Granted, OnRow, Renewing, Held
  <2>5. PlacesStand
    <3>1. Held(x) = {}
      BY <1>1, EmptyHanded
    <3> QED
      BY <1>1, <2>4, <3>1, NothingDropped
  <2>6. TypeOK'
    BY <1>1, <1>2, TypesAre, TypesNext DEF CredInv
  <2>7. /\ AttemptsStand /\ RowsStand /\ PointersStand /\ GrantsStand /\ JobsStand
        /\ RevocationIsReportedTruly'
    BY <1>1, <1>2, Unmoved
  <2> QED
    BY <2>2, <2>3, <2>4, <2>5, <2>6, <2>7, CalmHolds
<1> QED
  BY <1>1, <1>2, IssueHolds DEF PollDevice

-----------------------------------------------------------------------------
(* Faults, and a provider that is deleted. *)

\* The provider revokes a grant that no row and no request has.
LEMMA Revoked ==
  ASSUME CredInv, NEW g \in Grants, grant' = [grant EXCEPT ![g].state = "revoked"],
         grant[g].state # "none", \A c \in Creds : credential[c].grant # g,
         \A z \in Procs : ~ (Got(z)' /\ proc'[z].new = g) /\ ~ (Granted(z)' /\ proc'[z].new = g),
         UNCHANGED <<credential, jobs>>
  PROVE  grant' \in [Grants -> GrantRow] /\ GrantsStand /\ RevocationIsReportedTruly'
<1>1. grant \in [Grants -> GrantRow]
  BY TypesAre DEF CredInv
<1>2. /\ grant' \in [Grants -> GrantRow]
      /\ \A h \in Grants : /\ grant'[h].of = grant[h].of
                           /\ h # g => grant'[h].state = grant[h].state
      /\ grant'[g].state = "revoked"
  BY <1>1 DEF GrantRow
<1>3. GrantsStand
  BY <1>2 DEF GrantsStand
<1>4. RevocationIsReportedTruly'
  <2>1. \A k \in DOMAIN jobs : jobs[k].grant \in Grants
    BY TypesAre DEF CredInv, JobRow
  <2> QED
    BY <1>2, <2>1 DEF CredInv, RevocationIsReportedTruly
<1> QED
  BY <1>2, <1>3, <1>4

\* A request stops; what it held is lost, or revoked.
LEMMA StopHolds ==
  ASSUME CredInv, NEW x \in Procs, UNCHANGED <<provider, credential, attempt, jobs>>,
         proc' = [proc EXCEPT ![x] = Idle], lost \subseteq lost', lost' \subseteq Grants,
         \A g \in Held(x) : g \in lost' \/ grant'[g].state # "live",
         \/ grant' = grant
         \/ \E g \in Grants : /\ grant' = [grant EXCEPT ![g].state = "revoked"]
                              /\ grant[g].state # "none" /\ \A c \in Creds : credential[c].grant # g
                              /\ \A z \in Procs : z # x => g \notin Held(z)
  PROVE  CredInv' /\ Fenced
<1>1. RowsStand /\ PointersStand /\ AttemptsStand /\ JobsStand
  BY Unmoved
<1>2. /\ proc' \in [Procs -> ProcStates] /\ ProcsKnow' /\ RenewalsCarryOn /\ PollsCarryOn
      /\ \A z \in Procs : z # x => Held(z)' = Held(z) /\ proc'[z] = proc[z]
      /\ ~ Got(x)' /\ ~ Granted(x)'
  BY <1>1, Goes, StatesMade DEF Idle
<1>3. grant' \in [Grants -> GrantRow] /\ GrantsStand /\ RevocationIsReportedTruly'
  <2>1. CASE grant' = grant
    BY <2>1, Unmoved, TypesAre DEF CredInv
  <2>2. CASE grant' # grant
    <3>1. PICK g \in Grants : /\ grant' = [grant EXCEPT ![g].state = "revoked"]
                              /\ grant[g].state # "none" /\ \A c \in Creds : credential[c].grant # g
                              /\ \A z \in Procs : z # x => g \notin Held(z)
      BY <2>2
    <3>2. \A z \in Procs : ~ (Got(z)' /\ proc'[z].new = g) /\ ~ (Granted(z)' /\ proc'[z].new = g)
      <4> SUFFICES ASSUME NEW z \in Procs, Got(z)' \/ Granted(z)' PROVE proc'[z].new # g
        OBVIOUS
      <4>1. z # x /\ (Got(z) \/ Granted(z)) /\ proc'[z] = proc[z]
        BY <1>2 DEF RenewalsCarryOn, PollsCarryOn
      <4>2. Held(z) = {proc[z].new}
        BY <4>1, HoldingIs DEF CredInv
      <4> QED
        BY <3>1, <4>1, <4>2
    <3> QED
      BY <3>1, <3>2, Revoked
  <2> QED
    BY <2>1, <2>2
<1>4. TypeOK'
  BY <1>3, TypesAre, TypesNext DEF CredInv
<1>5. PlacesStand
  BY <1>2, NothingDropped
<1> QED
  BY <1>1, <1>2, <1>3, <1>4, <1>5, CalmHolds

LEMMA HeldAreGrants ==
  ASSUME CredInv, NEW x \in Procs
  PROVE  Held(x) \subseteq Grants
BY HoldingIs DEF CredInv

LEMMA CrashHolds ==
  ASSUME CredInv, NEW x \in Procs, Crash(x)
  PROVE  CredInv' /\ Fenced
<1>1. /\ UNCHANGED <<provider, credential, attempt, jobs>>
      /\ proc' = [proc EXCEPT ![x] = Idle] /\ lost' = lost \cup Held(x)
      /\ \/ grant' = grant
         \/ proc[x].pc = "revoke" /\ grant' = [grant EXCEPT ![proc[x].grant].state = "revoked"]
  BY DEF Crash
<1>2. lost' \subseteq Grants
  BY <1>1, HeldAreGrants DEF CredInv, TypeOK
<1>3. CASE grant' = grant
  BY <1>1, <1>2, <1>3, StopHolds
<1>4. CASE proc[x].pc = "revoke" /\ grant' = [grant EXCEPT ![proc[x].grant].state = "revoked"]
  <2>1. proc[x].job \in DOMAIN jobs /\ proc[x].grant = jobs[proc[x].job].grant
    BY <1>4 DEF CredInv, ProcsKnow, Knows
  <2>2. proc[x].grant \in Grants
    BY <2>1, TypesAre DEF CredInv, JobRow
  <2>3. /\ grant[proc[x].grant].state # "none" /\ \A c \in Creds : credential[c].grant # proc[x].grant
        /\ \A z \in Procs : proc[x].grant \notin Held(z)
    BY <2>1 DEF CredInv, GrantsAre
  <2> QED
    BY <1>1, <1>2, <1>4, <2>2, <2>3, StopHolds
<1> QED
  BY <1>1, <1>3, <1>4

LEMMA EnqueueFailsHolds ==
  ASSUME CredInv, NEW x \in Procs, EnqueueFails(x)
  PROVE  CredInv' /\ Fenced
<1>1. /\ UNCHANGED <<provider, credential, attempt, jobs>>
      /\ proc' = [proc EXCEPT ![x] = Idle] /\ Held(x) # {}
      /\ \/ grant' = [grant EXCEPT ![proc[x].new].state = "revoked"] /\ lost' = lost
         \/ lost' = lost \cup Held(x) /\ grant' = grant
  BY DEF EnqueueFails
<1>2. Held(x) = {proc[x].new} /\ proc[x].new \in Grants
  BY <1>1, HoldingIs DEF CredInv
<1>3. lost' \subseteq Grants /\ lost \subseteq lost'
  BY <1>1, <1>2 DEF CredInv, TypeOK
<1>4. CASE lost' = lost \cup Held(x) /\ grant' = grant
  BY <1>1, <1>2, <1>3, <1>4, StopHolds
<1>5. CASE grant' = [grant EXCEPT ![proc[x].new].state = "revoked"]
  <2>1. /\ grant[proc[x].new].state # "none" /\ \A c \in Creds : credential[c].grant # proc[x].new
        /\ \A z \in Procs : z # x => proc[x].new \notin Held(z)
    BY <1>2 DEF CredInv, GrantsAre
  <2>2. grant'[proc[x].new].state = "revoked"
    BY <1>2, <1>5, TypesAre DEF CredInv, GrantRow
  <2> QED
    BY <1>1, <1>2, <1>3, <1>5, <2>1, <2>2, StopHolds
<1> QED
  BY <1>1, <1>4, <1>5

LEMMA StillHolds ==
  ASSUME CredInv, UNCHANGED <<provider, grant, proc, lost>>, TypeOK', RowsStand, AttemptsStand, JobsStand,
         \A k \in DOMAIN jobs : jobs'[k].status = jobs[k].status, RevocationIsReportedTruly'
  PROVE  CredInv' /\ Fenced
<1>1. PointersStand /\ GrantsStand
  BY Unmoved
<1>2. /\ proc' \in [Procs -> ProcStates] /\ ProcsKnow' /\ RenewalsCarryOn /\ PollsCarryOn
      /\ \A z \in Procs : Held(z)' = Held(z)
  BY NobodyGoes
<1>3. PlacesStand
  BY <1>2 DEF PlacesStand
<1> QED
  BY <1>1, <1>2, <1>3, CalmHolds

LEMMA LapseHolds ==
  ASSUME CredInv, Lapse
  PROVE  CredInv' /\ Fenced
<1>1. UNCHANGED <<provider, grant, proc, lost>>
  BY DEF Lapse
<1>2. ASSUME NEW c \in Creds, credential[c].lease # None, credential' = [credential EXCEPT ![c].late = TRUE],
             UNCHANGED <<attempt, jobs>>
      PROVE  CredInv' /\ Fenced
  <2> DEFINE row == [credential[c] EXCEPT !.late = TRUE]
  <2>1. /\ row \in CredentialRow /\ row.provider = credential[c].provider
        /\ row.account = credential[c].account /\ row.revision = credential[c].revision
        /\ row.grant = credential[c].grant /\ row.revocation = credential[c].revocation
        /\ row.status = credential[c].status
    BY TypesAre DEF CredInv, CredentialRow
  <2>2. Live(c) /\ credential[c].status = "connected"
    BY <1>2 DEF CredInv, RowsAre, Live
  <2>3. credential' = [credential EXCEPT ![c] = row]
    BY <1>2
  <2> HIDE DEF row
  <2>4. credential' \in [Creds -> CredentialRow] /\ RowsStand /\ RevocationIsReportedTruly'
    BY <1>1, <1>2, <2>1, <2>2, <2>3, RowWritten
  <2>5. TypeOK' /\ AttemptsStand /\ JobsStand
    BY <1>1, <1>2, <2>4, TypesAre, TypesNext, Unmoved DEF CredInv
  <2> QED
    BY <1>1, <1>2, <2>4, <2>5, StillHolds
<1>3. ASSUME NEW a \in Attempts, attempt[a].lease # None, attempt' = [attempt EXCEPT ![a].late = TRUE],
             UNCHANGED <<credential, jobs>>
      PROVE  CredInv' /\ Fenced
  <2> DEFINE row == [attempt[a] EXCEPT !.late = TRUE]
  <2>1. attempt[a].status = "pending" /\ attempt[a].revision # 0 /\ attempt[a].provider \in Providers
    BY <1>3 DEF CredInv, AttemptsAre, Active
  <2>2. /\ row \in AttemptRow /\ row.provider = attempt[a].provider /\ row.status = attempt[a].status
        /\ row.revision = attempt[a].revision /\ row.lease = attempt[a].lease
    BY TypesAre DEF CredInv, AttemptRow
  <2>3. attempt' = [attempt EXCEPT ![a] = row]
    BY <1>3
  <2> HIDE DEF row
  <2>4. attempt' \in [Attempts -> AttemptRow] /\ AttemptsStand
    BY <2>1, <2>2, <2>3, AttemptChanged
  <2>5. TypeOK' /\ RowsStand /\ JobsStand /\ RevocationIsReportedTruly'
    BY <1>1, <1>3, <2>4, TypesAre, TypesNext, Unmoved DEF CredInv
  <2> QED
    BY <1>1, <1>3, <2>4, <2>5, StillHolds
<1>4. ASSUME NEW k \in DOMAIN jobs, jobs' = [jobs EXCEPT ![k].late = TRUE],
             UNCHANGED <<credential, attempt>>
      PROVE  CredInv' /\ Fenced
  <2> DEFINE j == [jobs[k] EXCEPT !.late = TRUE]
  <2>1. /\ j \in JobRow /\ j.grant = jobs[k].grant /\ j.status = jobs[k].status
        /\ jobs' = [jobs EXCEPT ![k] = j]
    BY <1>4, TypesAre DEF CredInv, JobRow
  <2> HIDE DEF j
  <2>2. /\ DOMAIN jobs' = DOMAIN jobs
        /\ \A q \in DOMAIN jobs : /\ jobs'[q] = jobs[q] \/ jobs'[q] = j
                                  /\ jobs'[q].grant = jobs[q].grant /\ jobs'[q].status = jobs[q].status
    BY <2>1
  <2>3. TypeOK' /\ RowsStand /\ AttemptsStand
    BY <1>1, <1>4, <2>1, <2>2, TypesAre, TypesNext, Unmoved DEF CredInv
  <2>4. JobsStand /\ RevocationIsReportedTruly'
    BY <1>1, <1>4, <2>2 DEF JobsStand, CredInv, RevocationIsReportedTruly
  <2> QED
    BY <1>1, <2>2, <2>3, <2>4, StillHolds
<1> QED
  BY <1>2, <1>3, <1>4 DEF Lapse

LEMMA ProviderDeletedHolds ==
  ASSUME CredInv, NEW p \in Providers, Delete(p)
  PROVE  CredInv' /\ Fenced
<1> DEFINE row == [provider[p] EXCEPT !.status = "deleted", !.epoch = @ + 1]
<1>1. /\ UNCHANGED <<credential, attempt, jobs, grant, proc, lost, faults>>
      /\ ~ \E c \in Creds : Live(c) /\ credential[c].provider = p
      /\ provider' = [provider EXCEPT ![p] = row]
  BY DEF Delete
<1>2. row \in ProviderRow /\ row.credential = provider[p].credential
  <2>1. provider[p] \in ProviderRow
    BY TypesAre DEF CredInv
  <2>2. provider[p].epoch + 1 \in Nat \ {0}
    BY <2>1 DEF ProviderRow
  <2> QED
    BY <2>1, <2>2 DEF ProviderRow
<1> HIDE DEF row
<1>3. /\ provider' \in [Providers -> ProviderRow] /\ provider'[p] = row
      /\ \A q \in Providers : q # p => provider'[q] = provider[q]
  BY <1>1, <1>2, TypesAre DEF CredInv
<1>4. PointersStand
  BY <1>1, <1>2, <1>3 DEF PointersStand
<1>5. /\ RowsStand /\ AttemptsStand /\ JobsStand /\ GrantsStand /\ RevocationIsReportedTruly'
  BY <1>1, Unmoved
<1>6. /\ proc' \in [Procs -> ProcStates] /\ ProcsKnow' /\ RenewalsCarryOn /\ PollsCarryOn
      /\ \A z \in Procs : Held(z)' = Held(z)
  BY <1>1, <1>5, NobodyGoes
<1>7. PlacesStand
  BY <1>1, <1>6 DEF PlacesStand
<1>8. TypeOK'
  BY <1>1, <1>3, TypesAre, TypesNext DEF CredInv
<1> QED
  BY <1>4, <1>5, <1>6, <1>7, <1>8, CalmHolds

-----------------------------------------------------------------------------
(* Rows that are connected and disconnected. *)

\* Rows are written anew, of the next epoch and revision: one of them, old, gives its grant
\* to the outbox, and one of them, row, takes the grant the request carries.
Rewrites(x, S, old, row, k, j) ==
  /\ UNCHANGED <<grant, lost>>
  /\ provider' \in [Providers -> ProviderRow] /\ credential' \in [Creds -> CredentialRow]
  /\ attempt' \in [Attempts -> AttemptRow] /\ AttemptsStand
  /\ jobs' = IF old = None THEN jobs ELSE Enqueued(k, j)
  /\ proc' = [proc EXCEPT ![x] = IF old = None THEN Idle ELSE ThenWork(k)]
  /\ old # None => /\ k \in Keys /\ j \in JobRow
                   /\ Live(old) /\ j.grant = credential[old].grant /\ j.status = "pending"
                   /\ k.source[1] = "credential" /\ k.source[2] = old
                   /\ k.revision = credential[old].revision
                   /\ k.reason \in {"disconnect", "replacement"}
                   /\ k.reason = "disconnect" => credential'[old].status = "disconnected"
  /\ row = None => Held(x) = {}
  /\ row # None => proc[x].pc = "polled" /\ Held(x) = {proc[x].new}
  /\ \A d \in Creds : d \notin S => credential'[d] = credential[d]
  /\ \A d \in S : /\ credential[d].status # "disconnected" /\ (Live(d) => d = old)
                  /\ credential'[d].revision = credential[d].revision + 1
                  /\ credential'[d].epoch = credential[d].epoch + 1
                  /\ credential'[d].lease = None
                  /\ credential'[d].grant = (IF d = row THEN proc[x].new ELSE None)
                  /\ (Live(d)' <=> d = row)
                  /\ (d = row => credential'[d].provider \in Providers)
                  /\ (d \in Attempts /\ credential[d] = NoCredential => attempt'[d].status = "ended")
  /\ \A d \in Creds :
       credential[d].provider \in Providers
       /\ (Live(d) => provider[credential[d].provider].credential = d)
         => /\ credential'[d].provider \in Providers
            /\ (Live(d)' => provider'[credential'[d].provider].credential = d)
  /\ PointerNamesTheAccount'

LEMMA RowsChange ==
  ASSUME CredInv, NEW x \in Procs, NEW S \in SUBSET Creds, NEW old \in S \cup {None},
         NEW row \in S \cup {None}, NEW k, NEW j, Rewrites(x, S, old, row, k, j)
  PROVE  CredInv' /\ Fenced
<1> USE DEF Rewrites
<1>1. /\ DOMAIN jobs \subseteq DOMAIN jobs' /\ DOMAIN jobs' \subseteq Keys
      /\ \A q \in DOMAIN jobs' : jobs'[q] \in JobRow
      /\ \A q \in DOMAIN jobs : jobs'[q] = jobs[q]
      /\ \A q \in DOMAIN jobs' : q \in DOMAIN jobs \/ (old # None /\ q = k /\ jobs'[q] = j)
      /\ old # None => k \in DOMAIN jobs' /\ k \notin DOMAIN jobs /\ jobs'[k] = j
  <2>1. CASE old = None
    BY <2>1, TypesAre DEF CredInv
  <2>2. CASE old # None
    <3>1. k \notin DOMAIN jobs
      <4>1. credential[old].revision \in Nat
        BY <2>2, TypesAre DEF CredInv, CredentialRow
      <4>2. k \in DOMAIN jobs => /\ k.reason = "disconnect" => credential[old].status = "disconnected"
                                 /\ k.reason = "replacement" => k.revision < credential[old].revision
        BY <2>2 DEF CredInv, KeysAre, KeyTells
      <4> QED
        BY <2>2, <4>1, <4>2 DEF Live
    <3>2. k \in Keys /\ j \in JobRow /\ jobs' = Enqueued(k, j)
      BY <2>2
    <3>3. /\ DOMAIN jobs' = DOMAIN jobs \cup {k}
          /\ \A q \in DOMAIN jobs : jobs'[q] = jobs[q]
          /\ jobs'[k] = j
          /\ DOMAIN jobs' \subseteq Keys /\ \A q \in DOMAIN jobs' : jobs'[q] \in JobRow
      BY <3>1, <3>2, EnqueuedIs
    <3> QED
      BY <2>2, <3>1, <3>3
  <2> QED
    BY <2>1, <2>2
<1>2. /\ proc' \in [Procs -> ProcStates] /\ ProcsKnow' /\ RenewalsCarryOn /\ PollsCarryOn
      /\ \A z \in Procs : z # x => proc'[z] = proc[z] /\ Held(z)' = Held(z)
      /\ ~ Got(x)' /\ ~ Granted(x)' /\ ~ Renewing(x)' /\ Held(x)' = {}
  <2>1. CASE old = None
    BY <1>1, <2>1, Goes, StatesMade DEF Idle
  <2>2. CASE old # None
    <3>1. ThenWork(k) \in ProcStates /\ ThenWork(k).pc = "work" /\ ThenWork(k).job = k
      BY <2>2, StatesMade DEF ThenWork
    <3> QED
      BY <1>1, <2>2, <3>1, Goes
  <2> QED
    BY <2>1, <2>2
<1>3. TypeOK'
  BY <1>1, TypesAre, TypesNext DEF CredInv
<1>4. \A d \in Creds :
        /\ credential[d] \in CredentialRow /\ credential[d].revision \in Nat
        /\ credential[d].epoch \in Nat /\ credential[d].grant \in Grants \cup {None}
        /\ credential'[d].revision \in Nat /\ credential[d].revision <= credential'[d].revision
        /\ d \in S => credential[d].revision < credential'[d].revision
                      /\ credential'[d].epoch # credential[d].epoch
        /\ d \notin S => credential'[d] = credential[d] /\ (Live(d)' <=> Live(d))
  <2> SUFFICES ASSUME NEW d \in Creds
               PROVE  /\ credential[d] \in CredentialRow /\ credential[d].revision \in Nat
                      /\ credential[d].epoch \in Nat /\ credential[d].grant \in Grants \cup {None}
                      /\ credential'[d].revision \in Nat
                      /\ credential[d].revision <= credential'[d].revision
                      /\ d \in S => credential[d].revision < credential'[d].revision
                                    /\ credential'[d].epoch # credential[d].epoch
                      /\ d \notin S => credential'[d] = credential[d] /\ (Live(d)' <=> Live(d))
    OBVIOUS
  <2>1. /\ credential[d] \in CredentialRow /\ credential[d].revision \in Nat
        /\ credential[d].epoch \in Nat /\ credential[d].grant \in Grants \cup {None}
    BY TypesAre DEF CredInv, CredentialRow
  <2>2. d \notin S => credential'[d] = credential[d] /\ (Live(d)' <=> Live(d))
    BY DEF Live
  <2> QED
    BY <2>1, <2>2
<1>5. row # None => /\ proc[x].new \in Grants /\ grant[proc[x].new].state \in {"live", "spent"}
                    /\ \A d \in Creds : credential[d].grant # proc[x].new
                    /\ \A q \in DOMAIN jobs : jobs[q].grant # proc[x].new
                    /\ \A z \in Procs : z # x => proc[x].new \notin Held(z)
  BY HoldingIs DEF CredInv, GrantsAre
<1>6. old # None => /\ old \in Creds /\ grant[j.grant].state \in {"live", "spent"} /\ j.grant \in Grants
                    /\ \A d \in Creds : d \notin S => credential'[d].grant # j.grant
                    /\ (row # None => j.grant # proc[x].new)
  <2> SUFFICES ASSUME old # None
               PROVE  /\ old \in Creds /\ grant[j.grant].state \in {"live", "spent"} /\ j.grant \in Grants
                      /\ \A d \in Creds : d \notin S => credential'[d].grant # j.grant
                      /\ (row # None => j.grant # proc[x].new)
    OBVIOUS
  <2>1. old \in Creds /\ old \in S /\ Live(old)
    OBVIOUS
  <2>2. grant[j.grant].state \in {"live", "spent"} /\ j.grant \in Grants
    BY <2>1 DEF CredInv, GrantsAre, JobRow
  <2>3. \A d \in Creds : d \notin S => credential[d].grant # credential[old].grant
    BY <2>1 DEF CredInv, GrantsAre
  <2> QED
    BY <1>4, <1>5, <2>1, <2>2, <2>3
<1>0. /\ \A d \in S : Live(d) => old # None
      /\ \A d \in S : \/ credential'[d].grant = None
                      \/ row # None /\ credential'[d].grant = proc[x].new
  <2>1. \A d \in S : d # None
    BY Constants
  <2>2. ASSUME NEW d \in S, Live(d) PROVE old # None
    <3>1. d = old
      BY <2>2 DEF Live
    <3> QED
      BY <3>1, <2>1
  <2>3. ASSUME NEW d \in S
        PROVE  \/ credential'[d].grant = None
               \/ row # None /\ credential'[d].grant = proc[x].new
    BY <2>1
  <2> QED
    BY <2>2, <2>3 DEF Live
<1>7. AttemptsAre'
  <2> SUFFICES ASSUME NEW a \in Attempts
               PROVE  /\ attempt'[a].status # "none" => attempt'[a].provider \in Providers
                      /\ attempt'[a].lease # None => attempt'[a].status = "pending"
                      /\ Active(a)' => attempt'[a].revision # 0
                      /\ attempt'[a].status # "ended" => credential'[a] = NoCredential
    BY DEF AttemptsAre
  <2>1. attempt[a].status # "ended" => credential[a] = NoCredential
    BY DEF CredInv, AttemptsAre
  <2>2. attempt[a].status = "ended" => attempt'[a].status = "ended"
    BY DEF AttemptsStand
  <2>3. a \in Creds
    BY Constants
  <2>4. attempt'[a].status # "ended" => credential'[a] = NoCredential
    BY <1>4, <2>1, <2>2, <2>3
  <2> QED
    BY <2>4 DEF AttemptsStand, Active
<1>8. RowsAre'
  <2> SUFFICES ASSUME NEW d \in Creds
               PROVE  /\ (Live(d)' <=> credential'[d].grant # None)
                      /\ Live(d)' => credential'[d].provider \in Providers /\ credential'[d].revision # 0
                      /\ credential'[d].lease # None => credential'[d].status = "connected"
    BY DEF RowsAre
  <2>1. CASE d \notin S
    BY <1>4, <2>1 DEF CredInv, RowsAre
  <2>2. CASE d \in S
    <3>1. d = row => proc[x].new # None
      BY <1>5, <2>2, Constants
    <3>2. credential'[d].revision # 0
      BY <1>4, <2>2
    <3> QED
      BY <2>2, <3>1, <3>2
  <2> QED
    BY <2>1, <2>2
<1>9. RenewalsAre'
  <2>1. ASSUME NEW z \in Procs, OnRow(z)'
        PROVE  /\ credential'[proc'[z].cred].provider \in Providers
               /\ Live(proc[z].cred)' =>
                    provider'[credential'[proc'[z].cred].provider].credential = proc'[z].cred
    <3>1. OnRow(z) /\ proc'[z].cred = proc[z].cred
      BY <1>2, <2>1 DEF RenewalsCarryOn
    <3>2. proc[z].cred \in Creds
      BY <3>1, StateIs DEF CredInv, OnRow, Renewing
    <3>3. /\ credential[proc[z].cred].provider \in Providers
          /\ Live(proc[z].cred) =>
               provider[credential[proc[z].cred].provider].credential = proc[z].cred
      BY <3>1 DEF CredInv, RenewalsAre
    <3> QED
      BY <3>1, <3>2, <3>3
  <2>2. ASSUME NEW z \in Procs, Renewing(z)'
        PROVE  /\ proc'[z].revision <= credential'[proc'[z].cred].revision
               /\ proc'[z].revision = credential'[proc'[z].cred].revision =>
                    proc'[z].grant = credential'[proc'[z].cred].grant
               /\ grant[proc'[z].grant].state # "none"
               /\ \A y \in Procs :
                    Renewing(y)' /\ proc'[y].cred = proc'[z].cred
                    /\ proc'[y].revision = proc'[z].revision => proc'[y].grant = proc'[z].grant
    <3>1. /\ Renewing(z) /\ proc'[z] = proc[z] /\ proc[z].cred \in Creds /\ proc[z].revision \in Nat
      BY <1>2, <2>2, RenewingIs DEF RenewalsCarryOn
    <3>2. /\ proc[z].revision <= credential[proc[z].cred].revision
          /\ proc[z].revision = credential[proc[z].cred].revision =>
               proc[z].grant = credential[proc[z].cred].grant
          /\ grant[proc[z].grant].state # "none"
          /\ \A y \in Procs :
               Renewing(y) /\ proc[y].cred = proc[z].cred /\ proc[y].revision = proc[z].revision
                 => proc[y].grant = proc[z].grant
      BY <3>1 DEF CredInv, RenewalsAre
    <3>3. \A y \in Procs : Renewing(y)' => Renewing(y) /\ proc'[y] = proc[y]
      BY <1>2 DEF RenewalsCarryOn
    <3>4. /\ proc[z].revision <= credential'[proc[z].cred].revision
          /\ proc[z].revision = credential'[proc[z].cred].revision =>
               proc[z].grant = credential'[proc[z].cred].grant
      BY <1>4, <3>1, <3>2
    <3> QED
      BY <3>1, <3>2, <3>3, <3>4
  <2>3. ASSUME NEW z \in Procs, Got(z)'
        PROVE  /\ grant[proc'[z].grant].state # "live"
               /\ grant[proc'[z].new].of = grant[proc'[z].grant].of
    <3>1. Got(z) /\ proc'[z] = proc[z]
      BY <1>2, <2>3 DEF RenewalsCarryOn
    <3> QED
      BY <3>1 DEF CredInv, RenewalsAre
  <2> QED
    BY <2>1, <2>2, <2>3 DEF RenewalsAre
<1>10. GrantsAre'
  <2>1. ASSUME NEW e \in Creds, Live(e)'
        PROVE  /\ grant[credential'[e].grant].state \in {"live", "spent"}
               /\ \A d \in Creds : credential'[d].grant = credential'[e].grant => e = d
    <3>1. CASE e \in S
      <4>1. e = row /\ credential'[e].grant = proc[x].new /\ row # None
        BY <2>1, <3>1, Constants
      <4>2. proc[x].new # None
        BY <1>5, <4>1, Constants
      <4> QED
        BY <1>4, <1>5, <4>1, <4>2
    <3>2. CASE e \notin S
      <4>1. Live(e) /\ credential'[e] = credential[e] /\ credential[e].grant # None
        BY <1>4, <2>1, <3>2 DEF CredInv, RowsAre
      <4>2. /\ grant[credential[e].grant].state \in {"live", "spent"}
            /\ \A d \in Creds : credential[d].grant = credential[e].grant => e = d
        BY <4>1 DEF CredInv, GrantsAre
      <4>3. \A d \in S : credential'[d].grant # credential[e].grant
        BY <1>0, <1>5, <4>1
      <4> QED
        BY <1>4, <4>1, <4>2, <4>3
    <3> QED
      BY <3>1, <3>2
  <2>2. ASSUME NEW z \in Procs, NEW h \in Held(z)'
        PROVE  /\ grant[h].state \in {"live", "spent"}
               /\ \A d \in Creds : credential'[d].grant # h
               /\ \A q \in DOMAIN jobs' : jobs'[q].grant # h
               /\ \A y \in Procs : h \in Held(y)' => y = z
    <3>1. z # x /\ h \in Held(z) /\ h # None
      BY <1>2, <2>2, HoldingIs, Constants DEF CredInv
    <3>2. /\ grant[h].state \in {"live", "spent"} /\ \A d \in Creds : credential[d].grant # h
          /\ \A q \in DOMAIN jobs : jobs[q].grant # h
          /\ \A y \in Procs : h \in Held(y) => y = z
      BY <3>1 DEF CredInv, GrantsAre
    <3>3. \A d \in Creds : credential'[d].grant # h
      BY <1>0, <1>4, <1>5, <3>1, <3>2
    <3>4. \A q \in DOMAIN jobs' : jobs'[q].grant # h
      BY <1>1, <1>6, <3>2
    <3> QED
      BY <1>2, <3>1, <3>2, <3>3, <3>4
  <2>3. ASSUME NEW q \in DOMAIN jobs'
        PROVE  /\ grant[jobs'[q].grant].state # "none"
               /\ \A d \in Creds : credential'[d].grant # jobs'[q].grant
    <3>1. jobs'[q].grant \in Grants /\ jobs'[q].grant # None
      BY <1>1, Constants DEF JobRow
    <3>2. CASE q \in DOMAIN jobs
      <4>1. jobs'[q] = jobs[q] /\ grant[jobs[q].grant].state # "none"
            /\ \A d \in Creds : credential[d].grant # jobs[q].grant
        BY <1>1, <3>2 DEF CredInv, GrantsAre
      <4> QED
        BY <1>0, <1>4, <1>5, <3>1, <3>2, <4>1
    <3>3. CASE q \notin DOMAIN jobs
      <4>1. old # None /\ jobs'[q] = j
        BY <1>1, <3>3
      <4> QED
        BY <1>0, <1>6, <3>1, <4>1
    <3> QED
      BY <3>2, <3>3
  <2>4. \A g \in Grants : grant'[g].state = "none" => grant'[g].of = None
    BY DEF CredInv, GrantsAre
  <2> QED
    BY <2>1, <2>2, <2>3, <2>4 DEF GrantsAre
<1>11. PollsAre'
  BY <1>2, PollsKept
<1>12. KeysAre'
  <2>1. ASSUME NEW q \in DOMAIN jobs PROVE KeyTells(q)'
    <3>1. q \in Keys /\ q.source[2] \in Creds /\ q.revision \in Nat /\ KeyTells(q)
      BY TypesAre, KeyIs DEF CredInv, KeysAre
    <3>2. q.reason = "disconnect" => credential'[q.source[2]] = credential[q.source[2]]
      BY <1>4, <3>1 DEF KeyTells
    <3>3. /\ q.reason \in {"disconnect", "replacement"} =>
               q.revision < credential'[q.source[2]].revision
          /\ q.reason = "renewal_rejected" => q.revision <= credential'[q.source[2]].revision
      BY <1>4, <3>1 DEF KeyTells
    <3> QED
      BY <1>2, <3>1, <3>2, <3>3 DEF KeyTells, PollsCarryOn
  <2>2. ASSUME NEW q \in DOMAIN jobs', q \notin DOMAIN jobs PROVE KeyTells(q)'
    <3>1. q = k /\ old # None /\ old \in Creds /\ old \in S
      BY <1>1, <2>2
    <3>2. /\ q.source[1] = "credential" /\ q.source[2] = old
          /\ q.revision = credential[old].revision /\ q.reason \in {"disconnect", "replacement"}
          /\ q.reason = "disconnect" => credential'[old].status = "disconnected"
      BY <3>1
    <3>3. q.revision < credential'[old].revision /\ credential'[old].revision = q.revision + 1
      BY <1>4, <3>1, <3>2
    <3> QED
      BY <3>2, <3>3 DEF KeyTells
  <2> QED
    BY <2>1, <2>2 DEF KeysAre
<1>13. RevocationIsReportedTruly'
  <2>1. ASSUME NEW q \in DOMAIN jobs, q.reason = "disconnect"
        PROVE  credential'[q.source[2]] = credential[q.source[2]]
    <3>1. q.source[2] \in Creds /\ credential[q.source[2]].status = "disconnected"
      BY <2>1, TypesAre, KeyIs DEF CredInv, KeysAre, KeyTells
    <3> QED
      BY <1>4, <3>1
  <2>2. \A q \in DOMAIN jobs' : \/ q \in DOMAIN jobs /\ jobs'[q] = jobs[q]
                                \/ jobs'[q].status = "pending"
    BY <1>1
  <2> QED
    BY <2>1, <2>2 DEF CredInv, RevocationIsReportedTruly
<1>14. ASSUME RotationSpends PROVE OnceSpent' /\ NoGrantIsForgotten'
  <2>1. OnceSpent /\ NoGrantIsForgotten
    BY <1>14 DEF CredInv
  <2>2. \A y, z \in Procs :
          Got(y)' /\ Got(z)' /\ proc'[y].cred = proc'[z].cred /\ proc'[y].revision = proc'[z].revision
            => y = z
    BY <1>2, <2>1 DEF OnceSpent, RenewalsCarryOn
  <2>3. ASSUME NEW q \in DOMAIN jobs' PROVE RejectionTells(q)'
    <3> SUFFICES ASSUME q.reason = "renewal_rejected"
                 PROVE  /\ credential'[q.source[2]].revision = q.revision /\ credential'[q.source[2]].grant # None
                             => grant[credential'[q.source[2]].grant].state # "live"
                        /\ \A y \in Procs :
                             Renewing(y)' /\ proc'[y].cred = q.source[2] /\ proc'[y].revision = q.revision
                               => ~ Got(y)' /\ grant[proc'[y].grant].state # "live"
      BY DEF RejectionTells
    <3>1. q \in DOMAIN jobs /\ q.source[2] \in Creds /\ q.revision \in Nat
          /\ q.revision <= credential[q.source[2]].revision /\ RejectionTells(q)
      BY <1>1, <2>1, KeyIs DEF CredInv, KeysAre, KeyTells, OnceSpent
    <3>2. q.source[2] \in S => credential'[q.source[2]].revision # q.revision
      BY <1>4, <3>1
    <3>3. \A y \in Procs : Renewing(y)' => /\ Renewing(y) /\ proc'[y] = proc[y]
                                           /\ Got(y)' => Got(y)
      BY <1>2 DEF RenewalsCarryOn
    <3> QED
      BY <1>4, <3>1, <3>2, <3>3 DEF RejectionTells
  <2>4. NoGrantIsForgotten'
    <3> SUFFICES ASSUME NEW g \in Grants, grant[g].state = "live"
                 PROVE  \/ \E d \in Creds : Live(d)' /\ credential'[d].grant = g
                        \/ \E z \in Procs : g \in Held(z)'
                        \/ \E q \in DOMAIN jobs' : jobs'[q].grant = g /\ jobs'[q].status # "succeeded"
                        \/ g \in lost
      BY DEF NoGrantIsForgotten
    <3>1. CASE \E d \in Creds : Live(d) /\ credential[d].grant = g
      <4>1. PICK d \in Creds : Live(d) /\ credential[d].grant = g
        BY <3>1
      <4>2. CASE d \in S
        BY <1>0, <1>1, <4>1, <4>2
      <4>3. CASE d \notin S
        BY <1>4, <4>1, <4>3 DEF Live
      <4> QED
        BY <4>2, <4>3
    <3>2. CASE \E z \in Procs : g \in Held(z)
      <4>1. PICK z \in Procs : g \in Held(z)
        BY <3>2
      <4>2. CASE z = x
        <5>1. row # None /\ row \in Creds /\ row \in S /\ g = proc[x].new
          BY <4>1, <4>2
        <5>2. Live(row)' /\ credential'[row].grant = g
          BY <5>1
        <5> QED
          BY <5>1, <5>2
      <4>3. CASE z # x
        BY <1>2, <4>1, <4>3
      <4> QED
        BY <4>2, <4>3
    <3>3. CASE \E q \in DOMAIN jobs : jobs[q].grant = g /\ jobs[q].status # "succeeded"
      BY <1>1, <3>3
    <3> QED
      BY <2>1, <3>1, <3>2, <3>3 DEF NoGrantIsForgotten
  <2> QED
    BY <2>2, <2>3, <2>4 DEF OnceSpent
<1>15. Fenced
  <2>1. ASSUME NEW d \in Creds, d \notin S PROVE Login(d)' = Login(d)
    BY <1>4, <2>1 DEF Login
  <2>2. ASSUME NEW d \in Creds, credential[d].status = "disconnected"
        PROVE  credential'[d].status = "disconnected" /\ credential'[d].grant = None
    BY <1>4, <2>2 DEF CredInv, RowsAre, Live
  <2> QED
    BY <1>4, <2>1, <2>2 DEF Fenced, AttemptsStand
<1> QED
  BY <1>2, <1>3, <1>7, <1>8, <1>9, <1>10, <1>11, <1>12, <1>13, <1>14, <1>15 DEF CredInv


LEMMA DisconnectedIs ==
  ASSUME CredInv, NEW d \in Creds, Live(d)
  PROVE  /\ DisconnectedRow(d) \in CredentialRow /\ DisconnectedRow(d).status = "disconnected"
         /\ DisconnectedRow(d).revision = credential[d].revision + 1
         /\ DisconnectedRow(d).epoch = credential[d].epoch + 1
         /\ DisconnectedRow(d).lease = None /\ DisconnectedRow(d).grant = None
         /\ DisconnectedRow(d).provider = credential[d].provider
         /\ [DisconnectedRow(d) EXCEPT !.provider = None] \in CredentialRow
         /\ [DisconnectedRow(d) EXCEPT !.provider = None].status = "disconnected"
         /\ [DisconnectedRow(d) EXCEPT !.provider = None].revision = credential[d].revision + 1
         /\ [DisconnectedRow(d) EXCEPT !.provider = None].epoch = credential[d].epoch + 1
         /\ [DisconnectedRow(d) EXCEPT !.provider = None].lease = None
         /\ [DisconnectedRow(d) EXCEPT !.provider = None].grant = None
<1>1. credential[d] \in CredentialRow
  BY TypesAre DEF CredInv
<1>2. credential[d].revision + 1 \in Nat /\ credential[d].epoch + 1 \in Nat
  BY <1>1 DEF CredentialRow
<1>3. /\ DisconnectedRow(d) \in CredentialRow /\ DisconnectedRow(d).status = "disconnected"
      /\ DisconnectedRow(d).revision = credential[d].revision + 1
      /\ DisconnectedRow(d).epoch = credential[d].epoch + 1
      /\ DisconnectedRow(d).lease = None /\ DisconnectedRow(d).grant = None
      /\ DisconnectedRow(d).provider = credential[d].provider
  BY <1>1, <1>2 DEF DisconnectedRow, CredentialRow
<1>4. ASSUME NEW row \in CredentialRow
      PROVE  /\ [row EXCEPT !.provider = None] \in CredentialRow
             /\ [row EXCEPT !.provider = None].status = row.status
             /\ [row EXCEPT !.provider = None].revision = row.revision
             /\ [row EXCEPT !.provider = None].epoch = row.epoch
             /\ [row EXCEPT !.provider = None].lease = row.lease
             /\ [row EXCEPT !.provider = None].grant = row.grant
  BY DEF CredentialRow
<1> QED
  BY <1>3, <1>4

LEMMA ConnectedIs ==
  ASSUME CredInv, NEW x \in Procs, NEW d \in Creds, proc[x].new \in Grants,
         attempt[proc[x].at].provider \in Providers
  PROVE  /\ ConnectedRow(x, d) \in CredentialRow /\ ConnectedRow(x, d).status = "connected"
         /\ ConnectedRow(x, d).revision = credential[d].revision + 1
         /\ ConnectedRow(x, d).epoch = credential[d].epoch + 1
         /\ ConnectedRow(x, d).lease = None /\ ConnectedRow(x, d).grant = proc[x].new
         /\ ConnectedRow(x, d).provider = attempt[proc[x].at].provider
         /\ ConnectedRow(x, d).account = grant[proc[x].new].account
<1>1. credential[d].revision + 1 \in Nat /\ credential[d].epoch + 1 \in Nat
  BY TypesAre DEF CredInv, CredentialRow
<1>2. grant[proc[x].new].account \in Accounts \cup {None}
  BY TypesAre DEF CredInv, GrantRow
<1> QED
  BY <1>1, <1>2 DEF ConnectedRow, NoCredential, CredentialRow

\* The administrator disconnects the account of a provider.
LEMMA DisconnectHolds ==
  ASSUME CredInv, NEW x \in Procs, NEW p \in Providers, Disconnect(x, p)
  PROVE  CredInv' /\ Fenced
<1>1. PICK c \in Creds : c = provider[p].credential
  BY TypesAre DEF Disconnect, CredInv, ProviderRow
<1> DEFINE k == Key("credential", c, credential[c].revision, "disconnect")
           j == NewJob(credential[c].grant, p, c)
           row == [provider[p] EXCEPT !.credential = None, !.epoch = @ + 1]
<1>2. /\ proc[x].pc = "idle" /\ c # None /\ Live(c) /\ jobs' = Enqueued(k, j)
      /\ attempt' = [a \in Attempts |->
             IF Active(a) /\ attempt[a].target = c THEN Ended(a) ELSE attempt[a]]
      /\ credential' = [credential EXCEPT ![c] = DisconnectedRow(c)]
      /\ provider' = [provider EXCEPT ![p] = row]
      /\ proc' = [proc EXCEPT ![x] = ThenWork(k)]
      /\ UNCHANGED <<grant, lost, faults>>
  BY <1>1 DEF Disconnect
<1>20. /\ credential[c].provider = p /\ credential[c] \in CredentialRow
       /\ credential[c].revision \in Nat \ {0} /\ credential[c].grant \in Grants
  <2>1. credential[c].provider = p
    BY <1>1, <1>2 DEF CredInv, PointerNamesTheAccount
  <2>2. credential[c] \in CredentialRow
    BY TypesAre DEF CredInv
  <2>3. credential[c].grant # None /\ credential[c].revision # 0
    BY <1>2 DEF CredInv, RowsAre
  <2> QED
    BY <2>1, <2>2, <2>3 DEF CredentialRow
<1>3. /\ k \in Keys /\ k.source[1] = "credential" /\ k.source[2] = c
      /\ k.revision = credential[c].revision /\ k.reason = "disconnect"
  BY <1>20, KeyMade
<1>4. j \in JobRow /\ j.grant = credential[c].grant /\ j.status = "pending"
  BY <1>20, JobMade
<1>5. row \in ProviderRow /\ row.credential = None /\ row.status = provider[p].status
  <2>1. provider[p] \in ProviderRow
    BY TypesAre DEF CredInv
  <2>2. provider[p].epoch + 1 \in Nat \ {0}
    BY <2>1 DEF ProviderRow
  <2> QED
    BY <2>1, <2>2 DEF ProviderRow
<1> HIDE DEF k, j, row
<1>6. /\ provider' \in [Providers -> ProviderRow] /\ provider'[p] = row
      /\ \A q \in Providers : q # p => provider'[q] = provider[q]
  BY <1>1, <1>2, <1>5, TypesAre DEF CredInv
<1>7. /\ credential' \in [Creds -> CredentialRow] /\ credential'[c] = DisconnectedRow(c)
      /\ \A d \in Creds : d # c => credential'[d] = credential[d] /\ (Live(d)' <=> Live(d))
  <2>1. credential \in [Creds -> CredentialRow] /\ DisconnectedRow(c) \in CredentialRow
    BY <1>1, <1>2, <1>20, TypesAre, DisconnectedIs DEF CredInv
  <2>2. /\ credential' \in [Creds -> CredentialRow] /\ credential'[c] = DisconnectedRow(c)
        /\ \A d \in Creds : d # c => credential'[d] = credential[d]
    BY <1>1, <1>2, <1>20, <2>1
  <2> QED
    BY <2>2 DEF Live
<1>8. attempt' \in [Attempts -> AttemptRow] /\ AttemptsStand
  <2>1. \A a \in Attempts : Active(a) =>
          /\ attempt[a].status # "ended" /\ attempt[a].status # "none" /\ Ended(a) \in AttemptRow
          /\ Ended(a).status = "ended" /\ Ended(a).lease = None /\ Ended(a).provider \in Providers
    BY EndedIs DEF Active
  <2>2. \A a \in Attempts : /\ attempt'[a] = attempt[a] \/ (Active(a) /\ attempt'[a] = Ended(a))
                            /\ attempt[a] \in AttemptRow
    BY <1>1, <1>2, TypesAre DEF CredInv
  <2>3. attempt' \in [Attempts -> AttemptRow]
    BY <1>1, <1>2, <2>1, <2>2
  <2>4. AttemptsStand
    BY <2>1, <2>2 DEF AttemptsStand, CredInv, AttemptsAre, Active
  <2> QED
    BY <2>3, <2>4
<1>9. /\ credential'[c].status = "disconnected" /\ ~ Live(c)'
      /\ credential'[c].revision = credential[c].revision + 1
      /\ credential'[c].epoch = credential[c].epoch + 1
      /\ credential'[c].lease = None /\ credential'[c].grant = None
      /\ credential'[c].provider = p
  <2>1. credential'[c].status = "disconnected"
    BY <1>1, <1>2, <1>20, <1>7, DisconnectedIs
  <2> QED
    BY <1>2, <1>20, <1>7, <2>1, DisconnectedIs DEF Live
<1>10. PointerNamesTheAccount'
  <2>1. ASSUME NEW q \in Providers, provider'[q].credential # None
        PROVE  Live(provider[q].credential)' /\ credential'[provider'[q].credential].provider = q
    <3>1. q # p /\ provider'[q] = provider[q]
      BY <1>5, <1>6, <2>1
    <3>2. provider[q].credential \in Creds /\ Live(provider[q].credential)
          /\ credential[provider[q].credential].provider = q
      BY <2>1, <3>1, TypesAre DEF CredInv, ProviderRow, PointerNamesTheAccount
    <3>3. provider[q].credential # c
      BY <1>20, <3>1, <3>2
    <3>4. ASSUME NEW d \in Creds, d = provider[q].credential
          PROVE  Live(d)' /\ credential'[d].provider = q
      BY <1>7, <3>2, <3>3, <3>4
    <3> QED
      BY <3>1, <3>2, <3>4 DEF Live
  <2>2. ASSUME NEW d \in Creds, Live(d)'
        PROVE  /\ \/ provider'[credential'[d].provider].credential = d
                  \/ Orphans /\ d = 0 /\ credential'[d].revision = 1
               /\ provider'[credential'[d].provider].status # "deleted"
    <3>1. d # c /\ Live(d) /\ credential'[d] = credential[d] /\ credential[d].provider \in Providers
      BY <1>7, <1>9, <2>2 DEF CredInv, RowsAre, Live
    <3>2. /\ \/ provider[credential[d].provider].credential = d
             \/ Orphans /\ d = 0 /\ credential[d].revision = 1
          /\ provider[credential[d].provider].status # "deleted"
      BY <3>1 DEF CredInv, PointerNamesTheAccount
    <3> QED
      BY <1>1, <1>5, <1>6, <3>1, <3>2
  <2>3. \A d, e \in Creds : Live(d)' /\ Live(e)' /\ d # e => credential'[d].account # credential'[e].account
    BY <1>7, <1>9 DEF CredInv, PointerNamesTheAccount, Live
  <2> QED
    BY <2>1, <2>2, <2>3 DEF PointerNamesTheAccount
<1>11. \A d \in Creds :
         credential[d].provider \in Providers
         /\ (Live(d) => provider[credential[d].provider].credential = d)
           => /\ credential'[d].provider \in Providers
              /\ (Live(d)' => provider'[credential'[d].provider].credential = d)
  BY <1>1, <1>6, <1>7, <1>9 DEF Live
<1>12. Held(x) = {} /\ credential[c] # NoCredential /\ credential[c].status # "disconnected"
  BY <1>1, <1>2, EmptyHanded DEF Live, NoCredential
<1> DEFINE S == {c}
<1>13. S \in SUBSET Creds /\ c \in S \cup {None} /\ None \in S \cup {None}
  BY <1>20
<1>14. \A d \in Creds : d \notin S => credential'[d] = credential[d]
  BY <1>7
<1>15. \A d \in S : /\ credential[d].status # "disconnected" /\ (Live(d) => d = c)
                    /\ credential'[d].revision = credential[d].revision + 1
                    /\ credential'[d].epoch = credential[d].epoch + 1
                    /\ credential'[d].lease = None
                    /\ credential'[d].grant = (IF d = None THEN proc[x].new ELSE None)
                    /\ (Live(d)' <=> d = None)
                    /\ (d = None => credential'[d].provider \in Providers)
                    /\ (d \in Attempts /\ credential[d] = NoCredential => attempt'[d].status = "ended")
  <2> SUFFICES ASSUME NEW d \in Creds, d = c
               PROVE  /\ credential[d].status # "disconnected" /\ (Live(d) => d = c)
                      /\ credential'[d].revision = credential[d].revision + 1
                      /\ credential'[d].epoch = credential[d].epoch + 1
                      /\ credential'[d].lease = None
                      /\ credential'[d].grant = (IF d = None THEN proc[x].new ELSE None)
                      /\ (Live(d)' <=> d = None)
                      /\ (d = None => credential'[d].provider \in Providers)
                      /\ (d \in Attempts /\ credential[d] = NoCredential => attempt'[d].status = "ended")
    BY <1>20
  <2>1. ~ Live(d)'
    BY <1>9 DEF Live
  <2> QED
    BY <1>20, <1>9, <1>12, <2>1, Constants
<1>16. proc' = [proc EXCEPT ![x] = IF c = None THEN Idle ELSE ThenWork(k)]
       /\ jobs' = IF c = None THEN jobs ELSE Enqueued(k, j)
  BY <1>1, <1>2
<1>17. c # None => /\ k \in Keys /\ j \in JobRow
                   /\ Live(c) /\ j.grant = credential[c].grant /\ j.status = "pending"
                   /\ k.source[1] = "credential" /\ k.source[2] = c
                   /\ k.revision = credential[c].revision
                   /\ k.reason \in {"disconnect", "replacement"}
                   /\ k.reason = "disconnect" => credential'[c].status = "disconnected"
  BY <1>1, <1>2, <1>3, <1>4, <1>9
<1> HIDE DEF S
<1>18. Rewrites(x, S, c, None, k, j)
  BY <1>1, <1>2, <1>6, <1>7, <1>8, <1>10, <1>11, <1>12, <1>14, <1>15, <1>16, <1>17 DEF Rewrites, Live
<1> QED
  BY <1>13, <1>18, RowsChange

\* An attempt is granted: its row is that of the account it was to replace, or a new one,
\* and a row that nobody pointed to gives the account up.
LEMMA ConnectHolds ==
  ASSUME CredInv, NEW x \in Procs, Connect(x)
  PROVE  CredInv' /\ Fenced
<1>1. PICK a \in Attempts : a = proc[x].at
  BY StateIs DEF Connect, CredInv
<1>2. PICK g \in Grants : g = proc[x].new /\ Held(x) = {g} /\ Granted(x)
  <2>1. Granted(x)
    BY DEF Connect, Granted, CredInv, ProcsKnow, Knows
  <2> QED
    BY <2>1, HoldingIs DEF CredInv
<1>3. PICK p \in Providers : p = attempt[a].provider
  BY <1>1 DEF Connect, Connectable, OwnsPoll, CredInv, AttemptsAre
<1>4. PICK c \in Creds \cup {None} : c = attempt[a].target
  BY TypesAre DEF CredInv, AttemptRow
<1>5. PICK u \in Accounts \cup {None} : u = grant[g].account
  BY TypesAre DEF CredInv, GrantRow
<1>6. PICK row \in Creds : row = IF c = None THEN a ELSE c
  BY Constants
<1>7. PICK orphans \in SUBSET Creds :
        orphans = IF c = None THEN {d \in Creds : Live(d) /\ credential[d].account = u} ELSE {}
  OBVIOUS
<1>8. /\ proc[x].pc = "polled" /\ provider[p].status # "deleted" /\ provider[p].credential = c
      /\ attempt[a].status = "pending" /\ credential[a] = NoCredential
      /\ c # None => Live(c) /\ credential[c].account = u
      /\ \A d \in orphans : provider[credential[d].provider].credential # d
      /\ c = None => \A d \in Creds : Live(d) /\ d \notin orphans => credential[d].provider # p
  <2>1. /\ proc[x].pc = "polled" /\ provider[p].status # "deleted" /\ provider[p].credential = c
        /\ attempt[a].status = "pending"
        /\ c # None => Live(c) /\ credential[c].account = u
    BY <1>1, <1>2, <1>3, <1>4, <1>5 DEF Connect, Connectable, OwnsPoll, TargetStands
  <2>2. credential[a] = NoCredential
    BY <2>1 DEF CredInv, AttemptsAre
  <2>3. c = None => orphans = Duplicates(x)
    BY <1>2, <1>5, <1>7 DEF Duplicates
  <2>4. /\ c = None => \A d \in Duplicates(x) : provider[credential[d].provider].credential # d
        /\ c = None => \A d \in Creds : Live(d) /\ d \notin Duplicates(x) => credential[d].provider # p
    BY <1>1, <1>3, <1>4 DEF Connect, Connectable
  <2> QED
    BY <1>7, <2>1, <2>2, <2>3, <2>4
\* The grants of the rows differ from the new one.
<1>9. /\ \A d \in Creds : credential[d].grant # g
      /\ c # None => credential[c].provider = p
  BY <1>2, <1>8 DEF CredInv, GrantsAre, PointerNamesTheAccount
<1> DEFINE key(d) == Key("credential", d, credential[d].revision, "replacement")
           job(d) == NewJob(credential[d].grant, credential[d].provider, d)
           given_up == orphans \cup IF c = None THEN {} ELSE {c}
           prow == [provider[p] EXCEPT !.credential = row, !.epoch = @ + 1]
<1>10. PICK old \in IF given_up = {} THEN {None} ELSE given_up :
         /\ jobs' = IF old = None THEN jobs ELSE Enqueued(key(old), job(old))
         /\ proc' = [proc EXCEPT ![x] = IF old = None THEN Idle ELSE ThenWork(key(old))]
  <2>1. (IF c = None THEN Duplicates(x) ELSE {}) = orphans
    BY <1>2, <1>5, <1>7 DEF Duplicates
  <2>2. (IF c = None \/ credential[c].grant = g THEN {} ELSE {c}) = (IF c = None THEN {} ELSE {c})
    BY <1>9
  <2> QED
    BY <1>1, <1>2, <1>4, <2>1, <2>2 DEF Connect
<1>11. /\ credential' = [d \in Creds |->
             IF d = row THEN ConnectedRow(x, d)
             ELSE IF d \in orphans THEN [DisconnectedRow(d) EXCEPT !.provider = None]
             ELSE credential[d]]
       /\ provider' = [provider EXCEPT ![p] = prow]
       /\ attempt' = [attempt EXCEPT ![a] = Ended(a)]
       /\ UNCHANGED <<grant, lost, faults>>
  <2>1. (IF c = None THEN Duplicates(x) ELSE {}) = orphans
    BY <1>2, <1>5, <1>7 DEF Duplicates
  <2> QED
    BY <1>1, <1>3, <1>4, <1>6, <2>1 DEF Connect
<1> DEFINE S == {row} \cup orphans
<1>12. /\ S \in SUBSET Creds /\ old \in S \cup {None} /\ row \in S
       /\ \A d \in S : Live(d) => d = old
       /\ old # None => old \in Creds /\ Live(old)
       /\ \A d \in orphans : d # row => Live(d)
       /\ credential[row].status # "disconnected"
  <2>1. CASE c = None
    <3>1. row = a /\ ~ Live(a) /\ credential[a].status # "disconnected"
      BY <1>6, <1>8, <2>1 DEF Live, NoCredential
    <3>2. \A d \in orphans : Live(d) /\ d = 0
      BY <1>7, <1>8 DEF CredInv, PointerNamesTheAccount
    <3>3. given_up = orphans
      BY <2>1
    <3>4. old # None => old \in orphans
      BY <1>10, <3>3
    <3>5. orphans # {} => old \in orphans
      BY <1>10, <3>3
    <3> QED
      BY <3>1, <3>2, <3>4, <3>5
  <2>2. CASE c # None
    BY <1>6, <1>7, <1>8, <1>10, <2>2 DEF Live
  <2> QED
    BY <2>1, <2>2
<1> DEFINE k == key(old)
           j == job(old)
<1>13. old # None => /\ k \in Keys /\ j \in JobRow
                     /\ Live(old) /\ j.grant = credential[old].grant /\ j.status = "pending"
                     /\ k.source[1] = "credential" /\ k.source[2] = old
                     /\ k.revision = credential[old].revision /\ k.reason = "replacement"
  <2> SUFFICES ASSUME old # None
               PROVE  /\ k \in Keys /\ j \in JobRow
                      /\ Live(old) /\ j.grant = credential[old].grant /\ j.status = "pending"
                      /\ k.source[1] = "credential" /\ k.source[2] = old
                      /\ k.revision = credential[old].revision /\ k.reason = "replacement"
    OBVIOUS
  <2>1. old \in Creds /\ Live(old)
    BY <1>12
  <2>2. /\ credential[old].grant \in Grants /\ credential[old].provider \in Providers
        /\ credential[old].revision \in Nat \ {0}
    BY <2>1, TypesAre DEF CredInv, RowsAre, CredentialRow
  <2>3. /\ j \in JobRow /\ j.grant = credential[old].grant /\ j.status = "pending"
    BY <2>1, <2>2, JobMade
  <2>4. /\ k \in Keys /\ k.source[1] = "credential" /\ k.source[2] = old
        /\ k.revision = credential[old].revision /\ k.reason = "replacement"
    BY <2>1, <2>2, KeyMade
  <2> QED
    BY <2>1, <2>3, <2>4
<1>14. prow \in ProviderRow /\ prow.credential = row /\ prow.status = provider[p].status
  <2>1. provider[p] \in ProviderRow
    BY TypesAre DEF CredInv
  <2>2. provider[p].epoch + 1 \in Nat \ {0}
    BY <2>1 DEF ProviderRow
  <2> QED
    BY <2>1, <2>2 DEF ProviderRow
<1>15. /\ jobs' = IF old = None THEN jobs ELSE Enqueued(k, j)
       /\ proc' = [proc EXCEPT ![x] = IF old = None THEN Idle ELSE ThenWork(k)]
  BY <1>10
<1> HIDE DEF k, j, key, job, given_up, prow, S
<1>16. /\ provider' \in [Providers -> ProviderRow] /\ provider'[p] = prow
       /\ \A q \in Providers : q # p => provider'[q] = provider[q]
  BY <1>11, <1>14, TypesAre DEF CredInv
<1>17. attempt' \in [Attempts -> AttemptRow] /\ AttemptsStand /\ attempt'[a].status = "ended"
  <2>1. attempt' \in [Attempts -> AttemptRow] /\ AttemptsStand
    BY <1>8, <1>11, OneEnds
  <2>2. Ended(a).status = "ended" /\ attempt'[a] = Ended(a)
    BY <1>8, <1>11, EndedIs, TypesAre DEF CredInv
  <2> QED
    BY <2>1, <2>2
\* The rows that are written.
<1>18. /\ credential'[row] = ConnectedRow(x, row) /\ credential'[row] \in CredentialRow
       /\ credential'[row].status = "connected" /\ credential'[row].grant = g
       /\ credential'[row].revision = credential[row].revision + 1
       /\ credential'[row].epoch = credential[row].epoch + 1
       /\ credential'[row].lease = None
       /\ credential'[row].provider = p /\ credential'[row].account = u
  BY <1>1, <1>2, <1>3, <1>5, <1>11, ConnectedIs
<1>19. ASSUME NEW d \in orphans, d # row
       PROVE  /\ credential'[d] \in CredentialRow /\ credential'[d].status = "disconnected"
              /\ credential'[d].grant = None /\ credential'[d].lease = None
              /\ credential'[d].revision = credential[d].revision + 1
              /\ credential'[d].epoch = credential[d].epoch + 1
  <2>1. Live(d) /\ credential'[d] = [DisconnectedRow(d) EXCEPT !.provider = None]
    BY <1>11, <1>12, <1>19
  <2> QED
    BY <2>1, DisconnectedIs
<1>20. \A d \in Creds : d \notin S => credential'[d] = credential[d]
  BY <1>11 DEF S
<1>21. credential' \in [Creds -> CredentialRow]
  <2>1. \A d \in Creds : credential'[d] \in CredentialRow
    BY <1>18, <1>19, <1>20, TypesAre DEF CredInv, S
  <2> QED
    BY <1>11, <2>1
<1>22. \A d \in S : /\ credential[d].status # "disconnected" /\ (Live(d) => d = old)
                    /\ credential'[d].revision = credential[d].revision + 1
                    /\ credential'[d].epoch = credential[d].epoch + 1
                    /\ credential'[d].lease = None
                    /\ credential'[d].grant = (IF d = row THEN proc[x].new ELSE None)
                    /\ (Live(d)' <=> d = row)
                    /\ (d = row => credential'[d].provider \in Providers)
                    /\ (d \in Attempts /\ credential[d] = NoCredential => attempt'[d].status = "ended")
  <2>1. /\ credential[row].status # "disconnected" /\ (Live(row) => row = old)
        /\ credential[row] = NoCredential => row = a
    BY <1>6, <1>8, <1>12 DEF Live, NoCredential
  <2>2. \A d \in orphans : d # row =>
          Live(d) /\ d = old /\ credential[d] # NoCredential /\ credential[d].status # "disconnected"
    BY <1>12 DEF Live, NoCredential, S
  <2>3. \A d \in S : d = row \/ d \in orphans
    BY DEF S
  <2> QED
    BY <1>2, <1>17, <1>18, <1>19, <2>1, <2>2, <2>3 DEF Live
\* The pointers.
<1>23. /\ \A q \in Providers : q # p /\ provider[q].credential # None => provider[q].credential \notin S
       /\ \A d \in Creds : d \notin S /\ Live(d) => /\ provider[p].credential # d
                                                    /\ credential[d].account # u
                                                    /\ c = None => credential[d].provider # p
  <2>1. ASSUME NEW q \in Providers, q # p, provider[q].credential # None
        PROVE  provider[q].credential \notin S
    <3>1. /\ provider[q].credential \in Creds /\ Live(provider[q].credential)
          /\ credential[provider[q].credential].provider = q
      BY <2>1, TypesAre DEF CredInv, ProviderRow, PointerNamesTheAccount
    <3>2. provider[q].credential \notin orphans
      BY <1>8, <3>1
    <3>3. provider[q].credential # row
      <4>1. CASE c = None
        BY <1>6, <1>8, <3>1, <4>1 DEF Live, NoCredential
      <4>2. CASE c # None
        BY <1>6, <1>9, <2>1, <3>1, <4>2
      <4> QED
        BY <4>1, <4>2
    <3> QED
      BY <3>2, <3>3 DEF S
  <2>2. ASSUME NEW d \in Creds, d \notin S, Live(d)
        PROVE  /\ provider[p].credential # d /\ credential[d].account # u
               /\ c = None => credential[d].provider # p
    <3>1. d # row /\ d \notin orphans
      BY <2>2 DEF S
    <3>2. CASE c = None
      BY <1>7, <1>8, <2>2, <3>1, <3>2, Constants
    <3>3. CASE c # None
      BY <1>6, <1>8, <2>2, <3>1, <3>3 DEF CredInv, PointerNamesTheAccount
    <3> QED
      BY <3>2, <3>3
  <2> QED
    BY <2>1, <2>2
<1>24. \A d \in Creds :
         credential[d].provider \in Providers
         /\ (Live(d) => provider[credential[d].provider].credential = d)
           => /\ credential'[d].provider \in Providers
              /\ (Live(d)' => provider'[credential'[d].provider].credential = d)
  <2> SUFFICES ASSUME NEW d \in Creds, credential[d].provider \in Providers,
                      Live(d) => provider[credential[d].provider].credential = d
               PROVE  /\ credential'[d].provider \in Providers
                      /\ (Live(d)' => provider'[credential'[d].provider].credential = d)
    BY DEF Live
  <2>1. CASE d = row
    BY <1>14, <1>16, <1>18, <2>1
  <2>2. CASE d # row /\ d \in orphans
    BY <1>8, <1>12, <2>2
  <2>3. CASE d \notin S
    <3>1. credential'[d] = credential[d] /\ (Live(d)' => Live(d))
      BY <1>20, <2>3 DEF Live
    <3>2. Live(d) => credential[d].provider # p
      BY <1>23, <2>3
    <3> QED
      BY <1>16, <3>1, <3>2
  <2> QED
    BY <2>1, <2>2, <2>3 DEF S
<1>25. PointerNamesTheAccount'
  <2>1. ASSUME NEW q \in Providers, provider'[q].credential # None
        PROVE  Live(provider[q].credential)' /\ credential'[provider'[q].credential].provider = q
    <3>1. CASE q = p
      BY <1>14, <1>16, <1>18, <3>1 DEF Live
    <3>2. CASE q # p
      <4>1. provider'[q] = provider[q]
        BY <1>16, <3>2
      <4>2. provider[q].credential \in Creds /\ Live(provider[q].credential)
            /\ credential[provider[q].credential].provider = q
        BY <2>1, <4>1, TypesAre DEF CredInv, ProviderRow, PointerNamesTheAccount
      <4>3. credential'[provider[q].credential] = credential[provider[q].credential]
        BY <1>20, <1>23, <2>1, <3>2, <4>1, <4>2
      <4> QED
        BY <4>1, <4>2, <4>3 DEF Live
    <3> QED
      BY <3>1, <3>2
  <2>2. ASSUME NEW d \in Creds, Live(d)'
        PROVE  /\ \/ provider'[credential'[d].provider].credential = d
                  \/ Orphans /\ d = 0 /\ credential'[d].revision = 1
               /\ provider'[credential'[d].provider].status # "deleted"
               /\ d = row \/ (d \notin S /\ Live(d) /\ credential'[d] = credential[d])
    <3>1. CASE d = row
      BY <1>8, <1>14, <1>16, <1>18, <3>1
    <3>2. CASE d # row
      <4>1. d \notin S /\ Live(d) /\ credential'[d] = credential[d]
        BY <1>19, <1>20, <2>2, <3>2 DEF Live, S
      <4>2. /\ \/ provider[credential[d].provider].credential = d
               \/ Orphans /\ d = 0 /\ credential[d].revision = 1
            /\ provider[credential[d].provider].status # "deleted"
            /\ credential[d].provider \in Providers
        BY <4>1 DEF CredInv, PointerNamesTheAccount, RowsAre
      <4>3. credential[d].provider = p => provider[p].credential # d
        BY <1>23, <4>1
      <4> QED
        BY <1>8, <1>14, <1>16, <4>1, <4>2, <4>3
    <3> QED
      BY <3>1, <3>2
  <2>3. ASSUME NEW d \in Creds, NEW e \in Creds, Live(d)', Live(e)', d # e
        PROVE  credential'[d].account # credential'[e].account
    <3>1. /\ d = row \/ (d \notin S /\ Live(d) /\ credential'[d] = credential[d])
          /\ e = row \/ (e \notin S /\ Live(e) /\ credential'[e] = credential[e])
      BY <2>2, <2>3
    <3> QED
      BY <1>18, <1>23, <2>3, <3>1 DEF CredInv, PointerNamesTheAccount
  <2> QED
    BY <2>1, <2>2, <2>3 DEF PointerNamesTheAccount
<1>26. /\ row \in S \cup {None} /\ row # None /\ Held(x) = {proc[x].new}
  BY <1>2, <1>12, Constants
<1> HIDE DEF S
<1>27. Rewrites(x, S, old, row, k, j)
  BY <1>8, <1>11, <1>13, <1>15, <1>16, <1>17, <1>20, <1>21, <1>22, <1>24, <1>25, <1>26
     DEF Rewrites, Live
<1> QED
  BY <1>12, <1>26, <1>27, RowsChange


-----------------------------------------------------------------------------
(* The theorems. *)

LEMMA InitHolds == Init => CredInv
<1> SUFFICES ASSUME Init PROVE CredInv
  OBVIOUS
<1>1. PICK p \in Providers, u \in Accounts, orphan \in {FALSE, Orphans} :
        /\ provider = [q \in Providers |-> [status |-> "active", epoch |-> 1,
              credential |-> IF q = p /\ ~orphan THEN 0 ELSE None]]
        /\ credential = [c \in Creds |->
              IF c > 0 THEN NoCredential
              ELSE [NoCredential EXCEPT !.status = "connected", !.provider = p,
                       !.account = u, !.epoch = 1, !.revision = 1, !.grant = 1]]
        /\ attempt = [a \in Attempts |-> NoAttempt]
        /\ jobs = <<>>
        /\ grant = [g \in Grants |->
              IF g = 1 THEN [state |-> "live", account |-> u, of |-> 0]
              ELSE [state |-> "none", account |-> None, of |-> None]]
        /\ proc = [x \in Procs |-> Idle]
        /\ lost = {}
        /\ faults = 0
  BY DEF Init
<1> DEFINE first == [NoCredential EXCEPT !.status = "connected", !.provider = p,
                       !.account = u, !.epoch = 1, !.revision = 1, !.grant = 1]
<1>2. /\ first \in CredentialRow /\ first.status = "connected" /\ first.provider = p
      /\ first.revision = 1 /\ first.grant = 1 /\ first.lease = None /\ first.account = u
  BY Constants DEF NoCredential, CredentialRow
<1>3. NoCredential \in CredentialRow /\ NoCredential.status = "none" /\ NoCredential.grant = None
      /\ NoCredential.lease = None /\ NoCredential.provider = None
  BY DEF NoCredential, CredentialRow
<1> HIDE DEF first
<1>4. /\ credential \in [Creds -> CredentialRow] /\ credential[0] = first
      /\ \A c \in Creds : c # 0 => credential[c] = NoCredential
  <2>1. credential = [c \in Creds |-> IF c > 0 THEN NoCredential ELSE first]
    BY <1>1 DEF first
  <2>2. \A c \in Creds : c # 0 => c > 0
    BY Constants
  <2> QED
    BY <1>2, <1>3, <2>1, <2>2, Constants
<1>5. /\ DOMAIN jobs = {}
      /\ \A x \in Procs : proc[x] = Idle /\ proc[x].pc = "idle"
      /\ proc \in [Procs -> ProcStates]
  BY <1>1, StatesMade DEF Idle
<1>6. /\ grant \in [Grants -> GrantRow] /\ grant[1].state = "live"
      /\ \A g \in Grants : /\ grant[g].state \in {"none", "live"}
                           /\ grant[g].state = "none" => grant[g].of = None
                           /\ grant[g].state = "live" => g = 1
  BY <1>1, Constants DEF GrantRow
<1>7. /\ attempt \in [Attempts -> AttemptRow] /\ \A a \in Attempts : attempt[a] = NoAttempt
      /\ NoAttempt.status = "none" /\ NoAttempt.lease = None
  BY <1>1 DEF NoAttempt, AttemptRow
<1>8. /\ provider \in [Providers -> ProviderRow]
      /\ \A q \in Providers : provider[q].status = "active"
      /\ \A q \in Providers : provider[q].credential # None => q = p /\ provider[q].credential = 0
      /\ provider[p].credential = 0 \/ Orphans
  <2>1. /\ provider \in [Providers -> ProviderRow]
        /\ \A q \in Providers : provider[q].status = "active"
        /\ \A q \in Providers : provider[q].credential # None => q = p /\ provider[q].credential = 0
        /\ ~ orphan => provider[p].credential = 0
    BY <1>1, Constants DEF ProviderRow
  <2>2. orphan => Orphans
    OBVIOUS
  <2> QED
    BY <2>1, <2>2
<1>9. TypeOK
  BY <1>1, <1>4, <1>5, <1>6, <1>7, <1>8, TypesAre
<1>10. \A c \in Creds : /\ Live(c) <=> c = 0
                        /\ c = 0 => credential[c] = first
  BY <1>2, <1>3, <1>4 DEF Live
<1>11. /\ \A x \in Procs : ~ Got(x) /\ ~ Granted(x) /\ ~ OnRow(x) /\ ~ Renewing(x) /\ Held(x) = {}
       /\ ProcsKnow
  BY <1>5 DEF Got, Granted, OnRow, Renewing, Held, ProcsKnow, Knows, OnAttempt
<1>12. AttemptsAre
  <2>1. \A a \in Attempts : credential[a] = NoCredential
    BY <1>4, Constants
  <2> QED
    BY <1>7, <2>1 DEF AttemptsAre, Active
<1>13. RowsAre
  BY <1>2, <1>3, <1>4, <1>10, Constants DEF RowsAre
<1>14. RenewalsAre /\ PollsAre
  BY <1>11 DEF RenewalsAre, PollsAre
<1>15. GrantsAre
  BY <1>2, <1>3, <1>4, <1>5, <1>6, <1>10, <1>11, Constants DEF GrantsAre
<1>16. KeysAre /\ RevocationIsReportedTruly
  BY <1>5 DEF KeysAre, RevocationIsReportedTruly
<1>17. PointerNamesTheAccount
  BY <1>2, <1>8, <1>10, Constants DEF PointerNamesTheAccount
<1>18. OnceSpent /\ NoGrantIsForgotten
  <2>1. OnceSpent
    BY <1>5, <1>11 DEF OnceSpent
  <2>2. NoGrantIsForgotten
    BY <1>2, <1>6, <1>10, Constants DEF NoGrantIsForgotten
  <2> QED
    BY <2>1, <2>2
<1> QED
  BY <1>5, <1>9, <1>11, <1>12, <1>13, <1>14, <1>15, <1>16, <1>17, <1>18 DEF CredInv

LEMMA CredNextHolds ==
  ASSUME CredInv, [Next]_vars
  PROVE  CredInv' /\ (Fenced \/ UNCHANGED vars)
<1>1. CASE Next
  <2>1. ASSUME NEW x \in Procs,
               \/ ClaimJob(x) \/ RevokeAndFinish(x)
               \/ ClaimLease(x) \/ Refresh(x) \/ Persist(x) \/ Release(x)
               \/ RejectRenewal(x) \/ MarkReauthorization(x)
        PROVE  CredInv' /\ Fenced
    BY <2>1, ClaimJobHolds, RevokeHolds, ClaimLeaseHolds, RefreshHolds, PersistHolds, ReleaseHolds,
       RejectRenewalHolds, MarkHolds
  <2>2. ASSUME NEW x \in Procs,
               \/ StartAnswered(x) \/ PollDevice(x) \/ PollEnds(x)
               \/ Connect(x) \/ RejectGrant(x) \/ FailAttempt(x)
               \/ Crash(x) \/ EnqueueFails(x)
        PROVE  CredInv' /\ Fenced
    BY <2>2, StartAnsweredHolds, PollDeviceHolds, PollEndsHolds, ConnectHolds, RejectGrantHolds,
       FailAttemptHolds, CrashHolds, EnqueueFailsHolds
  <2>3. ASSUME NEW x \in Procs, NEW k \in DOMAIN jobs, RetryRevocation(x, k)
        PROVE  CredInv' /\ Fenced
    BY <2>3, RetryHolds
  <2>4. ASSUME NEW x \in Procs, NEW p \in Providers, LoadToRenew(x, p) \/ Disconnect(x, p)
        PROVE  CredInv' /\ Fenced
    BY <2>4, LoadHolds, DisconnectHolds
  <2>5. ASSUME NEW x \in Procs, NEW p \in Providers, NEW a \in Attempts, Start(x, p, a)
        PROVE  CredInv' /\ Fenced
    BY <2>5, StartHolds
  <2>6. ASSUME NEW x \in Procs, NEW a \in Attempts, ClaimPoll(x, a)
        PROVE  CredInv' /\ Fenced
    BY <2>6, ClaimPollHolds
  <2>7. ASSUME NEW a \in Attempts, Cancel(a)
        PROVE  CredInv' /\ Fenced
    BY <2>7, CancelHolds
  <2>8. ASSUME NEW p \in Providers, Delete(p)
        PROVE  CredInv' /\ Fenced
    BY <2>8, ProviderDeletedHolds
  <2>9. ASSUME Lapse
        PROVE  CredInv' /\ Fenced
    BY <2>9, LapseHolds
  <2> QED
    BY <1>1, <2>1, <2>2, <2>3, <2>4, <2>5, <2>6, <2>7, <2>8, <2>9 DEF Next
<1>2. CASE UNCHANGED vars
  <2>1. UNCHANGED <<provider, credential, attempt, jobs, grant, proc, lost>>
    BY <1>2 DEF vars
  <2>2. /\ RowsStand /\ PointersStand /\ AttemptsStand /\ JobsStand /\ GrantsStand
        /\ RevocationIsReportedTruly'
    BY <2>1, Unmoved
  <2>3. TypeOK'
    BY <2>1, TypesAre, TypesNext DEF CredInv
  <2> QED
    BY <1>2, <2>1, <2>2, <2>3, StillHolds
<1> QED
  BY <1>1, <1>2

LEMMA CredInvAlways == Spec => []CredInv
<1>1. Init => CredInv
  BY InitHolds
<1>2. CredInv /\ [Next]_vars => CredInv'
  BY CredNextHolds
<1> QED
  BY <1>1, <1>2, PTL DEF Spec

\* RowsTellTheTruth: a provider points to its one live row, no two live rows are of one
\* account, and what is reported of a revocation is what became of it, however the requests
\* of the gateway, of the administrator and of the outbox interleave, stop and come late.
THEOREM RowsAlwaysTellTheTruth == Spec => []RowsTellTheTruth
<1>1. CredInv => RowsTellTheTruth
  BY DEF CredInv, RowsTellTheTruth
<1> QED
  BY <1>1, CredInvAlways, PTL

\* InUseIsNotRevoked: no revocation job ever holds the grant of a connected account.
THEOREM InUseIsNeverRevoked == Spec => []InUseIsNotRevoked
<1>1. CredInv => InUseIsNotRevoked
  <2> SUFFICES ASSUME CredInv, NEW c \in Creds, Live(c)
               PROVE  /\ grant[credential[c].grant].state # "revoked"
                      /\ \A k \in DOMAIN jobs : jobs[k].grant # credential[c].grant
    BY DEF InUseIsNotRevoked
  <2> QED
    BY DEF CredInv, GrantsAre
<1> QED
  BY <1>1, CredInvAlways, PTL

\* NoGrantIsForgotten: of a provider whose rotated refresh tokens are refused, every grant
\* it still honours is that of a live row, of a request under way, or of a revocation job,
\* unless a crash or a double failure lost it.
THEOREM NoGrantIsEverForgotten ==
  ASSUME RotationSpends
  PROVE  Spec => []NoGrantIsForgotten
<1>1. CredInv => NoGrantIsForgotten
  BY DEF CredInv
<1> QED
  BY <1>1, CredInvAlways, PTL

\* LateAnswersAreFenced: whatever the order of the answers, a row of one epoch never holds a
\* grant of another login, a disconnected row stays so, and an attempt that has ended is not
\* written again.
THEOREM LateAnswersAlwaysFenced == Spec => LateAnswersAreFenced
<1> DEFINE A == /\ \A c \in Creds : Live(c) /\ credential'[c].epoch = credential[c].epoch =>
                      Login(c)' = Login(c)
                /\ \A c \in Creds : credential[c].status = "disconnected" =>
                      credential'[c].status = "disconnected" /\ credential'[c].grant = None
                /\ \A a \in Attempts : attempt[a].status = "ended" => attempt'[a] = attempt[a]
<1>1. CredInv /\ [Next]_vars => [A]_vars
  <2>1. Fenced => A
    BY DEF Fenced
  <2> QED
    BY <2>1, CredNextHolds
<1> HIDE DEF A
<1>2. Spec => [][A]_vars
  BY <1>1, CredInvAlways, PTL DEF Spec
<1> QED
  BY <1>2 DEF LateAnswersAreFenced, A

-----------------------------------------------------------------------------
(* The plugins: the invariant adds what a handler knows between its         *)
(* transactions: a synchronisation that fetches still has its run, one that *)
(* writes has a commit, and what a copy has read refers to something that   *)
(* was installed once.                                                      *)

OperationRow == [status : {"none", "queued", "running", "ready", "error"},
                 entry : Commits \cup {Nil}, spec : Specs \cup {Nil},
                 digest : Digests \cup {Nil}]
InstallationRow == [status : {"none", "ready", "uninstalled"}, lineage : Commits \cup {Nil},
                    spec : Specs \cup {Nil}, source : Sources \cup {Nil}]
RefsRow == [Digests -> {"none", "off", "on", "copied"}]

MarketTypes ==
  /\ market \in {"pending", "active", "error", "disabled"}
  /\ syncRun  \in [Syncs -> {"none", "running", "succeeded", "failed"}]
  /\ syncStep \in [Syncs -> {"idle", "fetch", "write", "mark", "answered", "stopped"}]
  /\ fetched  \in [Syncs -> Commits \cup {Nil}]
  /\ revisions \subseteq Commits
  /\ approval \in {"absent", "blocked"} \cup Commits

InstallTypes ==
  /\ operation    \in [Operations -> OperationRow]
  /\ installation \in [Digests -> InstallationRow]

DeckTypes ==
  /\ refs    \in [Decks -> RefsRow]
  /\ copying \in [Decks -> [from : Decks \cup {Nil}, read : RefsRow]]

\* What a handler knows between its transactions.
SyncsKnow ==
  \A s \in Syncs : /\ syncStep[s] = "idle"  => syncRun[s] = "none"
                   /\ syncStep[s] = "fetch" => syncRun[s] = "running"
                   /\ syncStep[s] = "write" => fetched[s] \in Commits

ReadyHasDigest == \A o \in Operations : operation[o].status = "ready" => operation[o].digest \in Digests

\* Nothing is ever deleted from the installations, so what was read still exists.
CopiesKnow ==
  \A d \in Decks, g \in Digests : copying[d].read[g] # "none" => installation[g].status # "none"

PInv == /\ MarketTypes /\ InstallTypes /\ DeckTypes
        /\ SyncsKnow /\ ReadyHasDigest /\ CopiesKnow /\ PluginsAreSound

SafeStep == RevokedIsNotInstalled /\ EndedStaysEnded /\ DisabledStaysDisabled
Step == PInv' /\ SafeStep

\* At first there is nothing that could disagree.
LEMMA PluginsInitHolds == PluginsInit => PInv
<1> SUFFICES ASSUME PluginsInit PROVE PInv
  OBVIOUS
<1> USE DEF PluginsInit, NoOperation, NoInstallation, NoCopy
<1>1. MarketTypes
  BY DEF MarketTypes
<1>2. InstallTypes
  BY DEF InstallTypes, OperationRow, InstallationRow
<1>3. DeckTypes
  BY DEF DeckTypes, RefsRow
<1>4. SyncsKnow /\ ReadyHasDigest /\ CopiesKnow
  BY DEF SyncsKnow, ReadyHasDigest, CopiesKnow
<1>5. MarketplaceTellsSyncs
  BY PluginsAssumption DEF MarketplaceTellsSyncs
<1>6. InstallationsTellPlans /\ RefsFollowInstallations
  BY DEF InstallationsTellPlans, RefsFollowInstallations
<1> QED
  BY <1>1, <1>2, <1>3, <1>4, <1>5, <1>6 DEF PInv, PluginsAreSound

-----------------------------------------------------------------------------
(* The marketplace: what it changes is seen by the installations only as   *)
(* revisions that are added.                                               *)

LEMMA MarketFrame ==
  ASSUME PInv, UNCHANGED <<operation, installation, deckVars>>, revisions \subseteq revisions',
         MarketTypes', SyncsKnow', MarketplaceTellsSyncs',
         \A s \in Syncs : syncRun[s] \in {"succeeded", "failed"} => syncRun'[s] = syncRun[s],
         market = "disabled" /\ syncStep' # syncStep => market' = "disabled"
  PROVE  Step
<1>1. UNCHANGED <<operation, installation, refs, copying>>
  BY DEF deckVars
<1>2. InstallTypes' /\ DeckTypes' /\ ReadyHasDigest' /\ CopiesKnow'
  BY <1>1 DEF PInv, InstallTypes, DeckTypes, ReadyHasDigest, CopiesKnow
<1>3. InstallationsTellPlans' /\ RefsFollowInstallations'
  BY <1>1 DEF PInv, PluginsAreSound, InstallationsTellPlans, RefsFollowInstallations, Ready
<1>4. SafeStep
  BY <1>1 DEF SafeStep, RevokedIsNotInstalled, EndedStaysEnded, DisabledStaysDisabled
<1> QED
  BY <1>2, <1>3, <1>4 DEF Step, PInv, PluginsAreSound

\* A run is only begun when no other runs.
LEMMA RequestHolds == ASSUME PInv, NEW s \in Syncs, RequestSync(s) PROVE Step
<1> USE DEF RequestSync, PInv, PluginsAreSound
<1>1. MarketTypes'
  BY DEF MarketTypes
<1>2. SyncsKnow'
  BY DEF MarketTypes, SyncsKnow
<1>3. MarketplaceTellsSyncs'
  BY DEF MarketTypes, MarketplaceTellsSyncs
<1>4. \A r \in Syncs : syncRun[r] \in {"succeeded", "failed"} => syncRun'[r] = syncRun[r]
  BY DEF MarketTypes, SyncsKnow
<1> QED
  BY <1>1, <1>2, <1>3, <1>4, MarketFrame

\* Between its transactions a handler changes no row.
LEMMA FetchHolds ==
  ASSUME PInv, NEW s \in Syncs,
         (\E c \in Commits : Fetch(s, c)) \/ FetchFails(s) \/ StopSync(s)
  PROVE  Step
<1> USE DEF PInv, PluginsAreSound
<1>1. /\ UNCHANGED <<market, syncRun, revisions, approval, operation, installation, deckVars>>
      /\ \/ /\ fetched' = fetched
            /\ \E step \in {"mark", "stopped"} : syncStep' = [syncStep EXCEPT ![s] = step]
            /\ syncStep[s] \in {"fetch", "write", "mark"}
         \/ /\ \E c \in Commits : fetched' = [fetched EXCEPT ![s] = c]
            /\ syncStep' = [syncStep EXCEPT ![s] = "write"]
            /\ syncStep[s] = "fetch"
  BY DEF Fetch, FetchFails, StopSync
<1>2. MarketTypes'
  BY <1>1 DEF MarketTypes
<1>3. SyncsKnow'
  BY <1>1 DEF MarketTypes, SyncsKnow
<1>4. MarketplaceTellsSyncs'
  BY <1>1 DEF MarketTypes, SyncsKnow, MarketplaceTellsSyncs
<1> QED
  BY <1>1, <1>2, <1>3, <1>4, MarketFrame

\* What is recorded is what was fetched, and the run that fetched it ends.
LEMMA RecordHolds ==
  ASSUME PInv, NEW s \in Syncs, NEW told \in BOOLEAN, RecordRevision(s, told)
  PROVE  Step
<1> USE DEF PInv, PluginsAreSound
<1>1. /\ syncStep[s] = "write" /\ fetched[s] \in Commits
      /\ revisions' = revisions \cup {fetched[s]}
      /\ approval' = IF approval = "absent" THEN "blocked" ELSE approval
      /\ UNCHANGED <<fetched, operation, installation, deckVars>>
  BY DEF RecordRevision, SyncsKnow
<1>2. /\ syncRun' = [syncRun EXCEPT ![s] = IF syncRun[s] # "running" THEN syncRun[s]
                                          ELSE IF fetched[s] \in SoundCommits THEN "succeeded" ELSE "failed"]
      /\ \E step \in {"answered", "mark"} : syncStep' = [syncStep EXCEPT ![s] = step]
      /\ \E status \in {"active", "error"} : market' = StatusAfter(status)
  BY DEF RecordRevision
<1>3. MarketTypes'
  BY <1>1, <1>2 DEF MarketTypes, StatusAfter
<1>4. SyncsKnow'
  BY <1>1, <1>2 DEF MarketTypes, SyncsKnow
<1>5. MarketplaceTellsSyncs'
  <2>1. \A r \in Syncs : syncRun'[r] = "running" => syncRun[r] = "running" /\ r # s
    BY <1>2 DEF MarketTypes
  <2>2. \A r \in Syncs : r # s => syncStep'[r] = syncStep[r] /\ syncRun'[r] = syncRun[r]
    BY <1>2 DEF MarketTypes
  <2>3. syncRun'[s] = "succeeded" => fetched[s] \in revisions' \cap SoundCommits
    BY <1>1, <1>2 DEF MarketTypes, MarketplaceTellsSyncs
  <2>4. \A r \in Syncs : syncRun'[r] = "succeeded" => fetched'[r] \in revisions' \cap SoundCommits
    BY <1>1, <2>2, <2>3 DEF MarketplaceTellsSyncs
  <2>5. (approval' = "absent" <=> revisions' = {})
        /\ (approval' \in Commits => approval' \in revisions' \cap SoundCommits)
    BY <1>1, PluginsAssumption DEF MarketplaceTellsSyncs
  <2> QED
    BY <2>1, <2>2, <2>4, <2>5 DEF MarketplaceTellsSyncs
<1>6. \A r \in Syncs : syncRun[r] \in {"succeeded", "failed"} => syncRun'[r] = syncRun[r]
  BY <1>2 DEF MarketTypes
<1>7. market = "disabled" => market' = "disabled"
  BY <1>2 DEF StatusAfter
<1> QED
  BY <1>1, <1>3, <1>4, <1>5, <1>6, <1>7, MarketFrame

\* A failure ends a run that runs, and none that has ended.
LEMMA SyncMarkHolds == ASSUME PInv, NEW s \in Syncs, MarkSyncFailure(s) PROVE Step
<1> USE DEF PInv, PluginsAreSound, MarkSyncFailure, EndedByFailure
<1>1. MarketTypes'
  BY DEF MarketTypes, StatusAfter
<1>2. SyncsKnow'
  BY DEF MarketTypes, SyncsKnow
<1>3. MarketplaceTellsSyncs'
  BY DEF MarketTypes, MarketplaceTellsSyncs
<1>4. \A r \in Syncs : syncRun[r] \in {"succeeded", "failed"} => syncRun'[r] = syncRun[r]
  BY DEF MarketTypes
<1>5. market = "disabled" => market' = "disabled"
  BY DEF StatusAfter
<1> QED
  BY <1>1, <1>2, <1>3, <1>4, <1>5, MarketFrame

\* What an administrator says of a marketplace or of the package.
LEMMA DecisionHolds ==
  ASSUME PInv,
         \/ \E status \in {"pending", "active", "disabled"} : UpdateMarketplace(status)
         \/ \E decision \in Commits \cup {"blocked"} : DecidePolicy(decision)
  PROVE  Step
<1> USE DEF PInv, PluginsAreSound
<1>1. /\ UNCHANGED <<syncRun, syncStep, fetched, revisions, operation, installation, deckVars>>
      /\ market' \in {"pending", "active", "error", "disabled"}
      /\ \/ approval' = approval
         \/ approval # "absent" /\ approval' \in {"blocked"} \cup (revisions \cap SoundCommits)
  BY DEF UpdateMarketplace, DecidePolicy, Approvable, MarketTypes
<1>2. MarketTypes'
  BY <1>1 DEF MarketTypes
<1>3. SyncsKnow'
  BY <1>1 DEF SyncsKnow
<1>4. MarketplaceTellsSyncs'
  BY <1>1, PluginsAssumption DEF MarketTypes, MarketplaceTellsSyncs
<1> QED
  BY <1>1, <1>2, <1>3, <1>4, MarketFrame

-----------------------------------------------------------------------------
(* The installations, and the decks: the marketplace stays as it is.       *)

LEMMA OtherFrame ==
  ASSUME PInv, UNCHANGED marketVars, InstallTypes', DeckTypes', ReadyHasDigest', CopiesKnow',
         InstallationsTellPlans', RefsFollowInstallations',
         RevokedIsNotInstalled,
         \A o \in Operations :
           operation[o].status \in {"ready", "error"} => operation'[o] = operation[o],
         \A d \in Decks, g \in Digests :
           refs[d][g] = "off" /\ refs'[d][g] = "on" =>
             Ready(g) /\ operation' = operation /\ installation' = installation
  PROVE  Step
<1>1. UNCHANGED <<market, syncRun, syncStep, fetched, revisions, approval>>
  BY DEF marketVars
<1>2. MarketTypes' /\ SyncsKnow' /\ MarketplaceTellsSyncs'
  BY <1>1 DEF PInv, PluginsAreSound, MarketTypes, SyncsKnow, MarketplaceTellsSyncs
<1>3. SafeStep
  BY <1>1 DEF SafeStep, EndedStaysEnded, DisabledStaysDisabled
<1> QED
  BY <1>2, <1>3 DEF Step, PInv, PluginsAreSound

\* A plan, its beginning and its failure: no installation is touched.
LEMMA OperationFrame ==
  ASSUME PInv, NEW o \in Operations, NEW row \in OperationRow,
         operation' = [operation EXCEPT ![o] = row],
         operation[o].status \notin {"ready", "error"}, row.status # "ready",
         UNCHANGED <<marketVars, installation, deckVars>>
  PROVE  Step
<1> USE DEF PInv, PluginsAreSound
<1>1. UNCHANGED <<marketVars, installation, refs, copying, revisions>>
  BY DEF deckVars, marketVars
<1>2. \A q \in Operations : operation'[q] = IF q = o THEN row ELSE operation[q]
  BY DEF InstallTypes
<1>3. InstallTypes' /\ DeckTypes' /\ CopiesKnow'
  BY <1>1 DEF InstallTypes, DeckTypes, CopiesKnow
<1>4. ReadyHasDigest'
  BY <1>2 DEF ReadyHasDigest
<1>5. InstallationsTellPlans' /\ RefsFollowInstallations'
  BY <1>1, <1>2 DEF InstallationsTellPlans, RefsFollowInstallations, Ready
<1>6. RevokedIsNotInstalled
  BY <1>2 DEF RevokedIsNotInstalled
<1>7. \A q \in Operations :
        operation[q].status \in {"ready", "error"} => operation'[q] = operation[q]
  BY <1>2
<1> QED
  BY <1>1, <1>3, <1>4, <1>5, <1>6, <1>7, OtherFrame

\* A plan comes in one way for what is offered and in another for what is shipped.
LEMMA PlanHolds ==
  ASSUME PInv, NEW o \in Operations,
         \/ BeginInstall(o) \/ FailInstall(o)
         \/ \E entry \in Commits \cup {Nil}, spec \in Specs : PrepareInstall(o, entry, spec)
         \/ \E spec \in Specs : EnsurePlans(o, spec)
  PROVE  Step
<1>1. operation[o] \in OperationRow
  BY DEF PInv, InstallTypes
<1>2. CASE BeginInstall(o) \/ FailInstall(o)
  <2>1. PICK status \in {"running", "error"} :
          operation' = [operation EXCEPT ![o].status = status]
    BY <1>2 DEF BeginInstall, FailInstall
  <2> DEFINE row == [operation[o] EXCEPT !.status = status]
  <2>2. row \in OperationRow /\ row.status # "ready"
    BY <1>1 DEF OperationRow
  <2>3. operation' = [operation EXCEPT ![o] = row]
    BY <2>1
  <2>4. /\ operation[o].status \notin {"ready", "error"}
        /\ UNCHANGED <<marketVars, installation, deckVars>>
    BY <1>2 DEF BeginInstall, FailInstall
  <2> HIDE DEF row
  <2> QED
    BY <2>2, <2>3, <2>4, OperationFrame
<1>3. ASSUME NEW entry \in Commits \cup {Nil}, NEW spec \in Specs, NewOperation(o, entry, spec),
             UNCHANGED <<marketVars, installation, deckVars>>
      PROVE  Step
  <2> DEFINE row == [status |-> "queued", entry |-> entry, spec |-> spec, digest |-> Nil]
  <2>1. row \in OperationRow /\ row.status # "ready"
    BY DEF OperationRow
  <2>2. operation[o].status = "none" /\ operation' = [operation EXCEPT ![o] = row]
    BY <1>3 DEF NewOperation
  <2> HIDE DEF row
  <2> QED
    BY <1>3, <2>1, <2>2, OperationFrame
<1>4. ASSUME NEW entry \in Commits \cup {Nil}, NEW spec \in Specs, PrepareInstall(o, entry, spec)
      PROVE  Step
  BY <1>3, <1>4 DEF PrepareInstall
<1>5. ASSUME NEW spec \in Specs, EnsurePlans(o, spec) PROVE Step
  BY <1>3, <1>5 DEF EnsurePlans
<1> QED
  BY <1>2, <1>4, <1>5

\* What an installation becomes is ready, and its lineage sound.
LEMMA InstalledIsSound ==
  ASSUME PInv, NEW o \in Operations, NEW g \in Digests, NEW source \in Sources,
         EvidenceHolds(o, g, source)
  PROVE  /\ Installed(o, g, source) \in InstallationRow
         /\ Installed(o, g, source).status = "ready"
         /\ LET c == Installed(o, g, source).lineage
            IN  c # Nil => c \in revisions \cap SoundCommits /\ DigestOf[c] = g
<1>1. installation[g] \in InstallationRow /\ operation[o] \in OperationRow
  BY DEF PInv, InstallTypes
<1> DEFINE lineage == IF installation[g].lineage = Nil THEN operation[o].entry
                      ELSE installation[g].lineage
<1>2. lineage \in Commits \cup {Nil}
  BY <1>1 DEF InstallationRow, OperationRow
<1>3. operation[o].entry # Nil =>
        operation[o].entry \in revisions \cap SoundCommits /\ DigestOf[operation[o].entry] = g
  BY DEF EvidenceHolds, Offered, Approvable
<1>4. lineage # Nil => lineage \in revisions \cap SoundCommits /\ DigestOf[lineage] = g
  BY <1>3 DEF PInv, PluginsAreSound, InstallationsTellPlans
<1>5. Installed(o, g, source) =
        IF installation[g].status = "ready" THEN [installation[g] EXCEPT !.lineage = lineage]
        ELSE [status |-> "ready", lineage |-> lineage, spec |-> operation[o].spec,
              source |-> source]
  BY DEF Installed
<1> HIDE DEF lineage
<1>6. CASE installation[g].status = "ready"
  BY <1>1, <1>2, <1>4, <1>5, <1>6 DEF InstallationRow
<1>7. CASE installation[g].status # "ready"
  BY <1>1, <1>2, <1>4, <1>5, <1>7 DEF InstallationRow, OperationRow
<1> QED
  BY <1>6, <1>7

\* A completion, with whatever references it adds.
LEMMA CompleteHolds ==
  ASSUME PInv, NEW o \in Operations, NEW g \in Digests, NEW source \in Sources,
         CompleteInstall(o, g, source), UNCHANGED <<marketVars, copying>>,
         refs' = refs \/ \E declaring \in SUBSET Decks : refs' = Reconciled(g, declaring)
  PROVE  Step
<1> USE DEF PInv, PluginsAreSound
<1> DEFINE new == Installed(o, g, source)
           row == [operation[o] EXCEPT !.status = "ready", !.digest = g]
<1>1. /\ operation[o].status = "running" /\ operation' = [operation EXCEPT ![o] = row]
      /\ installation' = [installation EXCEPT ![g] = new]
      /\ EvidenceHolds(o, g, source)
  BY DEF CompleteInstall, InstallTypes
<1>2. /\ new \in InstallationRow /\ new.status = "ready"
      /\ new.lineage # Nil => new.lineage \in revisions \cap SoundCommits /\ DigestOf[new.lineage] = g
  BY <1>1, InstalledIsSound
<1>3. /\ row \in OperationRow /\ row.status = "ready" /\ row.digest = g
      /\ row.entry = operation[o].entry
  BY DEF InstallTypes, OperationRow
<1> HIDE DEF new, row
<1>4. /\ \A q \in Operations : operation'[q] = IF q = o THEN row ELSE operation[q]
      /\ \A h \in Digests : installation'[h] = IF h = g THEN new ELSE installation[h]
      /\ revisions' = revisions /\ copying' = copying
  BY <1>1 DEF InstallTypes, marketVars
<1>5. InstallTypes'
  BY <1>1, <1>2, <1>3 DEF InstallTypes
<1> DEFINE RefsGrow ==
      /\ refs' \in [Decks -> RefsRow]
      /\ \A d \in Decks, h \in Digests :
           refs'[d][h] = refs[d][h] \/ (refs[d][h] = "none" /\ h = g /\ refs'[d][h] = "on")
<1>6. RefsGrow
  <2>1. CASE refs' = refs
    BY <2>1 DEF DeckTypes
  <2>2. ASSUME NEW declaring \in SUBSET Decks, refs' = Reconciled(g, declaring) PROVE RefsGrow
    <3>1. \A d \in Decks : refs[d] \in RefsRow /\ [refs[d] EXCEPT ![g] = "on"] \in RefsRow
      BY DEF DeckTypes, RefsRow
    <3>2. \A d \in Decks :
            refs'[d] = IF d \in declaring /\ refs[d][g] = "none"
                       THEN [refs[d] EXCEPT ![g] = "on"] ELSE refs[d]
      BY <2>2 DEF Reconciled
    <3>3. refs' \in [Decks -> RefsRow]
      BY <2>2, <3>1 DEF Reconciled
    <3> QED
      BY <3>1, <3>2, <3>3 DEF RefsRow
  <2> QED
    BY <2>1, <2>2
<1>7. DeckTypes' /\ CopiesKnow'
  BY <1>2, <1>4, <1>6 DEF DeckTypes, CopiesKnow
<1>8. ReadyHasDigest'
  BY <1>3, <1>4 DEF ReadyHasDigest
<1>9. InstallationsTellPlans'
  <2>1. \A h \in Digests : LET c == installation'[h].lineage
                           IN  c # Nil => c \in revisions' \cap SoundCommits /\ DigestOf[c] = h
    BY <1>2, <1>4 DEF InstallationsTellPlans
  <2>2. \A h \in Digests : installation[h].status # "none" => installation'[h].status # "none"
    BY <1>2, <1>4
  <2>3. row.entry # Nil => DigestOf[row.entry] = row.digest
    BY <1>1, <1>3 DEF EvidenceHolds
  <2>4. \A q \in Operations :
          operation'[q].status = "ready" =>
            /\ installation'[operation'[q].digest].status # "none"
            /\ operation'[q].entry # Nil => DigestOf[operation'[q].entry] = operation'[q].digest
    BY <1>2, <1>3, <1>4, <2>2, <2>3 DEF InstallationsTellPlans, ReadyHasDigest
  <2> QED
    BY <2>1, <2>4 DEF InstallationsTellPlans
<1>10. RefsFollowInstallations'
  BY <1>2, <1>4, <1>6 DEF RefsFollowInstallations, Ready
<1>11. RevokedIsNotInstalled
  BY <1>1, <1>4 DEF RevokedIsNotInstalled, EvidenceHolds
<1>12. \A q \in Operations :
         operation[q].status \in {"ready", "error"} => operation'[q] = operation[q]
  BY <1>1, <1>4
<1>13. \A d \in Decks, h \in Digests : ~ (refs[d][h] = "off" /\ refs'[d][h] = "on")
  BY <1>6
<1> QED
  BY <1>5, <1>7, <1>8, <1>9, <1>10, <1>11, <1>12, <1>13, OtherFrame

\* The references alone change: to what is ready, or to what a copy has read.
LEMMA RefsFrame ==
  ASSUME PInv, UNCHANGED <<marketVars, operation, installation>>, DeckTypes', CopiesKnow',
         \A d \in Decks, g \in Digests :
           /\ refs'[d][g] # "none" => installation[g].status # "none"
           /\ refs'[d][g] = "on" => Ready(g)
  PROVE  Step
<1>1. revisions' = revisions
  BY DEF marketVars
<1>2. InstallTypes' /\ ReadyHasDigest' /\ InstallationsTellPlans'
  BY <1>1 DEF PInv, PluginsAreSound, InstallTypes, ReadyHasDigest, InstallationsTellPlans
<1>3. RefsFollowInstallations'
  BY DEF RefsFollowInstallations, Ready
<1>4. RevokedIsNotInstalled
  BY DEF RevokedIsNotInstalled
<1> QED
  BY <1>2, <1>3, <1>4, OtherFrame

\* The decks that declare what is shipped get it, once it is ready.
LEMMA EnsureHolds ==
  ASSUME PInv, NEW spec \in Specs, NEW g \in Digests, NEW declaring \in SUBSET Decks,
         EnsureReady(spec, g, declaring)
  PROVE  Step
<1> USE DEF PInv, PluginsAreSound
<1>1. Ready(g) /\ UNCHANGED <<marketVars, operation, installation, copying>>
  BY DEF EnsureReady, ReadyBuiltin, Ready
<1>2. \A d \in Decks :
        refs'[d] = IF d \in declaring /\ refs[d][g] = "none"
                   THEN [refs[d] EXCEPT ![g] = "on"] ELSE refs[d]
  BY DEF EnsureReady, Reconciled
<1>3. \A d \in Decks : refs[d] \in RefsRow /\ [refs[d] EXCEPT ![g] = "on"] \in RefsRow
  BY DEF DeckTypes, RefsRow
<1>4. refs' \in [Decks -> RefsRow]
  BY <1>3 DEF EnsureReady, Reconciled
<1>5. DeckTypes' /\ CopiesKnow'
  BY <1>1, <1>4 DEF DeckTypes, CopiesKnow
<1>6. \A d \in Decks, h \in Digests :
        /\ refs'[d][h] # "none" => installation[h].status # "none"
        /\ refs'[d][h] = "on" => Ready(h)
  <2>1. \A d \in Decks, h \in Digests :
          refs'[d][h] = refs[d][h] \/ (h = g /\ refs'[d][h] = "on")
    BY <1>2, <1>3 DEF RefsRow
  <2>2. installation[g].status # "none"
    BY <1>1 DEF Ready
  <2> QED
    BY <1>1, <2>1, <2>2 DEF RefsFollowInstallations
<1> QED
  BY <1>1, <1>5, <1>6, RefsFrame

\* No enabled reference is left but a copied one.
LEMMA UninstallHolds == ASSUME PInv, NEW g \in Digests, Uninstall(g) PROVE Step
<1> USE DEF PInv, PluginsAreSound
<1> DEFINE row == [installation[g] EXCEPT !.status = "uninstalled"]
<1>1. /\ installation' = [installation EXCEPT ![g] = row] /\ refs' = Disabled(g)
      /\ UNCHANGED <<marketVars, operation, copying>>
  BY DEF Uninstall
<1>2. row \in InstallationRow /\ row.status = "uninstalled" /\ row.lineage = installation[g].lineage
  BY DEF InstallTypes, InstallationRow
<1>3. installation[g].status = "ready"
  BY DEF Uninstall
<1> HIDE DEF row
<1>4. \A h \in Digests : installation'[h] = IF h = g THEN row ELSE installation[h]
  BY <1>1 DEF InstallTypes
<1>5. \A d \in Decks, h \in Digests :
        refs'[d][h] = IF h = g /\ refs[d][h] # "none" THEN "off" ELSE refs[d][h]
  BY <1>1 DEF Disabled, DeckTypes, RefsRow
<1>6. refs' \in [Decks -> RefsRow]
  <2>1. \A d \in Decks :
          [refs[d] EXCEPT ![g] = IF refs[d][g] = "none" THEN refs[d][g] ELSE "off"] \in RefsRow
    BY DEF DeckTypes, RefsRow
  <2> QED
    BY <1>1, <2>1 DEF Disabled
<1>7. DeckTypes' /\ CopiesKnow'
  BY <1>1, <1>2, <1>4, <1>6 DEF DeckTypes, CopiesKnow
<1>8. InstallTypes' /\ ReadyHasDigest'
  BY <1>1, <1>2 DEF InstallTypes, ReadyHasDigest
<1>9. InstallationsTellPlans'
  <2>1. revisions' = revisions /\ operation' = operation
    BY <1>1 DEF marketVars
  <2>2. \A h \in Digests : /\ installation'[h].lineage = installation[h].lineage
                           /\ installation[h].status # "none" => installation'[h].status # "none"
    BY <1>2, <1>4
  <2> QED
    BY <2>1, <2>2 DEF InstallationsTellPlans, ReadyHasDigest
<1>10. RefsFollowInstallations'
  BY <1>2, <1>4, <1>5 DEF RefsFollowInstallations, Ready
<1>11. RevokedIsNotInstalled
  BY <1>1 DEF RevokedIsNotInstalled
<1> QED
  BY <1>1, <1>5, <1>7, <1>8, <1>9, <1>10, <1>11, OtherFrame

\* The owner of a deck chooses among what is ready.
LEMMA ChooseHolds ==
  ASSUME PInv, NEW d \in Decks,
         \/ \E chosen \in [Digests -> {"none", "off", "on"}] : ReplaceRefs(d, chosen)
         \/ \E g \in Digests : EnableRef(d, g)
  PROVE  Step
<1> USE DEF PInv, PluginsAreSound
<1>1. UNCHANGED <<marketVars, operation, installation, copying>>
  BY DEF ReplaceRefs, EnableRef
<1> DEFINE Chosen(row) ==
      /\ refs' = [refs EXCEPT ![d] = row]
      /\ \A g \in Digests : /\ row[g] # "none" => installation[g].status # "none"
                            /\ row[g] = "on" => Ready(g)
<1>2. PICK row \in RefsRow : Chosen(row)
  <2>1. ASSUME NEW chosen \in [Digests -> {"none", "off", "on"}], ReplaceRefs(d, chosen)
        PROVE  \E row \in RefsRow : Chosen(row)
    <3>1. chosen \in RefsRow /\ Chosen(chosen)
      BY <2>1 DEF ReplaceRefs, RefsRow, Ready
    <3> QED
      BY <3>1
  <2>2. ASSUME NEW g \in Digests, EnableRef(d, g) PROVE \E row \in RefsRow : Chosen(row)
    <3> DEFINE row == [refs[d] EXCEPT ![g] = "on"]
    <3>1. row \in RefsRow /\ \A h \in Digests : row[h] = IF h = g THEN "on" ELSE refs[d][h]
      BY DEF DeckTypes, RefsRow
    <3>2. refs' = [refs EXCEPT ![d] = row] /\ Ready(g)
      BY <2>2 DEF EnableRef, DeckTypes
    <3> HIDE DEF row
    <3>3. Chosen(row)
      BY <3>1, <3>2 DEF RefsFollowInstallations, Ready
    <3> QED
      BY <3>1, <3>3
  <2> QED
    BY <2>1, <2>2
<1>3. DeckTypes' /\ CopiesKnow'
  BY <1>1, <1>2 DEF DeckTypes, CopiesKnow
<1>4. \A e \in Decks, g \in Digests :
        /\ refs'[e][g] # "none" => installation[g].status # "none"
        /\ refs'[e][g] = "on" => Ready(g)
  BY <1>2 DEF DeckTypes, RefsFollowInstallations, Ready
<1> QED
  BY <1>1, <1>3, <1>4, RefsFrame

\* What a copy reads exists, ready or not, and still does when it is inserted.
LEMMA BeginCopyHolds ==
  ASSUME PInv, NEW from \in Decks, NEW to \in Decks, BeginCopy(from, to)
  PROVE  Step
<1> USE DEF PInv, PluginsAreSound
<1> DEFINE read == [g \in Digests |-> IF refs[to][g] = "none" THEN refs[from][g] ELSE "none"]
<1>1. /\ UNCHANGED <<marketVars, operation, installation, refs>>
      /\ copying' = [copying EXCEPT ![to] = [from |-> from, read |-> read]]
  BY DEF BeginCopy
<1>2. read \in RefsRow /\ \A g \in Digests : read[g] # "none" => installation[g].status # "none"
  BY DEF DeckTypes, RefsRow, RefsFollowInstallations
<1> HIDE DEF read
<1>3. DeckTypes' /\ CopiesKnow'
  BY <1>1, <1>2 DEF DeckTypes, CopiesKnow
<1> QED
  BY <1>1, <1>3, RefsFrame DEF RefsFollowInstallations

\* What was read is inserted as "copied", or stays disabled.
LEMMA EndCopyHolds == ASSUME PInv, NEW d \in Decks, EndCopy(d) PROVE Step
<1> USE DEF PInv, PluginsAreSound
<1>1. /\ UNCHANGED <<marketVars, operation, installation>>
      /\ refs' = [refs EXCEPT ![d] = Copied(d)]
      /\ copying' = [copying EXCEPT ![d] = NoCopy]
  BY DEF EndCopy
<1>2. /\ Copied(d) \in RefsRow
      /\ \A g \in Digests :
           /\ Copied(d)[g] # "none" => installation[g].status # "none"
           /\ Copied(d)[g] = "on" => Ready(g)
  BY DEF Copied, DeckTypes, RefsRow, RefsFollowInstallations, CopiesKnow
<1>3. NoCopy \in [from : Decks \cup {Nil}, read : RefsRow] /\ \A g \in Digests : NoCopy.read[g] = "none"
  BY DEF NoCopy, RefsRow
<1>4. DeckTypes'
  BY <1>1, <1>2, <1>3 DEF DeckTypes
<1>5. CopiesKnow'
  BY <1>1, <1>3 DEF DeckTypes, CopiesKnow
<1>6. \A e \in Decks, g \in Digests :
        /\ refs'[e][g] # "none" => installation[g].status # "none"
        /\ refs'[e][g] = "on" => Ready(g)
  BY <1>1, <1>2 DEF DeckTypes, RefsFollowInstallations
<1> QED
  BY <1>1, <1>4, <1>5, <1>6, RefsFrame

-----------------------------------------------------------------------------

\* Whatever is done next.
LEMMA NextHolds == PInv /\ [PluginsNext]_pluginVars => PInv' /\ [SafeStep]_pluginVars
<1> SUFFICES ASSUME PInv, [PluginsNext]_pluginVars PROVE PInv' /\ [SafeStep]_pluginVars
  OBVIOUS
<1>1. CASE MarketNext
  <2>1. Step
    BY <1>1, RequestHolds, FetchHolds, RecordHolds, SyncMarkHolds, DecisionHolds DEF MarketNext
  <2> QED
    BY <2>1 DEF Step
<1>2. CASE InstallNext
  <2>1. ASSUME NEW o \in Operations, NEW g \in Digests, NEW source \in Sources,
               ReportComplete(o, g, source)
        PROVE  Step
    BY <2>1, CompleteHolds DEF ReportComplete, deckVars
  <2>2. ASSUME NEW o \in Operations, NEW g \in Digests, NEW declaring \in SUBSET Decks,
               ReportBuiltin(o, g, declaring)
        PROVE  Step
    <3>1. "platform-builtin" \in Sources
      BY DEF Sources
    <3> QED
      BY <2>2, <3>1, CompleteHolds DEF ReportBuiltin
  <2>3. Step
    BY <1>2, <2>1, <2>2, PlanHolds, EnsureHolds, UninstallHolds DEF InstallNext
  <2> QED
    BY <2>3 DEF Step
<1>3. CASE DeckNext
  <2>1. Step
    BY <1>3, ChooseHolds, BeginCopyHolds, EndCopyHolds DEF DeckNext
  <2> QED
    BY <2>1 DEF Step
<1>4. CASE UNCHANGED pluginVars
  <2>1. UNCHANGED <<market, syncRun, syncStep, fetched, revisions, approval, operation,
                    installation, refs, copying>>
    BY <1>4 DEF pluginVars, marketVars, deckVars
  <2> QED
    BY <1>4, <2>1 DEF PInv, MarketTypes, InstallTypes, DeckTypes, SyncsKnow, ReadyHasDigest,
      CopiesKnow, PluginsAreSound, MarketplaceTellsSyncs, InstallationsTellPlans,
      RefsFollowInstallations, Ready
<1> QED
  BY <1>1, <1>2, <1>3, <1>4 DEF PluginsNext

LEMMA AlwaysHolds == PluginsSpec => []PInv /\ [][SafeStep]_pluginVars
<1>1. PluginsInit => PInv
  BY PluginsInitHolds
<1>2. PInv /\ [PluginsNext]_pluginVars => PInv' /\ [SafeStep]_pluginVars
  BY NextHolds
<1> QED
  BY <1>1, <1>2, PTL DEF PluginsSpec

-----------------------------------------------------------------------------

\* Every row tells the truth of the others: runs of their handlers, approvals and
\* lineages of sound commits that were recorded, references of what is ready.
THEOREM PluginsAlwaysSound == PluginsSpec => []PluginsAreSound
<1>1. PInv => PluginsAreSound
  BY DEF PInv
<1> QED
  BY <1>1, AlwaysHolds, PTL

\* What was revoked is not installed, what has ended stays ended, and what was disabled
\* is enabled by no synchronisation, installation or revival.
THEOREM PluginStepsAlwaysSafe == PluginsSpec => PluginStepsAreSafe
BY AlwaysHolds, PTL DEF PluginStepsAreSafe, SafeStep
=============================================================================
