------------------------- MODULE ProviderCredentials -------------------------
(***************************************************************************)
(* The OAuth accounts of the model providers: an administrator authorizes  *)
(* a provider by a device flow (admin/provider-managed-auth.ts), requests  *)
(* of the gateway renew the account's grant under a lease                  *)
(* (gateway/managed-provider-credentials.ts), and every grant that is      *)
(* given up goes through an outbox of revocation jobs                      *)
(* (provider-auth/revocation-jobs.ts).                                     *)
(*                                                                         *)
(* A process stands for one HTTP request.  Each of its database            *)
(* transactions, and each answer of the provider, is one step, so another  *)
(* request, a crash or the end of a lease can come between any two.  A     *)
(* grant is what the provider issued and what must be revoked: the         *)
(* encrypted bundle of a row is the grant it holds.                        *)
(***************************************************************************)
EXTENDS Integers, FiniteSets

CONSTANTS
    Procs,          \* requests in progress at the same time
    Providers,      \* rows of ai_providers with an OAuth adapter
    Accounts,       \* accounts a person may authorize at the provider
    None,           \* NULL
    Orphans,        \* BOOLEAN: a connected row may have no provider pointing to it
    Outcomes,       \* what the provider's revocations come to, in this deployment
    RotationSpends, \* BOOLEAN: a rotated refresh token is refused from then on
    MaxAttempts,    \* bound: authorization attempts
    MaxGrants,      \* bound: grants the provider issues
    MaxRevision,    \* bound: a credential of this revision is not renewed, nor an attempt
                    \* polled again
    MaxTries,       \* bound: claims of a revocation job
    MaxFaults       \* bound: requests that stop half way, leases that end by the clock

ASSUME CredentialsAssumption ==
    /\ Outcomes \subseteq {"succeeded", "unsupported", "failed"}
    /\ Orphans \in BOOLEAN /\ RotationSpends \in BOOLEAN
    /\ {MaxAttempts, MaxGrants, MaxRevision, MaxTries, MaxFaults} \subseteq Nat
    /\ MaxGrants > 0                                     \* the account connected at first
    /\ None \notin Nat \cup Procs \cup Providers

Attempts == 1 .. MaxAttempts
Grants   == 1 .. MaxGrants
\* A new credential is numbered as the attempt that makes it; 0 is the first.
Creds    == 0 .. MaxAttempts

VARIABLES
    provider,    \* ai_providers
    credential,  \* ai_provider_managed_credentials
    attempt,     \* ai_provider_auth_attempts
    jobs,        \* ai_provider_revocation_jobs, by the columns of the unique index
    grant,       \* what the provider issued and what became of it
    proc,        \* the local variables of the requests
    lost,        \* grants a crash, or a double failure, left with nobody
    faults       \* crashes and ended leases so far

vars == <<provider, credential, attempt, jobs, grant, proc, lost, faults>>

NoCredential == [status |-> "none", provider |-> None, account |-> None, epoch |-> 0,
                 revision |-> 0, grant |-> None, lease |-> None, late |-> FALSE,
                 revocation |-> None]
NoAttempt == [status |-> "none", provider |-> None, target |-> None, epoch |-> 0,
              tEpoch |-> 0, tRevision |-> 0, revision |-> 0, lease |-> None,
              late |-> FALSE]
Idle == [pc |-> "idle"]

Live(c)   == credential[c].status \in {"connected", "reauth_required"}
Active(a) == attempt[a].status \in {"starting", "pending"}
Unfinished(k) == jobs[k].status \in {"pending", "processing", "failed"}
\* A grant the provider still honours when it is asked to renew it.
Usable(g) == grant[g].state = "live" \/ (~RotationSpends /\ grant[g].state = "spent")

\* A system in use: one provider has its account connected; of an older release
\* there may be a row that no provider points to.
Init ==
    \E p \in Providers, u \in Accounts, orphan \in {FALSE, Orphans} :
        /\ provider = [q \in Providers |-> [status |-> "active", epoch |-> 1,
              credential |-> IF q = p /\ ~orphan THEN 0 ELSE None]]
        /\ credential = [c \in Creds |->
              IF c > 0 THEN NoCredential
              ELSE [NoCredential EXCEPT !.status = "connected", !.provider = p,
                       !.account = u, !.epoch = 1, !.revision = 1, !.grant = 1]]
        /\ attempt = [a \in Attempts |-> NoAttempt]
        /\ jobs = <<>>
        /\ grant = [g \in Grants |->
              IF g = 1 THEN [state |-> "live", account |-> u, of |-> 0]
              ELSE [state |-> "none", account |-> None, of |-> None]]
        /\ proc = [x \in Procs |-> Idle]
        /\ lost = {}
        /\ faults = 0

------------------------------------------------------------------------------
(* Grants and the outbox. *)

\* Grants are issued in order; g is issued for account u, and descends from the
\* authorization a.
Fresh(g) == grant[g].state = "none" /\ \A h \in Grants : h < g => grant[h].state # "none"
Issued(u, a) == [state |-> "live", account |-> u, of |-> a]

KeyMutant(kind, id, revision, reason) ==                 \* the revision before
    [source |-> <<kind, id>>, revision |-> revision - 1, reason |-> reason]
Key(kind, id, revision, reason) ==
    [source |-> <<kind, id>>, revision |-> revision, reason |-> reason]

NewJob(g, p, account) ==
    [grant |-> g, provider |-> p, account |-> account, status |-> "pending",
     revision |-> 1, lease |-> None, late |-> FALSE]

EnqueuedMutant(k, j) ==                     \* the reason is not part of the index
    IF \E q \in DOMAIN jobs : q.source = k.source /\ q.revision = k.revision THEN jobs
    ELSE [q \in DOMAIN jobs \cup {k} |-> IF q = k THEN j ELSE jobs[q]]
\* enqueueProviderRevocationJobOnClient: a job of the same key is returned as it
\* is, and the material of the second call goes nowhere.
Enqueued(k, j) ==
    IF k \in DOMAIN jobs THEN jobs
    ELSE [q \in DOMAIN jobs \cup {k} |-> IF q = k THEN j ELSE jobs[q]]

\* processProviderRevocationJob, first transaction (claimJob).  jrev is the
\* revision the caller insists on, None when it insists on none (force).
ClaimJob(x) ==
    LET k == proc[x].job
        free(q) == ~(jobs[q].status = "processing" /\ q # k /\ q.source = k.source)
        may == /\ Unfinished(k)
               /\ proc[x].jrev \in {None, jobs[k].revision}
               /\ jobs[k].status = "processing" => jobs[k].late
               /\ \A q \in DOMAIN jobs : free(q)
    IN /\ proc[x].pc = "work"
       /\ jobs' = IF may
                  THEN [jobs EXCEPT ![k].status = "processing", ![k].lease = x,
                                    ![k].revision = @ + 1, ![k].late = FALSE]
                  ELSE jobs
       /\ proc' = [proc EXCEPT ![x] =
             IF may THEN [pc |-> "revoke", job |-> k, jrev |-> jobs[k].revision + 1,
                          grant |-> jobs[k].grant]
                    ELSE Idle]
       /\ UNCHANGED <<provider, credential, attempt, grant, lost, faults>>

\* The row that a disconnection left, which reports on its job.
TellsMutant(k) ==                                    \* the revision before it
    /\ k.reason = "disconnect" /\ credential[k.source[2]].revision = k.revision
    /\ credential[k.source[2]].status = "disconnected"
Tells(k) ==
    /\ k.reason = "disconnect" /\ credential[k.source[2]].revision = k.revision + 1
    /\ credential[k.source[2]].status = "disconnected"

\* The call of the provider and the second transaction (finishJob), which writes
\* the job and the row a disconnection left behind, if the lease and the revision
\* are still those of the claim.  What comes between the two is what comes before
\* the call: nothing else reads whether a grant is revoked.  "unsupported" is also
\* the outcome when the registration of the deployment has changed.
RevokeAndFinish(x) ==
    LET k == proc[x].job
        own == /\ jobs[k].revision = proc[x].jrev /\ jobs[k].lease = x
               /\ jobs[k].status = "processing"
        c == k.source[2]
    IN /\ proc[x].pc = "revoke"
       /\ \E outcome \in Outcomes :
             /\ grant' = IF outcome = "succeeded"
                         THEN [grant EXCEPT ![proc[x].grant].state = "revoked"] ELSE grant
             /\ jobs' = IF own
                        THEN [jobs EXCEPT ![k].status = outcome, ![k].late = FALSE,
                                          ![k].revision = @ + 1, ![k].lease = None]
                        ELSE jobs
             /\ credential' = IF own /\ Tells(k)
                              THEN [credential EXCEPT ![c].revocation = outcome]
                              ELSE credential
       /\ proc' = [proc EXCEPT ![x] = Idle]
       /\ UNCHANGED <<provider, attempt, lost, faults>>

\* handleProviderManagedAuthRevocationRetry: the job is looked up by its account,
\* so one whose managed_credential_id is NULL is not found.
Retryable(k) ==
    /\ Unfinished(k) /\ jobs[k].account # None
    /\ provider[jobs[k].provider].status # "deleted"

RetryRevocation(x, k) ==
    /\ proc[x].pc = "idle" /\ Retryable(k) /\ jobs[k].revision < 2 * MaxTries
    /\ proc' = [proc EXCEPT ![x] = [pc |-> "work", job |-> k, jrev |-> jobs[k].revision]]
    /\ UNCHANGED <<provider, credential, attempt, jobs, grant, lost, faults>>

\* A process keeps its place and remembers the job it will process last.
ThenWork(k) == [pc |-> "work", job |-> k, jrev |-> None]

------------------------------------------------------------------------------
(* Requests of the gateway: resolveManagedCredential, renewCredential. *)

\* The row the pointer of the provider names, connected: loadCredential and
\* assertCurrentCredential.  A request whose grant needs no renewal returns it
\* and changes nothing; one that lost the lease sleeps and loads again, which is
\* this step anew.
LoadToRenew(x, p) ==
    LET c == provider[p].credential
    IN /\ proc[x].pc = "idle" /\ provider[p].status = "active" /\ c # None
       /\ credential[c].status = "connected" /\ credential[c].revision < MaxRevision
       /\ proc' = [proc EXCEPT ![x] =
             [pc |-> "renew", cred |-> c, revision |-> credential[c].revision,
              epoch |-> credential[c].epoch, grant |-> credential[c].grant]]
       /\ UNCHANGED <<provider, credential, attempt, jobs, grant, lost, faults>>

Unchanged(x) ==
    LET c == proc[x].cred
    IN credential[c].revision = proc[x].revision /\ credential[c].epoch = proc[x].epoch
HoldsMutant(x) ==                               \* a row without a lease will do
    credential[proc[x].cred].lease \in {None, x}
Holds(x) == Unchanged(x) /\ credential[proc[x].cred].lease = x

ClaimLease(x) ==
    LET c == proc[x].cred
        may == /\ Unchanged(x) /\ credential[c].status = "connected"
               /\ credential[c].lease = None \/ credential[c].late
    IN /\ proc[x].pc = "renew"
       /\ credential' = IF may THEN [credential EXCEPT ![c].lease = x, ![c].late = FALSE]
                               ELSE credential
       /\ proc' = [proc EXCEPT ![x] = IF may THEN [@ EXCEPT !.pc = "refresh"] ELSE Idle]
       /\ UNCHANGED <<provider, attempt, jobs, grant, lost, faults>>

\* refreshOrRenew, outside any transaction.  A new grant replaces the one it was
\* asked with; the provider may issue it and the answer still be refused
\* ("rejected": another identity, a missing scope, a failed second call).
Refresh(x) ==
    LET g == proc[x].grant
        answered(result, new) ==
            proc' = [proc EXCEPT ![x] = [pc |-> "answered", cred |-> @.cred,
                        revision |-> @.revision, epoch |-> @.epoch, grant |-> g,
                        result |-> result, new |-> new]]
    IN /\ proc[x].pc = "refresh"
       /\ \/ \E result \in {"ready", "rejected"}, new \in Grants :
                /\ Usable(g) /\ Fresh(new)
                /\ grant' = [grant EXCEPT ![new] = Issued(grant[g].account, grant[g].of),
                                          ![g].state = "spent"]
                /\ answered(result, new)
          \/ /\ Usable(g)
             /\ answered("ready", None) /\ UNCHANGED grant
          \/ \E result \in {"reauthorize", "failed"} :
                answered(result, None) /\ UNCHANGED grant
       /\ UNCHANGED <<provider, credential, attempt, jobs, lost, faults>>

\* A new bundle is written under the lease, the revision and the epoch the
\* request started from; a loser has the grant it got revoked.
Persist(x) ==
    LET c == proc[x].cred
        new == proc[x].new
        own == Holds(x) /\ credential[c].status = "connected"
    IN /\ proc[x].pc = "answered" /\ proc[x].result = "ready"
       /\ credential' = IF own
            THEN [credential EXCEPT ![c].revision = @ + 1, ![c].lease = None,
                     ![c].late = FALSE, ![c].grant = IF new = None THEN @ ELSE new]
            ELSE credential
       /\ proc' = [proc EXCEPT ![x] =
             IF own \/ new = None THEN Idle ELSE [@ EXCEPT !.pc = "reject"]]
       /\ UNCHANGED <<provider, attempt, jobs, grant, lost, faults>>

\* releaseRefreshLease, when the call failed without issuing a grant.
Release(x) ==
    LET c == proc[x].cred
        own == credential[c].revision = proc[x].revision /\ credential[c].lease = x
    IN /\ proc[x].pc = "answered" /\ proc[x].result = "failed"
       /\ credential' = IF own
                        THEN [credential EXCEPT ![c].lease = None, ![c].late = FALSE]
                        ELSE credential
       /\ proc' = [proc EXCEPT ![x] = Idle]
       /\ UNCHANGED <<provider, attempt, jobs, grant, lost, faults>>

\* persistRenewalRejected: the outbox first, the row after it.
RejectRenewal(x) ==
    LET c == proc[x].cred
        k == Key("credential", c, proc[x].revision, "renewal_rejected")
    IN /\ \/ proc[x].pc = "reject"
          \/ proc[x].pc = "answered" /\ proc[x].result = "rejected"
       /\ jobs' = Enqueued(k, NewJob(proc[x].new, credential[c].provider, c))
       /\ proc' = [proc EXCEPT ![x] =
             IF @.pc = "reject" THEN ThenWork(k)
             ELSE [pc |-> "mark", cred |-> c, revision |-> @.revision,
                   epoch |-> @.epoch, job |-> k]]
       /\ UNCHANGED <<provider, credential, attempt, grant, lost, faults>>

\* markReauthorizationRequired, then the job if there is one.
MarkReauthorization(x) ==
    LET c == proc[x].cred
        refused == proc[x].pc = "answered" /\ proc[x].result = "reauthorize"
    IN /\ refused \/ proc[x].pc = "mark"
       /\ credential' = IF Holds(x)
            THEN [credential EXCEPT ![c].status = "reauth_required",
                     ![c].epoch = @ + 1, ![c].lease = None, ![c].late = FALSE]
            ELSE credential
       /\ proc' = [proc EXCEPT ![x] = IF refused THEN Idle ELSE ThenWork(@.job)]
       /\ UNCHANGED <<provider, attempt, jobs, grant, lost, faults>>

------------------------------------------------------------------------------
(* The device flow of an administrator. *)

\* An attempt that is over (denied, expired, failed, cancelled: the same to every
\* later reader) keeps its provider; nothing reads its fences again.
Ended(a) == [NoAttempt EXCEPT !.status = "ended", !.provider = attempt[a].provider]

\* handleProviderManagedAuthStart, first transaction: a provider with an account
\* is reauthorized, the account being fenced by its epoch and its revision; the
\* attempts in progress of the same epoch are superseded.
Start(x, p, a) ==
    LET c == provider[p].credential
        superseded(b) == attempt[b].provider = p /\ Active(b)
                         /\ attempt[b].epoch = provider[p].epoch
    IN /\ proc[x].pc = "idle" /\ provider[p].status # "deleted"
       /\ attempt[a].status = "none" /\ \A b \in Attempts : b < a => attempt[b].status # "none"
       /\ attempt' = [b \in Attempts |->
             IF b = a
             THEN [NoAttempt EXCEPT !.status = "starting", !.provider = p, !.target = c,
                      !.epoch = provider[p].epoch, !.revision = 1,
                      !.tEpoch = IF c = None THEN 0 ELSE credential[c].epoch,
                      !.tRevision = IF c = None THEN 0 ELSE credential[c].revision]
             ELSE IF superseded(b) THEN Ended(b) ELSE attempt[b]]
       /\ proc' = [proc EXCEPT ![x] = [pc |-> "start", at |-> a]]
       /\ UNCHANGED <<provider, credential, jobs, grant, lost, faults>>

\* startDevice, and the second transaction: the device code is out, or the
\* attempt fails; nothing happens to an attempt cancelled meanwhile.
StartAnswered(x) ==
    LET a == proc[x].at
        own == attempt[a].status = "starting"
        fits == provider[attempt[a].provider].epoch = attempt[a].epoch
    IN /\ proc[x].pc = "start"
       /\ \/ attempt' = IF own THEN [attempt EXCEPT ![a] = Ended(a)] ELSE attempt
          \/ attempt' = IF own /\ fits
                        THEN [attempt EXCEPT ![a].status = "pending", ![a].revision = 2]
                        ELSE attempt
       /\ proc' = [proc EXCEPT ![x] = Idle]
       /\ UNCHANGED <<provider, credential, jobs, grant, lost, faults>>

\* The account an attempt is to replace is as it was when the attempt started.
TargetStands(a) ==
    LET c == attempt[a].target
    IN c # None => /\ Live(c)
                   /\ credential[c].epoch = attempt[a].tEpoch
                   /\ credential[c].revision = attempt[a].tRevision

\* claimPoll: past the deadline of the device code the attempt expires; else one
\* poll at a time asks the provider.
ClaimPoll(x, a) ==
    LET p == attempt[a].provider
    IN /\ proc[x].pc = "idle" /\ attempt[a].status = "pending"
       /\ provider[p].status # "deleted" /\ provider[p].epoch = attempt[a].epoch
       /\ TargetStands(a)
       /\ \/ /\ attempt' = [attempt EXCEPT ![a] = Ended(a)]
             /\ UNCHANGED proc
          \/ /\ attempt[a].lease = None \/ attempt[a].late
             /\ attempt' = [attempt EXCEPT ![a].lease = x, ![a].late = FALSE]
             /\ proc' = [proc EXCEPT ![x] = [pc |-> "poll", at |-> a,
                                             revision |-> attempt[a].revision]]
       /\ UNCHANGED <<provider, credential, jobs, grant, lost, faults>>

\* pollDevice: a device code yields one grant; it is for the account of whoever
\* typed the code, and may be refused after it was issued ("rejected").
PollDevice(x) ==
    LET a == proc[x].at
        answered(result, new) ==
            proc' = [proc EXCEPT ![x] = [pc |-> "polled", at |-> a, result |-> result,
                                         revision |-> @.revision, new |-> new]]
    IN /\ proc[x].pc = "poll"
       /\ \/ \E result \in {"connected", "rejected"}, u \in Accounts, g \in Grants :
                /\ Fresh(g) /\ \A h \in Grants : grant[h].of # a
                /\ grant' = [grant EXCEPT ![g] = Issued(u, a)]
                /\ answered(result, g)
          \/ \E result \in {"pending", "over"} :
                answered(result, None) /\ UNCHANGED grant
       /\ UNCHANGED <<provider, credential, attempt, jobs, lost, faults>>

\* The poll's own lease on the attempt, as every write of it demands.
OwnsPoll(x) ==
    LET a == proc[x].at
    IN /\ attempt[a].status = "pending" /\ attempt[a].lease = x
       /\ attempt[a].revision = proc[x].revision

\* updatePendingPoll and completeTerminalPoll write only while no disconnection has
\* moved the provider's epoch on.
PollFits(x) ==
    LET a == proc[x].at
    IN OwnsPoll(x) /\ provider[attempt[a].provider].epoch = attempt[a].epoch

\* updatePendingPoll, completeTerminalPoll and markAttemptFailure after an answer
\* without a grant ("over": denied, expired, failed); the deadline may pass under a
\* pending answer too.
PollEnds(x) ==
    LET a == proc[x].at
        result == proc[x].result
    IN /\ proc[x].pc = "polled" /\ result \notin {"connected", "rejected"}
       /\ \/ /\ result = "pending" /\ attempt[a].revision <= MaxRevision
             /\ attempt' = IF PollFits(x) THEN [attempt EXCEPT ![a].revision = @ + 1,
                                                   ![a].lease = None, ![a].late = FALSE]
                                          ELSE attempt
          \/ attempt' = IF PollFits(x) THEN [attempt EXCEPT ![a] = Ended(a)] ELSE attempt
          \/ /\ result = "over"
             /\ attempt' = IF OwnsPoll(x) THEN [attempt EXCEPT ![a] = Ended(a)] ELSE attempt
       /\ proc' = [proc EXCEPT ![x] = Idle]
       /\ UNCHANGED <<provider, credential, jobs, grant, lost, faults>>

\* connectCredential: whether the transaction commits.  The account must be the
\* one bound to the target; without a target it must not belong to a provider
\* that points to it, and the provider must have no other live row (unique index).
Duplicates(x) ==
    {d \in Creds : Live(d) /\ credential[d].account = grant[proc[x].new].account}
Connectable(x) ==
    LET a == proc[x].at
        p == attempt[a].provider
        c == attempt[a].target
        u == grant[proc[x].new].account
        row(d) == credential[d]
    IN /\ provider[p].status # "deleted" /\ provider[p].epoch = attempt[a].epoch
       /\ OwnsPoll(x) /\ provider[p].credential = c /\ TargetStands(a)
       /\ IF c # None THEN row(c).account = u
          ELSE /\ \A d \in Duplicates(x) : provider[row(d).provider].credential # d
               /\ \A d \in Creds \ Duplicates(x) : Live(d) => row(d).provider # p

\* The row that holds the new grant, and one that has given its grant up.
ConnectedRowMutant(x, d) ==                        \* the bundle is not written anew
    [NoCredential EXCEPT !.status = "connected", !.provider = attempt[proc[x].at].provider,
        !.account = grant[proc[x].new].account,
        !.grant = IF credential[d].grant = None THEN proc[x].new ELSE credential[d].grant,
        !.epoch = credential[d].epoch + 1, !.revision = credential[d].revision + 1]
ConnectedRow(x, d) ==
    [NoCredential EXCEPT !.status = "connected", !.provider = attempt[proc[x].at].provider,
        !.account = grant[proc[x].new].account, !.grant = proc[x].new,
        !.epoch = credential[d].epoch + 1, !.revision = credential[d].revision + 1]
DisconnectedRowMutant(d) ==                         \* it may be authorized again
    [credential[d] EXCEPT !.status = "reauth_required", !.epoch = @ + 1,
        !.revision = @ + 1, !.lease = None, !.late = FALSE]
DisconnectedRow(d) ==
    [credential[d] EXCEPT !.status = "disconnected", !.epoch = @ + 1, !.revision = @ + 1,
        !.grant = None, !.lease = None, !.late = FALSE, !.revocation = "not_attempted"]

\* What it writes: the row of the target, or a new one; the orphan of the same
\* account, which is disconnected; the provider; the attempt; and the job that
\* revokes the grant that was replaced.
Connect(x) ==
    LET a == proc[x].at
        p == attempt[a].provider
        c == attempt[a].target
        g == proc[x].new
        orphans == IF c = None THEN Duplicates(x) ELSE {}
        given_up == orphans \cup IF c = None \/ credential[c].grant = g THEN {} ELSE {c}
        replaced(d) == Key("credential", d, credential[d].revision, "replacement")
        row == IF c = None THEN a ELSE c
    IN /\ proc[x].pc = "polled" /\ proc[x].result = "connected" /\ Connectable(x)
       /\ \E old \in IF given_up = {} THEN {None} ELSE given_up :
             /\ jobs' = IF old = None THEN jobs
                        ELSE Enqueued(replaced(old), NewJob(credential[old].grant,
                                          credential[old].provider, old))
             /\ proc' = [proc EXCEPT ![x] =
                            IF old = None THEN Idle ELSE ThenWork(replaced(old))]
       /\ credential' = [d \in Creds |->
             IF d = row THEN ConnectedRow(x, d)
             ELSE IF d \in orphans THEN [DisconnectedRow(d) EXCEPT !.provider = None]
             ELSE credential[d]]
       /\ provider' = [provider EXCEPT ![p].credential = row, ![p].epoch = @ + 1]
       /\ attempt' = [attempt EXCEPT ![a] = Ended(a)]
       /\ UNCHANGED <<grant, lost, faults>>

\* recordRejectedGrant: a grant that cannot be connected, or that came with an
\* error, or that the deployment's readiness refuses, goes to the outbox; its job
\* has no account.
RejectGrant(x) ==
    LET a == proc[x].at
        k == Key("attempt", a, proc[x].revision, "activation_rejected")
    IN /\ proc[x].pc = "polled" /\ proc[x].result \in {"connected", "rejected"}
       /\ jobs' = Enqueued(k, NewJob(proc[x].new, attempt[a].provider, None))
       /\ proc' = [proc EXCEPT ![x] = [pc |-> "fail", at |-> a, job |-> k,
                                       revision |-> @.revision]]
       /\ UNCHANGED <<provider, credential, attempt, grant, lost, faults>>

\* recordRejectedGrant, second transaction: markAttemptFailure, which may find the
\* attempt changed; the worker is called in either case.
FailAttempt(x) ==
    LET a == proc[x].at
    IN /\ proc[x].pc = "fail"
       /\ attempt' = IF OwnsPoll(x) THEN [attempt EXCEPT ![a] = Ended(a)]
                                    ELSE attempt
       /\ proc' = [proc EXCEPT ![x] = ThenWork(@.job)]
       /\ UNCHANGED <<provider, credential, jobs, grant, lost, faults>>

\* handleProviderManagedAuthCancel, of an attempt in progress.
Cancel(a) ==
    /\ Active(a) /\ provider[attempt[a].provider].status # "deleted"
    /\ attempt' = [attempt EXCEPT ![a] = Ended(a)]
    /\ UNCHANGED <<provider, credential, jobs, grant, proc, lost, faults>>

\* handleProviderManagedAuthDisconnectAccount.
Disconnect(x, p) ==
    LET c == provider[p].credential
        k == Key("credential", c, credential[c].revision, "disconnect")
    IN /\ proc[x].pc = "idle" /\ provider[p].status # "deleted" /\ c # None
       /\ Live(c)
       /\ jobs' = Enqueued(k, NewJob(credential[c].grant, p, c))
       /\ attempt' = [a \in Attempts |->
             IF Active(a) /\ attempt[a].target = c THEN Ended(a) ELSE attempt[a]]
       /\ credential' = [credential EXCEPT ![c] = DisconnectedRow(c)]
       /\ provider' = [provider EXCEPT ![p].credential = None, ![p].epoch = @ + 1]
       /\ proc' = [proc EXCEPT ![x] = ThenWork(k)]
       /\ UNCHANGED <<grant, lost, faults>>

\* handleAdminResourceDelete of a provider: refused while an account, a live row,
\* an attempt or a revocation is left.
DeleteBlockers(p) == {k \in DOMAIN jobs : jobs[k].provider = p /\ Unfinished(k)}
Delete(p) ==
    /\ provider[p].status # "deleted" /\ provider[p].credential = None
    /\ ~\E c \in Creds : Live(c) /\ credential[c].provider = p
    /\ ~\E a \in Attempts : Active(a) /\ attempt[a].provider = p
    /\ DeleteBlockers(p) = {}
    /\ provider' = [provider EXCEPT ![p].status = "deleted", ![p].epoch = @ + 1]
    /\ UNCHANGED <<credential, attempt, jobs, grant, proc, lost, faults>>

------------------------------------------------------------------------------
(* Faults. *)

\* The grant a request holds and has not handed to a row or to a job.
Held(x) == IF proc[x].pc \in {"answered", "reject", "polled"} THEN {proc[x].new} \ {None}
           ELSE {}

\* A request stops between two steps.
Crash(x) ==
    /\ proc[x].pc # "idle" /\ faults < MaxFaults
    /\ faults' = faults + 1
    /\ lost' = lost \cup Held(x)
    /\ grant' \in {grant} \cup IF proc[x].pc # "revoke" THEN {}
                              ELSE {[grant EXCEPT ![proc[x].grant].state = "revoked"]}
    /\ proc' = [proc EXCEPT ![x] = Idle]
    /\ UNCHANGED <<provider, credential, attempt, jobs>>

\* The database refuses the job: one call of the provider is all that is tried.
EnqueueFails(x) ==
    /\ Held(x) # {}
    /\ proc[x].pc # "reject" => proc[x].result \in {"connected", "rejected"}
    /\ faults < MaxFaults
    /\ faults' = faults + 1
    /\ \/ grant' = [grant EXCEPT ![proc[x].new].state = "revoked"] /\ UNCHANGED lost
       \/ lost' = lost \cup Held(x) /\ UNCHANGED grant
    /\ proc' = [proc EXCEPT ![x] = Idle]
    /\ UNCHANGED <<provider, credential, attempt, jobs>>

\* A lease ends by the clock of the database, whoever holds it.
Lapse ==
    /\ faults < MaxFaults
    /\ faults' = faults + 1
    /\ \/ \E c \in Creds : /\ credential[c].lease # None /\ ~credential[c].late
                           /\ credential' = [credential EXCEPT ![c].late = TRUE]
                           /\ UNCHANGED <<attempt, jobs>>
       \/ \E a \in Attempts : /\ attempt[a].lease # None /\ ~attempt[a].late
                              /\ attempt' = [attempt EXCEPT ![a].late = TRUE]
                              /\ UNCHANGED <<credential, jobs>>
       \/ \E k \in DOMAIN jobs : /\ jobs[k].lease # None /\ ~jobs[k].late
                                 /\ jobs' = [jobs EXCEPT ![k].late = TRUE]
                                 /\ UNCHANGED <<credential, attempt>>
    /\ UNCHANGED <<provider, grant, proc, lost>>

Next ==
    \/ \E x \in Procs :
          \/ ClaimJob(x) \/ RevokeAndFinish(x)
          \/ ClaimLease(x) \/ Refresh(x) \/ Persist(x) \/ Release(x)
          \/ RejectRenewal(x) \/ MarkReauthorization(x)
          \/ StartAnswered(x) \/ PollDevice(x) \/ PollEnds(x)
          \/ Connect(x) \/ RejectGrant(x) \/ FailAttempt(x)
          \/ Crash(x) \/ EnqueueFails(x)
          \/ \E k \in DOMAIN jobs : RetryRevocation(x, k)
          \/ \E p \in Providers : LoadToRenew(x, p) \/ Disconnect(x, p)
          \/ \E p \in Providers, a \in Attempts : Start(x, p, a)
          \/ \E a \in Attempts : ClaimPoll(x, a)
    \/ \E a \in Attempts : Cancel(a)
    \/ \E p \in Providers : Delete(p)
    \/ Lapse

Spec == Init /\ [][Next]_vars

------------------------------------------------------------------------------
(* Properties. *)

Statuses == {"pending", "processing", "succeeded", "unsupported", "failed"}
Keys == [source : ({"credential"} \X Creds) \cup ({"attempt"} \X Attempts),
         revision : Nat \ {0},
         reason : {"disconnect", "replacement", "activation_rejected", "renewal_rejected"}]

TypeOK ==
    /\ provider \in [Providers -> [status : {"active", "deleted"}, epoch : Nat \ {0},
                                   credential : Creds \cup {None}]]
    /\ credential \in [Creds ->
          [status : {"none", "connected", "reauth_required", "disconnected"},
           provider : Providers \cup {None}, account : Accounts \cup {None},
           epoch : Nat, revision : Nat, grant : Grants \cup {None},
           lease : Procs \cup {None}, late : BOOLEAN,
           revocation : {None, "not_attempted", "succeeded", "unsupported", "failed"}]]
    /\ attempt \in [Attempts ->
          [status : {"none", "starting", "pending", "ended"},
           provider : Providers \cup {None}, target : Creds \cup {None},
           epoch : Nat, tEpoch : Nat, tRevision : Nat, revision : Nat,
           lease : Procs \cup {None}, late : BOOLEAN]]
    /\ DOMAIN jobs \subseteq Keys
    /\ \A k \in DOMAIN jobs :
          jobs[k] \in [grant : Grants, provider : Providers, account : Creds \cup {None},
                       status : Statuses, revision : Nat \ {0},
                       lease : Procs \cup {None}, late : BOOLEAN]
    /\ grant \in [Grants -> [state : {"none", "live", "spent", "revoked"},
                             account : Accounts \cup {None},
                             of : Attempts \cup {0, None}]]
    /\ lost \subseteq Grants

\* No grant the provider still honours is forgotten: it is the bundle of a live
\* row, or a request that has just got it carries it, or a revocation job is to
\* revoke it (or has recorded that it cannot); only a crash before the outbox, or
\* a database and a provider that fail together, lose one.
NoGrantIsForgotten ==
    \A g \in Grants : grant[g].state = "live" =>
        \/ \E c \in Creds : Live(c) /\ credential[c].grant = g
        \/ \E x \in Procs : g \in Held(x)
        \/ \E k \in DOMAIN jobs : jobs[k].grant = g /\ jobs[k].status # "succeeded"
        \/ g \in lost

\* The outbox never holds the grant that is in use: no revocation, however late,
\* cuts off a connected account.
InUseIsNotRevoked ==
    \A c \in Creds : Live(c) =>
        /\ grant[credential[c].grant].state # "revoked"
        /\ \A k \in DOMAIN jobs : jobs[k].grant # credential[c].grant

\* A provider points to its one live row, and no two live rows are of the same
\* account; the row left by older releases is the only one nobody points to.  A provider is
\* not deleted under its account.
PointerNamesTheAccount ==
    /\ \A p \in Providers : provider[p].credential # None =>
          /\ Live(provider[p].credential)
          /\ credential[provider[p].credential].provider = p
    /\ \A c \in Creds : Live(c) =>
          \/ provider[credential[c].provider].credential = c
          \/ Orphans /\ c = 0 /\ credential[c].revision = 1
    /\ \A c, d \in Creds : Live(c) /\ Live(d) /\ c # d =>
          credential[c].account # credential[d].account
    /\ \A c \in Creds : Live(c) => provider[credential[c].provider].status # "deleted"

\* What the administrator reads on a disconnected account is what its job did,
\* and "succeeded" means that the provider has revoked the grant.
RevocationIsReportedTruly ==
    \A k \in DOMAIN jobs :
        /\ jobs[k].status = "succeeded" => grant[jobs[k].grant].state = "revoked"
        /\ k.reason = "disconnect" =>
              LET told == credential[k.source[2]].revocation
              IN jobs[k].status \in {"succeeded", "unsupported", "failed"}
                    => told = jobs[k].status

\* The rows say what is the case: of the account in use and of the revocations.
RowsTellTheTruth ==
    /\ TypeOK
    /\ PointerNamesTheAccount
    /\ RevocationIsReportedTruly

\* An epoch of an account names one authorization: a request fenced by it never
\* gets a token that descends from another login of the administrator, however
\* late a renewal writes.  An account that was disconnected stays so, neither a
\* late renewal nor a poll that was asking the provider meanwhile brings it back,
\* and nothing of an attempt that has ended changes again.
Login(c) == {grant[g].of : g \in {credential[c].grant} \cap Grants}
LateAnswersAreFenced ==
    [][/\ \A c \in Creds : Live(c) /\ credential'[c].epoch = credential[c].epoch =>
             Login(c)' = Login(c)
       /\ \A c \in Creds : credential[c].status = "disconnected" =>
             credential'[c].status = "disconnected" /\ credential'[c].grant = None
       /\ \A a \in Attempts : attempt[a].status = "ended" => attempt'[a] = attempt[a]]_vars

\* provider-auth/.folder.md: "Remote failure retains encrypted material for explicit
\* revision-fenced retry".  A job that failed can be retried by an administrator,
\* as the refusal to delete its provider tells him to do.
FailedCanBeRetried ==
    \A k \in DOMAIN jobs : jobs[k].status = "failed" => Retryable(k)
==============================================================================
