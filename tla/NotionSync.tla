----------------------------- MODULE NotionSync -----------------------------
(***************************************************************************)
(* The connector of a user to Notion and the runs that synchronise it      *)
(* (notionSyncRunRepository.ts, notionSyncRunState.ts and                  *)
(* notionConnectorRepository.ts).  A worker of Dream claims the connector  *)
(* for the time of a lease, scans the selected sources outside of any      *)
(* transaction, renews, and finishes with a snapshot or a failure.         *)
(* Meanwhile the user may change the rule, the selection and the           *)
(* authorization, which makes what is being scanned worthless.             *)
(*                                                                         *)
(* Everything about one connector is in its row, and every writer locks    *)
(* it.  The operations of a run read the clock of the database when they   *)
(* have the lock and again before they commit, so each is two actions here *)
(* and time passes between them.  Instants are kept as the time that is    *)
(* left of a lease and the time since the last success.  A repeated        *)
(* request is answered by its receipt and changes nothing; a refused one   *)
(* changes nothing either; neither is an action.                           *)
(***************************************************************************)
EXTENDS Integers

CONSTANTS
  Sources,      \* the databases and pages of Notion a user can select
  Workers,      \* processes of Dream: worker_id with its service
  Versions,     \* bound: the snapshot versions the workers make up
  SyncLease,    \* lease_seconds, in steps of the clock
  Interval,     \* interval_minutes, in steps of the clock
  MaxRuns,      \* bound on fence_epoch
  MaxChanges,   \* bound: writes of the selection or of the authorization
  Nil

ASSUME NotionAssumption ==
  /\ SyncLease \in Nat \ {0} /\ Interval \in Nat \ {0}
  /\ MaxRuns \in Nat /\ MaxChanges \in Nat
  /\ Nil \notin Versions \cup Workers \cup [scope : SUBSET Sources, seen : Nat]

VARIABLES
  connector,  \* resource_connectors and the selected connector_resources
  exec,       \* snapshot_sync_execution in its config
  policy,     \* snapshot_sync_policy in its config
  snapshot,   \* connector_snapshots, by version
  keys,       \* the runs the workers know to be theirs
  tx,         \* the operation of a run that has the lock of the row
  changes,    \* history: how often selection or authorization were written
  inherited   \* history: an older program left a scan without an owner

notionVars == <<connector, exec, policy, snapshot, keys, tx, changes, inherited>>

Never == -1

NoRun == [epoch |-> 0, worker |-> Nil, selection |-> 0, authorization |-> 0,
          lease |-> 0, status |-> "none"]
NoKey == [epoch |-> 0, worker |-> Nil, scope |-> {}, seen |-> 0]
NoTx  == [op |-> "none", worker |-> Nil, key |-> NoKey, version |-> Nil, age |-> 0]

\* A connector is new, or was there before runs had owners.
NotionInit ==
  /\ inherited \in BOOLEAN
  /\ connector \in [auth : {"pending", "authenticated"}, sources : SUBSET Sources,
                    current : {Nil}]
  /\ policy \in [enabled : BOOLEAN, status : {"applied", "syncing"}, success : {Never}]
  /\ IF inherited THEN policy.status = "syncing"
     ELSE /\ policy.status = "applied" /\ policy.enabled
          /\ connector.auth = "pending" /\ connector.sources = {}
  /\ exec = [selection |-> 0, authorization |-> 0, epoch |-> 0, legacy |-> FALSE, run |-> NoRun]
  /\ snapshot = [v \in Versions |-> Nil]
  /\ keys = {} /\ tx = NoTx /\ changes = 0

-----------------------------------------------------------------------------
(* The user's writes.                                                      *)

\* executionState: a scan without an owner is remembered from the first reading on.
ReadMutant == exec
Read == [exec EXCEPT !.legacy = @ \/ (exec.run = NoRun /\ policy.status = "syncing")]

\* invalidateContext, for the selection or for the authorization.
Invalidated(s, a) ==
  [Read EXCEPT !.selection = @ + s, !.authorization = @ + a,
               !.run.status = IF @ = "running" THEN "invalidated" ELSE @]

Settled(p) == [p EXCEPT !.status = IF p.enabled THEN "applied" ELSE "disabled"]

\* patchPolicy; the revision a writer names is the current one.
Ruled(rule) ==
  CASE rule = "keep" -> policy
    [] rule = "off"  -> [policy EXCEPT !.enabled = FALSE, !.status = "disabled"]
    [] rule = "on"   -> [policy EXCEPT !.enabled = TRUE,
                           !.status = IF exec.run.status = "running" THEN "syncing" ELSE "applied"]

\* transitionPolicy: what a run does to the policy as it is now, not as it was claimed.
Transition(event) ==
  [policy EXCEPT !.status = CASE event = "started" -> "syncing"
                              [] event # "started" /\ ~ policy.enabled -> "disabled"
                              [] event = "failed" /\ policy.enabled -> "error"
                              [] event = "succeeded" /\ policy.enabled -> "applied"]

\* patch; an authorization that is saved counts as another one, whatever it says.
Patch(rule, auth, saved) ==
  LET moves == saved \/ auth # connector.auth
  IN  /\ tx = NoTx
      /\ moves => changes < MaxChanges
      /\ connector' = [connector EXCEPT !.auth = auth]
      /\ policy' = IF moves THEN Settled(Ruled(rule)) ELSE Ruled(rule)
      /\ exec' = IF moves THEN Invalidated(0, 1) ELSE Read
      /\ changes' = IF moves THEN changes + 1 ELSE changes
      /\ UNCHANGED <<snapshot, keys, tx, inherited>>

\* Without sources there is nothing the last snapshot could be of.
ChangeScope(new) ==
  /\ tx = NoTx /\ changes < MaxChanges
  /\ connector' = [connector EXCEPT !.sources = new,
                                    !.current = IF new = {} THEN Nil ELSE @]
  /\ policy' = [Settled(policy) EXCEPT !.success = IF new = {} THEN Never ELSE @]
  /\ exec' = Invalidated(1, 0)
  /\ changes' = changes + 1
  /\ UNCHANGED <<snapshot, keys, tx, inherited>>

ReplaceResources == \E new \in SUBSET Sources : ChangeScope(new)
DeleteResource   == \E r \in connector.sources : ChangeScope(connector.sources \ {r})

-----------------------------------------------------------------------------
(* The operations of a run: first what is decided under the lock.          *)

Usable == connector.auth = "authenticated" /\ connector.sources # {}
Due    == policy.success \in {Never, Interval}

HasOwnerMutant == exec.run.status = "running"            \* however long ago it was claimed
HasOwner == exec.run.status = "running" /\ exec.run.lease > 0

\* claim, by the schedule or by a user's request, who need not wait.
BeginClaim(w, manual) ==
  /\ tx = NoTx /\ exec.epoch < MaxRuns
  /\ Usable /\ ~ Read.legacy /\ ~ HasOwner
  /\ manual \/ (policy.enabled /\ Due)
  /\ tx' = [NoTx EXCEPT !.op = "claim", !.worker = w]
  /\ UNCHANGED <<connector, exec, policy, snapshot, keys, changes, inherited>>

Matches(k) ==
  LET run == exec.run
  IN  /\ run.epoch = k.epoch /\ run.worker = k.worker
      /\ run.selection = exec.selection /\ run.authorization = exec.authorization
      /\ Usable
      /\ run.status = "running" /\ run.lease > 0

BeginCall(k, op, v) ==
  /\ tx = NoTx /\ Matches(k)
  /\ tx' = [op |-> op, worker |-> k.worker, key |-> k, version |-> v, age |-> 0]
  /\ UNCHANGED <<connector, exec, policy, snapshot, keys, changes, inherited>>

BeginRenew(k) == BeginCall(k, "renew", Nil)

\* A snapshot has a new version and is of the sources that are selected.
BeginSuccess(k, v) ==
  /\ snapshot[v] = Nil /\ k.scope = connector.sources
  /\ BeginCall(k, "succeeded", v)

BeginFailure(k) == BeginCall(k, "failed", Nil)      \* or cancelled

-----------------------------------------------------------------------------
(* Then what is written, if the lease still runs (assertLeaseBeforeCommit). *)

NewLease == SyncLease - tx.age                         \* a lease given with the first clock
InTimeMutant == TRUE
InTime == exec.run.lease > 0                          \* the lease there is

\* The answer may be lost with the process that asked.
CommitClaim(heard) ==
  LET epoch == exec.epoch + 1
  IN  /\ tx.op = "claim" /\ NewLease > 0
      /\ exec' = [Read EXCEPT !.epoch = epoch,
                    !.run = [epoch |-> epoch, worker |-> tx.worker,
                             selection |-> exec.selection, authorization |-> exec.authorization,
                             lease |-> NewLease, status |-> "running"]]
      /\ policy' = Transition("started")
      /\ keys' = IF heard
                 THEN keys \cup {[epoch |-> epoch, worker |-> tx.worker,
                                  scope |-> connector.sources, seen |-> changes]}
                 ELSE keys
      /\ tx' = NoTx
      /\ UNCHANGED <<connector, snapshot, changes, inherited>>

CommitRenew ==
  /\ tx.op = "renew" /\ NewLease > 0
  /\ exec' = [Read EXCEPT !.run.lease = NewLease]
  /\ tx' = NoTx
  /\ UNCHANGED <<connector, policy, snapshot, keys, changes, inherited>>

CommitSuccess ==
  /\ tx.op = "succeeded" /\ InTime
  /\ snapshot' = [snapshot EXCEPT ![tx.version] = [scope |-> tx.key.scope, seen |-> tx.key.seen]]
  /\ connector' = [connector EXCEPT !.current = tx.version, !.auth = "authenticated"]
  /\ exec' = [Read EXCEPT !.run.status = "succeeded"]
  /\ policy' = [Transition("succeeded") EXCEPT
                 !.success = IF tx.age < Interval THEN tx.age ELSE Interval]
  /\ tx' = NoTx
  /\ UNCHANGED <<keys, changes, inherited>>

CommitFailure ==
  /\ tx.op = "failed" /\ InTime
  /\ exec' = [Read EXCEPT !.run.status = "failed"]
  /\ policy' = Transition("failed")
  /\ tx' = NoTx
  /\ UNCHANGED <<connector, snapshot, keys, changes, inherited>>

\* The lease is over, the actor is not active any more, the database fails.
Abort ==
  /\ tx # NoTx /\ tx' = NoTx
  /\ UNCHANGED <<connector, exec, policy, snapshot, keys, changes, inherited>>

-----------------------------------------------------------------------------
(* Around the program: a process of Dream ends, time passes.               *)

Crash(w) ==
  /\ \E k \in keys : k.worker = w
  /\ keys' = {k \in keys : k.worker # w}
  /\ UNCHANGED <<connector, exec, policy, snapshot, tx, changes, inherited>>

Tick ==
  /\ exec' = [exec EXCEPT !.run.lease = IF @ > 0 THEN @ - 1 ELSE 0]
  /\ policy' = [policy EXCEPT !.success = IF @ \in {Never, Interval} THEN @ ELSE @ + 1]
  /\ tx' = [tx EXCEPT !.age = IF tx = NoTx \/ @ = SyncLease THEN @ ELSE @ + 1]
  /\ UNCHANGED <<connector, snapshot, keys, changes, inherited>>

NotionNext ==
  \/ \E rule \in {"keep", "on", "off"}, auth \in {"pending", "authenticated"}, saved \in BOOLEAN :
       Patch(rule, auth, saved)
  \/ ReplaceResources
  \/ DeleteResource
  \/ \E w \in Workers, manual \in BOOLEAN : BeginClaim(w, manual)
  \/ \E k \in keys : BeginRenew(k) \/ BeginFailure(k) \/ \E v \in Versions : BeginSuccess(k, v)
  \/ \E heard \in BOOLEAN : CommitClaim(heard)
  \/ CommitRenew
  \/ CommitSuccess
  \/ CommitFailure
  \/ Abort
  \/ \E w \in Workers : Crash(w)
  \/ Tick

NotionSpec == NotionInit /\ [][NotionNext]_notionVars

(* Time passes, a transaction ends, and some worker polls; a claim that is *)
(* tried again and again is not always slower than the lease it gives.     *)
(* Nothing is asked of a worker that has a run.                            *)
NotionFairness ==
  /\ WF_notionVars(Tick) /\ WF_notionVars(Abort)
  /\ WF_notionVars(\E w \in Workers : BeginClaim(w, FALSE))
  /\ SF_notionVars(\E heard \in BOOLEAN : CommitClaim(heard))

-----------------------------------------------------------------------------
(* What the policy shows of a run is so: a user who has not switched the   *)
(* rule off sees a run while one is going on, and never sees one that is   *)
(* not, across claims, invalidations and changes of the rule.  A run that  *)
(* is going on is of the present selection and authorization.  And a scan  *)
(* of an older program is never replaced, whatever is saved meanwhile.     *)
PolicyTellsRun ==
  /\ policy.status = "syncing" => exec.run.status = "running" \/ (inherited /\ exec.run = NoRun)
  /\ exec.run.status = "running" /\ policy.enabled => policy.status = "syncing"
  /\ policy.status \in {"applied", "error"} => policy.enabled
  /\ exec.run.status = "running" =>
       /\ Usable
       /\ exec.run.selection = exec.selection /\ exec.run.authorization = exec.authorization
  /\ inherited => exec.run = NoRun

(* The snapshot the connector points to has been stored, is there exactly  *)
(* when a success is on record, goes with the last source, and is of the   *)
(* sources selected now unless they were changed after its run was claimed. *)
LastGoodIsSound ==
  /\ (connector.current # Nil) <=> (policy.success # Never)
  /\ connector.current # Nil =>
       /\ connector.sources # {}
       /\ snapshot[connector.current] # Nil
       /\ snapshot[connector.current].seen = changes =>
            snapshot[connector.current].scope = connector.sources

NotionIsSound == PolicyTellsRun /\ LastGoodIsSound

(* A call of a run that changes anything is of the last run claimed, which *)
(* nothing has ended, with nothing written to the selection and the        *)
(* authorization since it was claimed, not even back and forth; it ends    *)
(* the run before the lease is over, and a failure leaves the last         *)
(* snapshot alone.                                                         *)
Fenced ==
  tx.op \in {"renew", "succeeded", "failed"} /\ tx' = NoTx /\ exec' # exec =>
    /\ tx.key.epoch = exec.epoch /\ exec.run.status = "running"
    /\ \A k \in keys : k.epoch <= tx.key.epoch
    /\ tx.key.seen = changes
    /\ tx.op # "renew" => exec.run.lease > 0
    /\ tx.op = "failed" => <<connector', snapshot'>> = <<connector, snapshot>>

LateRunsAreFenced == [][Fenced]_notionVars

Abandoned(e) ==
  /\ exec.run.epoch = e /\ exec.run.status = "running"
  /\ \A k \in keys : k.epoch # e

(* A run whose worker is gone is replaced, invalidated or ended, unless    *)
(* the user has switched the rule off.                                     *)
AbandonedIsReplaced ==
  \A e \in 1 .. MaxRuns - 1 :
    Abandoned(e) /\ policy.enabled ~>
      ~ (exec.run.epoch = e /\ exec.run.status = "running") \/ ~ policy.enabled
=============================================================================
