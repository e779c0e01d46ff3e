---------------------------- MODULE ClaudePlugins ----------------------------
(***************************************************************************)
(* One package of plugins for Claude: the remote marketplace that offers   *)
(* it and its synchronisations (admin/claude-plugin-marketplaces.ts), the  *)
(* operations by which Dream installs it (claudePluginDataService.ts) and  *)
(* the references of decks to its installations, which decks copy from     *)
(* each other (deckRuntimeDataRepository.ts, deckVoiceRepository.ts).      *)
(*                                                                         *)
(* Everything is one transaction, with locks on the rows it decides by,    *)
(* except two: a synchronisation has one transaction before it fetches the *)
(* repository and one after, and a third when it fails; and a deck that is *)
(* copied reads the references of its source without locking what they     *)
(* refer to.  Two packages, and two marketplaces, share no row.  A version *)
(* of the package is its digest.  A repeated call of Dream is answered by  *)
(* its receipt and is no action; neither is a refused one.                 *)
(***************************************************************************)
EXTENDS Naturals, FiniteSets

CONSTANTS
  Commits,       \* of the remote repository
  SoundCommits,  \* those whose manifest and whose entry pass the inspection
  Digests,       \* versions of the package: plugin_digest, artifact_digest
  DigestOf,      \* [Commits -> Digests]
  Syncs,         \* requests of an administrator to synchronise
  Operations,    \* ids of claude_plugin_operations
  Specs,         \* spellings of the package: with its version and without
  Decks,
  Nil

ASSUME PluginsAssumption ==
  /\ SoundCommits \subseteq Commits
  /\ DigestOf \in [Commits -> Digests]
  /\ Nil \notin Commits \cup Digests \cup Decks
  /\ {"absent", "blocked"} \cap Commits = {}

VARIABLES
  market,        \* claude_plugin_marketplaces.status
  syncRun,       \* claude_plugin_marketplace_sync_runs.status
  syncStep,      \* where the handler of the request is
  fetched,       \* the commit it has checked out
  revisions,     \* claude_plugin_marketplace_revisions: the commits recorded
  approval,      \* the policy of the package: absent, blocked, or the entry approved
  operation,     \* claude_plugin_operations
  installation,  \* claude_plugin_installations, by artifact_digest
  refs,          \* deck_claude_plugin_refs, by deck and digest
  copying        \* the copy into a deck that is in progress

marketVars == <<market, syncRun, syncStep, fetched, revisions, approval>>
deckVars   == <<refs, copying>>
pluginVars == <<marketVars, operation, installation, deckVars>>

NoOperation    == [status |-> "none", entry |-> Nil, spec |-> Nil, digest |-> Nil]
NoInstallation == [status |-> "none", lineage |-> Nil, spec |-> Nil, source |-> Nil]
NoCopy         == [from |-> Nil, read |-> [g \in Digests |-> "none"]]

PluginsInit ==
  /\ market = "pending"
  /\ syncRun  = [s \in Syncs |-> "none"]
  /\ syncStep = [s \in Syncs |-> "idle"]
  /\ fetched  = [s \in Syncs |-> Nil]
  /\ revisions = {} /\ approval = "absent"
  /\ operation    = [o \in Operations |-> NoOperation]
  /\ installation = [g \in Digests |-> NoInstallation]
  /\ refs    = [d \in Decks |-> [g \in Digests |-> "none"]]
  /\ copying = [d \in Decks |-> NoCopy]

-----------------------------------------------------------------------------
\* The marketplace.

\* No synchronisation takes a marketplace out of "disabled".
StatusAfter(status) == IF market = "disabled" THEN market ELSE status

\* One run at a time: the row of the marketplace is locked, and an index says so too.
RequestSync(s) ==
  /\ syncStep[s] = "idle"
  /\ \A r \in Syncs : syncRun[r] # "running"
  /\ syncRun'  = [syncRun EXCEPT ![s] = "running"]
  /\ syncStep' = [syncStep EXCEPT ![s] = "fetch"]
  /\ UNCHANGED <<market, fetched, revisions, approval, operation, installation, deckVars>>

\* Git answers with any commit the reference names by now.
Fetch(s, c) ==
  /\ syncStep[s] = "fetch"
  /\ fetched'  = [fetched EXCEPT ![s] = c]
  /\ syncStep' = [syncStep EXCEPT ![s] = "write"]
  /\ UNCHANGED <<market, syncRun, revisions, approval, operation, installation, deckVars>>

\* The repository cannot be had, or what comes next is rolled back.
FetchFails(s) ==
  /\ syncStep[s] \in {"fetch", "write"}
  /\ syncStep' = [syncStep EXCEPT ![s] = "mark"]
  /\ UNCHANGED <<market, syncRun, fetched, revisions, approval, operation, installation,
                 deckVars>>

\* A commit met before keeps its revision and entries; a new one is recorded, sound or
\* not, and a package met first is blocked.  When the answer to the COMMIT is lost
\* (told = FALSE) the handler takes it for a failure.
RecordRevision(s, told) ==
  LET c == fetched[s]
      sound == c \in SoundCommits
  IN  /\ syncStep[s] = "write"
      /\ revisions' = revisions \cup {c}
      /\ approval'  = IF approval = "absent" THEN "blocked" ELSE approval
      /\ syncRun'   = [syncRun EXCEPT ![s] = IF @ # "running" THEN @
                                             ELSE IF sound THEN "succeeded" ELSE "failed"]
      /\ market'    = StatusAfter(IF sound THEN "active" ELSE "error")
      /\ syncStep'  = [syncStep EXCEPT ![s] = IF told THEN "answered" ELSE "mark"]
      /\ UNCHANGED <<fetched, operation, installation, deckVars>>

\* The run is marked only if it still runs, the marketplace in any case.
EndedByFailure(s) == IF syncRun[s] = "running" THEN "failed" ELSE syncRun[s]

MarkSyncFailure(s) ==
  /\ syncStep[s] = "mark"
  /\ syncRun'  = [syncRun EXCEPT ![s] = EndedByFailure(s)]
  /\ market'   = StatusAfter("error")
  /\ syncStep' = [syncStep EXCEPT ![s] = "answered"]
  /\ UNCHANGED <<fetched, revisions, approval, operation, installation, deckVars>>

\* The process stops, or the transaction that marks the failure fails as well, which
\* the handler does not tell from a success.  Nothing ends the run afterwards.
StopSync(s) ==
  /\ syncStep[s] \in {"fetch", "write", "mark"}
  /\ syncStep' = [syncStep EXCEPT ![s] = "stopped"]
  /\ UNCHANGED <<market, syncRun, fetched, revisions, approval, operation, installation,
                 deckVars>>

UpdateMarketplace(status) ==
  /\ market' = status
  /\ UNCHANGED <<syncRun, syncStep, fetched, revisions, approval, operation, installation,
                 deckVars>>

Approvable(c) == c \in revisions \cap SoundCommits

DecidePolicy(decision) ==
  /\ approval # "absent"
  /\ decision = "blocked" \/ Approvable(decision)
  /\ approval' = decision
  /\ UNCHANGED <<market, syncRun, syncStep, fetched, revisions, operation, installation,
                 deckVars>>

-----------------------------------------------------------------------------
\* The installations.

\* What a plan of installation is made of, and what is read again when it is completed.
Offered(c) == approval = c /\ Approvable(c) /\ market = "active"

NewOperation(o, entry, spec) ==
  /\ operation[o].status = "none"
  /\ operation' = [operation EXCEPT ![o] = [status |-> "queued", entry |-> entry,
                                            spec |-> spec, digest |-> Nil]]

PrepareInstall(o, entry, spec) ==
  /\ entry # Nil => Offered(entry)
  /\ NewOperation(o, entry, spec)
  /\ UNCHANGED <<marketVars, installation, deckVars>>

BeginInstall(o) ==
  /\ operation[o].status = "queued"
  /\ operation' = [operation EXCEPT ![o].status = "running"]
  /\ UNCHANGED <<marketVars, installation, deckVars>>

\* Phases and their progress are left out, and the reasons of a failure: a failed
\* operation may be failed again for another reason.
FailInstall(o) ==
  /\ operation[o].status \in {"queued", "running"}
  /\ operation' = [operation EXCEPT ![o].status = "error"]
  /\ UNCHANGED <<marketVars, installation, deckVars>>

\* The approval of the plan is trusted when the installation is reported.
EvidenceHoldsMutant(o, g, source) ==
  operation[o].entry # Nil => source = "marketplace" /\ DigestOf[operation[o].entry] = g

\* Evidence of a plan from the marketplace must be what is approved now.
EvidenceHolds(o, g, source) ==
  LET entry == operation[o].entry
  IN  entry # Nil => Offered(entry) /\ source = "marketplace" /\ DigestOf[entry] = g

\* A ready installation keeps everything but a lineage it lacks; one that was
\* uninstalled is revived by what the operation brings, with its first lineage.
Installed(o, g, source) ==
  LET row == installation[g]
      lineage == IF row.lineage = Nil THEN operation[o].entry ELSE row.lineage
  IN  IF row.status = "ready" THEN [row EXCEPT !.lineage = lineage]
      ELSE [status |-> "ready", lineage |-> lineage, spec |-> operation[o].spec,
            source |-> source]

CompleteInstall(o, g, source) ==
  /\ operation[o].status = "running"
  /\ EvidenceHolds(o, g, source)
  /\ operation' = [operation EXCEPT ![o].status = "ready", ![o].digest = g]
  /\ installation' = [installation EXCEPT ![g] = Installed(o, g, source)]

ReportComplete(o, g, source) ==
  /\ CompleteInstall(o, g, source)
  /\ UNCHANGED <<marketVars, deckVars>>

\* A copy holds the rows of its source and its target, which whoever inserts a
\* reference waits for.
Copying(d) == \E e \in Decks : copying[e].from # Nil /\ d \in {e, copying[e].from}

\* The references of the decks whose releases declare the package: what is there stays
\* as it is, enabled or not.
Reconciled(g, declaring) ==
  [d \in Decks |-> IF d \in declaring /\ refs[d][g] = "none"
                   THEN [refs[d] EXCEPT ![g] = "on"] ELSE refs[d]]

\* The service reports the completion of what ships with the platform.
ReportBuiltin(o, g, declaring) ==
  /\ CompleteInstall(o, g, "platform-builtin")
  /\ \A d \in declaring : ~ Copying(d)
  /\ refs' = Reconciled(g, declaring)
  /\ UNCHANGED <<marketVars, copying>>

ReadyBuiltin(spec) ==
  {g \in Digests : /\ installation[g].status = "ready"
                   /\ installation[g].spec = spec
                   /\ installation[g].source = "platform-builtin"}

EnsureReady(spec, g, declaring) ==
  /\ g \in ReadyBuiltin(spec)
  /\ \A d \in declaring : ~ Copying(d)
  /\ refs' = Reconciled(g, declaring)
  /\ UNCHANGED <<marketVars, operation, installation, copying>>

EnsurePlans(o, spec) ==
  /\ ReadyBuiltin(spec) = {}
  /\ NewOperation(o, Nil, spec)
  /\ UNCHANGED <<marketVars, installation, deckVars>>

\* The references are left to the decks.
DisabledMutant(g) == refs

\* Disabled for every deck that has it; uninstalled again, nothing happens.
Disabled(g) ==
  [d \in Decks |-> [refs[d] EXCEPT ![g] = IF @ = "none" THEN @ ELSE "off"]]

Uninstall(g) ==
  /\ installation[g].status = "ready"
  /\ installation' = [installation EXCEPT ![g].status = "uninstalled"]
  /\ refs' = Disabled(g)
  /\ UNCHANGED <<marketVars, operation, copying>>

-----------------------------------------------------------------------------
\* The references of decks.  A deck without any stands for one that is to be made.

Ready(g) == installation[g].status = "ready"

\* The owner sets all references of a deck, under a lock on what they refer to.
ReplaceRefs(d, chosen) ==
  /\ ~ Copying(d)
  /\ \A g \in Digests : chosen[g] # "none" => Ready(g)
  /\ refs' = [refs EXCEPT ![d] = chosen]
  /\ UNCHANGED <<marketVars, operation, installation, copying>>

\* The default plugin of a new deck and the plugins of a template, under the same lock.
EnableRef(d, g) ==
  /\ ~ Copying(d) /\ Ready(g)
  /\ refs' = [refs EXCEPT ![d][g] = "on"]
  /\ UNCHANGED <<marketVars, operation, installation, copying>>

\* A fork, the repair of an empty deck or the synchronisation of an untouched copy
\* reads what its target lacks.
BeginCopy(from, to) ==
  /\ from # to /\ ~ Copying(from) /\ ~ Copying(to)
  /\ copying' = [copying EXCEPT ![to] =
       [from |-> from,
        read |-> [g \in Digests |-> IF refs[to][g] = "none" THEN refs[from][g] ELSE "none"]]]
  /\ UNCHANGED <<marketVars, operation, installation, refs>>

\* It inserts what it read.  "copied" is an enabled reference that came this way: the
\* table does not tell it from any other.
Copied(d) ==
  [g \in Digests |-> CASE copying[d].read[g] = "none" -> refs[d][g]
                       [] copying[d].read[g] = "off"  -> "off"
                       [] OTHER -> "copied"]

EndCopy(d) ==
  /\ copying[d].from # Nil
  /\ refs' = [refs EXCEPT ![d] = Copied(d)]
  /\ copying' = [copying EXCEPT ![d] = NoCopy]
  /\ UNCHANGED <<marketVars, operation, installation>>

-----------------------------------------------------------------------------

Sources == {"marketplace", "platform-builtin"}

MarketNext ==
  \/ \E s \in Syncs :
       \/ RequestSync(s) \/ FetchFails(s) \/ MarkSyncFailure(s) \/ StopSync(s)
       \/ \E c \in Commits : Fetch(s, c)
       \/ \E told \in BOOLEAN : RecordRevision(s, told)
  \/ \E status \in {"pending", "active", "disabled"} : UpdateMarketplace(status)
  \/ \E decision \in Commits \cup {"blocked"} : DecidePolicy(decision)

InstallNext ==
  \/ \E o \in Operations :
       \/ BeginInstall(o) \/ FailInstall(o)
       \/ \E entry \in Commits \cup {Nil}, spec \in Specs : PrepareInstall(o, entry, spec)
       \/ \E g \in Digests, source \in Sources : ReportComplete(o, g, source)
       \/ \E g \in Digests, declaring \in SUBSET Decks : ReportBuiltin(o, g, declaring)
       \/ \E spec \in Specs : EnsurePlans(o, spec)
  \/ \E spec \in Specs, g \in Digests, declaring \in SUBSET Decks :
       EnsureReady(spec, g, declaring)
  \/ \E g \in Digests : Uninstall(g)

DeckNext ==
  \E d \in Decks :
    \/ \E chosen \in [Digests -> {"none", "off", "on"}] : ReplaceRefs(d, chosen)
    \/ \E g \in Digests : EnableRef(d, g)
    \/ \E e \in Decks : BeginCopy(d, e)
    \/ EndCopy(d)

PluginsNext == MarketNext \/ InstallNext \/ DeckNext
PluginsSpec == PluginsInit /\ [][PluginsNext]_pluginVars

-----------------------------------------------------------------------------

Enabled(d, g) == refs[d][g] \in {"on", "copied"}

\* A run that runs has a handler at work, unless that stopped, and is the only one; one
\* that succeeded recorded a sound commit; only what is recorded and sound is approved.
MarketplaceTellsSyncs ==
  /\ \A s \in Syncs :
       syncRun[s] = "running" => syncStep[s] \in {"fetch", "write", "mark", "stopped"}
  /\ \A r, s \in Syncs : syncRun[r] = "running" /\ syncRun[s] = "running" => r = s
  /\ \A s \in Syncs : syncRun[s] = "succeeded" => fetched[s] \in revisions \cap SoundCommits
  /\ approval = "absent" <=> revisions = {}
  /\ approval \in Commits => approval \in revisions \cap SoundCommits

\* Whatever was approved, revoked, uninstalled and revived: the lineage of an
\* installation is a sound recorded entry of just its digest, and an operation that is
\* ready names an installation that is that of its plan.
InstallationsTellPlans ==
  /\ \A g \in Digests : LET c == installation[g].lineage
                        IN  c # Nil => c \in revisions \cap SoundCommits /\ DigestOf[c] = g
  /\ \A o \in Operations :
       operation[o].status = "ready" =>
         /\ installation[operation[o].digest].status # "none"
         /\ operation[o].entry # Nil => DigestOf[operation[o].entry] = operation[o].digest

\* A deck refers to nothing that was never installed, and has enabled only what is
\* ready, unless it copied the reference.
RefsFollowInstallations ==
  \A d \in Decks, g \in Digests :
    /\ refs[d][g] # "none" => installation[g].status # "none"
    /\ refs[d][g] = "on" => Ready(g)

\* The rows of marketplaces, of installations and of references agree.
PluginsAreSound ==
  MarketplaceTellsSyncs /\ InstallationsTellPlans /\ RefsFollowInstallations

\* An approval that is revoked, or a marketplace that is disabled or fails, while Dream
\* installs is respected to the end: an operation planned from an entry becomes ready
\* only while that entry is offered.
RevokedIsNotInstalled ==
  \A o \in Operations :
    LET entry == operation[o].entry
    IN  operation[o].status # "ready" /\ operation'[o].status = "ready" /\ entry # Nil
          => Offered(entry)

\* What has ended stays ended, whoever reports again: operations, and runs.
EndedStaysEnded ==
  /\ \A o \in Operations :
       operation[o].status \in {"ready", "error"} => operation'[o] = operation[o]
  /\ \A s \in Syncs :
       syncRun[s] \in {"succeeded", "failed"} => syncRun'[s] = syncRun[s]

\* No synchronisation enables a marketplace that its administrator disabled, and no
\* installation, the revival of what was uninstalled included, a reference that was
\* disabled: only something done to the deck itself, while the plugin is ready.
DisabledStaysDisabled ==
  /\ market = "disabled" /\ syncStep' # syncStep => market' = "disabled"
  /\ \A d \in Decks, g \in Digests :
       refs[d][g] = "off" /\ refs'[d][g] = "on" =>
         Ready(g) /\ operation' = operation /\ installation' = installation

PluginStepsAreSafe ==
  [][RevokedIsNotInstalled /\ EndedStaysEnded /\ DisabledStaysDisabled]_pluginVars

\* What the plan of the operations says of an uninstallation, and does not hold: that
\* no deck is left with an enabled reference to it.
UninstalledIsDisabled ==
  \A d \in Decks, g \in Digests : Enabled(d, g) => Ready(g)
=============================================================================
