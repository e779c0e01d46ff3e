-------------------------- MODULE MCAdministration --------------------------
(* What administrators and Dream do to shared resources, one kind at a     *)
(* time: the accounts of the model providers, or a package of plugins,     *)
(* seen from its marketplace or from the decks.  They share no row.        *)
EXTENDS ProviderCredentials, ClaudePlugins, TLC

CONSTANTS c1, c2, c3, g1, g2, pinned, s1, s2, o1, o2

VARIABLE part  \* which of them moves

\* Requests are interchangeable.
Symmetry == Permutations(Procs)

MCDigestOf == [c \in Commits |-> IF c = c2 THEN g2 ELSE g1]

adminVars == <<part, vars, pluginVars>>

\* Two commits that were recorded, the one of g1 approved.
Offering ==
  /\ market = "active"
  /\ syncRun  = [s \in Syncs |-> "none"]
  /\ syncStep = [s \in Syncs |-> "idle"]
  /\ fetched  = [s \in Syncs |-> Nil]
  /\ revisions = {c1, c2} /\ approval = c1
  /\ operation    = [o \in Operations |-> NoOperation]
  /\ installation = [g \in Digests |-> NoInstallation]
  /\ refs    = [d \in Decks |-> [g \in Digests |-> "none"]]
  /\ copying = [d \in Decks |-> NoCopy]

\* The accounts of the providers as they start when they are not what moves.
Connected == \A p \in Providers : provider[p].credential # None

AdminInit ==
  /\ Init
  /\ \/ part = "credentials" /\ PluginsInit
     \/ part = "marketplace" /\ Connected /\ PluginsInit
     \/ part = "decks" /\ Connected /\ Offering

\* The requests and the ids of operations are used in one order, and one revocation is
\* tried again after it failed.
InOrder ==
  /\ \A k, q \in DOMAIN jobs : jobs[k].revision > 3 /\ jobs[q].revision > 3 => k = q
  /\ syncStep[s2] # "idle" => syncStep[s1] # "idle"
  /\ operation[o2].status # "none" => operation[o1].status # "none"

\* Without decks and with one spelling; and with decks and both, but a marketplace that
\* stays as it is.
MarketplacePart ==
  /\ MarketNext \/ InstallNext
  /\ refs' = refs /\ \A o \in Operations : operation'[o].spec # pinned
DecksPart       == InstallNext \/ DeckNext

AdminNext ==
  /\ \/ part = "credentials" /\ Next /\ UNCHANGED pluginVars
     \/ part = "marketplace" /\ MarketplacePart /\ UNCHANGED vars
     \/ part = "decks" /\ DecksPart /\ UNCHANGED vars
  /\ UNCHANGED part

AdminSpec == AdminInit /\ [][AdminNext]_adminVars
=============================================================================
