---------------------------- MODULE TokenAccount ----------------------------
(***************************************************************************)
(* What the accounting of the gateway promises, without its processes,     *)
(* locks, failures and recoveries: an account in periods, from which a     *)
(* request holds Tokens once, is charged once, from the period it held     *)
(* them in, and never for more than that period has left.                  *)
(* GatewayAccounting implements it.                                        *)
(***************************************************************************)
EXTENDS Integers, FiniteSets

CONSTANTS
  Requests,  \* whoever may be charged
  Periods    \* the accounting periods, each with Tokens of its own

VARIABLES
  granted,   \* the Tokens of each period
  entry      \* what each request has to do with them

account == <<granted, entry>>

NoEntry == [state |-> "none"]
Refused == [state |-> "refused"]
Entries == {NoEntry, Refused} \cup
           [state : {"held", "paid"}, period : Periods, tokens : Nat]

\* The requests in state s on period a, and their Tokens, one element for each.
Those(s, a)  == {r \in Requests : entry[r].state = s /\ entry[r].period = a}
Tokens(s, a) == UNION {{r} \X (1 .. entry[r].tokens) : r \in Those(s, a)}

Free(a) == granted[a] - Cardinality(Tokens("held", a)) - Cardinality(Tokens("paid", a))

Init ==
  /\ granted \in [Periods -> Nat]
  /\ entry = [r \in Requests |-> NoEntry]

Becomes(r, e) == entry' = [entry EXCEPT ![r] = e] /\ UNCHANGED granted

\* A request holds Tokens that nobody else holds or has consumed.
Hold(r) ==
  LET e == entry'[r]
  IN  /\ entry[r].state = "none" /\ e.state = "held" /\ e \in Entries
      /\ e.tokens <= Free(e.period)
      /\ Becomes(r, e)

Refuse(r) ==
  /\ entry[r].state = "none"
  /\ entry' = [entry EXCEPT ![r] = Refused] /\ UNCHANGED granted

\* It is charged; what it held and is not charged for is free again.
Charge(r) ==
  LET e == entry'[r]
  IN  /\ entry[r].state = "held" /\ e.state = "paid" /\ e \in Entries
      /\ e.period = entry[r].period
      /\ e.tokens <= Free(e.period) + entry[r].tokens
      /\ Becomes(r, e)

\* Periods get Tokens, and never lose any.
Grant ==
  /\ granted' \in [Periods -> Nat]
  /\ \A a \in Periods : granted'[a] >= granted[a]
  /\ UNCHANGED entry

Next == Grant \/ \E r \in Requests : Hold(r) \/ Refuse(r) \/ Charge(r)

Spec == Init /\ [][Next]_account
=============================================================================
