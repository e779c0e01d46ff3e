---------------------- MODULE MCSubscriptionPayments -----------------------
(* Small instances of SubscriptionPayments for TLC.                        *)
EXTENDS SubscriptionPayments, TLC

CONSTANTS MaxReports, u1, s1, s2, k1, i1, i2, free, paid, w1

NoneScheduled == << >>

\* The reports of the provider and the commands there may be, together.
FewReports == Cardinality(sent) + Cardinality(requests) <= MaxReports

Symmetry == Permutations(Subs) \cup Permutations(Intents)
=============================================================================
