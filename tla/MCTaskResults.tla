--------------------------- MODULE MCTaskResults ---------------------------
(* Small instances of TaskResults for TLC.                                 *)
EXTENDS TaskResults, TLC

CONSTANTS n1, n2, n3, n4, a, b, c, s1, s2, q1, q2, i1, i2, g1, g2

MCRank == [n \in Notices |-> CASE n = n1 -> 1 [] n = n2 -> 2 [] n = n3 -> 3 [] n = n4 -> 4]

\* Every other result belongs to the second thread, where there is one.
OneSource  == [n \in Notices |-> s1]
TwoSources == [n \in Notices |-> IF n \in {n1, n3} THEN s1 ELSE s2]

InputOfEach == [i \in Inputs |-> IF i = i1 THEN s1 ELSE s2]

\* A request that is sent twice, and a claim of a certain result.
Repeated == [k \in Calls |-> IF k = c THEN Nil ELSE q1]
Distinct == [k \in Calls |-> IF k = a THEN q1 ELSE q2]

\* The grants of a claim, and the calls of the request that is repeated.
Alike == Permutations(Grants) \cup Permutations(Calls \ {c})
=============================================================================
