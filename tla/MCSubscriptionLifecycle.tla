---------------------- MODULE MCSubscriptionLifecycle ----------------------
(* Small instances of SubscriptionLifecycle for TLC.                       *)
EXTENDS SubscriptionLifecycle, TLC

CONSTANTS u1, u2, s1, s2, k1, k2, k3, free, paid, w1, w2

NoneScheduled == << >>
OneScheduled  == s1 :> u1

\* Rows and keys are interchangeable: the order of the ids is left open.
Symmetry == Permutations(Subs) \cup Permutations(Keys) \cup Permutations(Users)
=============================================================================
