------------------------ MODULE MCScheduledTriggers ------------------------
(* Small instances of ScheduledTriggers for TLC.                           *)
EXTENDS ScheduledTriggers, TLC

CONSTANTS t1, t2, g1, g2, x1, x2, thread

\* All tasks start from the same Chat thread, which is where they can meet.
OneThread == [t \in Tasks |-> thread]

\* Tasks, triggers and turns are interchangeable.
Symmetry == Permutations(Tasks) \cup Permutations(Triggers) \cup Permutations(Turns)
=============================================================================
