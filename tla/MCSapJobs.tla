------------------------------ MODULE MCSapJobs ------------------------------
(* Small instances of SapJobs for TLC.                                     *)
EXTENDS SapJobs, TLC

CONSTANTS i1, i2, i3

\* Two batches: the first with two items, the second with one.
TwoBatches == [i \in {i1, i2, i3} |-> IF i = i3 THEN 2 ELSE 1]
OneBatch == [i \in {i1, i2} |-> 1]
OneEach == [i \in {i1, i2} |-> IF i = i1 THEN 1 ELSE 2]

\* Each fault may happen as often as f says, the others never.
Faulty(f) == [x \in Faults |-> IF x \in DOMAIN f THEN f[x] ELSE 0]

NoFaults == {Faulty(<<>>)}
CrashAndLoss == {Faulty([crash |-> 1, conn |-> 1])}
Lossy == {Faulty([conn |-> 2, abort |-> 1])}
LossyAndRefusing == {Faulty([conn |-> 2, abort |-> 1, publish |-> 1])}
CrashOrDispatchFaults ==
    CrashAndLoss \cup {Faulty([publish |-> 1, module |-> 1, request |-> 1])}

Symmetric == Permutations(Workers)
=============================================================================
