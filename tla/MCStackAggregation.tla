------------------------- MODULE MCStackAggregation -------------------------
(* Instances of StackAggregation for TLC. *)
EXTENDS StackAggregation, TLC

CONSTANTS c1, c2, e1, e2, main, loop, sys

Sample(p, t, d, u, k) == [pid |-> p, tid |-> t, dwarf |-> d, user |-> u, kernel |-> k]

\* Two user stacks that share their ID and a kernel stack, in two processes and with both
\* ways of walking.
MCTraceID == [t \in {main, loop, sys} |-> IF t = sys THEN 2 ELSE 1]
MCSamples == {Sample(1, 1, TRUE, main, NoStack), Sample(1, 2, TRUE, loop, NoStack),
              Sample(2, 2, FALSE, loop, sys), Sample(3, 3, FALSE, main, NoStack)}

\* For liveness, one key of each kind.
MCLiveSamples == {Sample(1, 1, TRUE, main, NoStack), Sample(2, 2, FALSE, loop, sys)}

\* All stacks share their ID; two threads share a stack.
MCSharedID == [t \in {main, loop, sys} |-> 1]
MCSharedSamples == {Sample(1, 1, FALSE, main, NoStack), Sample(1, 2, FALSE, main, NoStack),
                    Sample(1, 1, FALSE, loop, NoStack), Sample(1, 1, TRUE, loop, sys)}

Symmetry == Permutations(CPUs) \cup Permutations(Slots)
=============================================================================
