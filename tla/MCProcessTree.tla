---------------------------- MODULE MCProcessTree ----------------------------
(* Instances of ProcessTree for TLC. *)
EXTENDS ProcessTree, TLC

CONSTANTS host, pod, q1, q2

Running(parent, cg) == [start |-> 1, parent |-> parent, cg |-> cg]

\* init, a shim, and a container's process.
MCChain == 1 :> Running(0, host) @@ 2 :> Running(1, pod) @@ 3 :> Running(2, pod)

\* The same, and a PID that is free.
MCFree == MCChain @@ 4 :> Dead

Symmetry == Permutations({q1, q2})
==============================================================================
