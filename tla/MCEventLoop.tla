---------------------------- MODULE MCEventLoop ----------------------------
(* Instances of EventLoop for TLC. *)
EXTENDS EventLoop

CONSTANTS fp, dw1, dw2, b1, b2, f1, f2, loop

const_Symbolizable == [p \in Pids |-> IF p = fp THEN {b1, b2} ELSE {b1}]

\* Process information, for one process; or unwind tables, for two.
const_Modes == {[kinds |-> {"mappings"}, pids |-> {fp}],
                [kinds |-> {"unwind", "refresh"}, pids |-> {dw1, dw2}]}
info_Modes == {[kinds |-> {"mappings"}, pids |-> {fp}]}
=============================================================================
