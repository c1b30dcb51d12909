------------------------------ MODULE RowLookup ------------------------------
(***************************************************************************)
(* What the unwinder asks of a shard of unwind rows (bpf/cpu/cpu.bpf.c,     *)
(* find_offset_for_pc and its caller): given a program counter and the     *)
(* half-open range low..high-1 that a chunk owns in the shard, the last row *)
(* of the range whose pc is at most that program counter, or DEFAULT when   *)
(* there is none.  This is the abstract specification: the answer appears   *)
(* in one step.  FindOffset shows that the bounded binary search of the     *)
(* program implements it.                                                  *)
(*                                                                         *)
(* The shard can be overwritten under the search: the search holds a        *)
(* pointer into the unwind_tables map, and the kernel may reuse the value   *)
(* of a replaced or deleted entry for another one.  Once that has happened  *)
(* the answer is some row of the range or DEFAULT, no longer the right one. *)
(***************************************************************************)
EXTENDS Integers

CONSTANTS
    MaxUnwindTableSize,   \* MAX_UNWIND_TABLE_SIZE: the rows of a shard
    Pcs                   \* the program counters that rows carry and samples ask for

VARIABLES
    rows,        \* table->rows[k].pc, for k in 0..MAX_UNWIND_TABLE_SIZE-1
    pc,          \* the program counter looked up
    low, high,   \* chunk_info->low_index and high_index
    rewritten,   \* whether the shard changed since the search began
    answer       \* what find_offset_for_pc returned, or SEARCHING

lookupVars == <<rows, pc, low, high, rewritten, answer>>

\* The values other than an index that a search can be in or return: it is under way,
\* BINARY_SEARCH_DEFAULT, BINARY_SEARCH_SHOULD_NEVER_HAPPEN and
\* BINARY_SEARCH_EXHAUSTED_ITERATIONS.  In the code they are integers above every index.
SEARCHING == -1
DEFAULT == -2
SHOULD_NEVER_HAPPEN == -3
EXHAUSTED_ITERATIONS == -4

Index == 0..(MaxUnwindTableSize - 1)

\* The unwind tables are sorted by pc before they are written, and rows may share a pc
\* (the marker that ends one function and the first row of the next).
Sorted(table, from, to) ==
    \A j, k \in from..(to - 1) : j <= k => table[j] <= table[k]

\* The rows of the chunk that start at or before the program counter.
AtOrBelow == {k \in low..(high - 1) : rows[k] <= pc}

\* The last of them.
IsLast(k) == k \in AtOrBelow /\ \A j \in AtOrBelow : j <= k

Init ==
    /\ rows \in [Index -> Pcs]
    /\ pc \in Pcs
    /\ low \in 0..MaxUnwindTableSize
    /\ high \in low..MaxUnwindTableSize
    /\ Sorted(rows, low, high)
    /\ rewritten = FALSE
    /\ answer = SEARCHING

\* The search returns.
Answer ==
    /\ answer = SEARCHING
    /\ \/ AtOrBelow = {} /\ answer' = DEFAULT
       \/ IsLast(answer')
       \/ rewritten /\ answer' \in (low..(high - 1)) \cup {DEFAULT}
    /\ UNCHANGED <<rows, pc, low, high, rewritten>>

\* Another value is written where the search is reading, one row of it at a time.
Rewrite ==
    /\ answer = SEARCHING
    /\ \E k \in Index, p \in Pcs : rows' = [rows EXCEPT ![k] = p]
    /\ rewritten' = TRUE
    /\ UNCHANGED <<pc, low, high, answer>>

Next == Answer \/ Rewrite

Spec == Init /\ [][Next]_lookupVars
=============================================================================
