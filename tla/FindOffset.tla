------------------------------ MODULE FindOffset -----------------------------
(***************************************************************************)
(* find_offset_for_pc of bpf/cpu/cpu.bpf.c: the binary search of a chunk of *)
(* unwind rows, as the loop of at most MAX_BINARY_SEARCH_DEPTH iterations   *)
(* that the BPF verifier accepts.  One step is one iteration.               *)
(***************************************************************************)
EXTENDS Integers

CONSTANTS
    MaxUnwindTableSize,     \* MAX_UNWIND_TABLE_SIZE
    MaxBinarySearchDepth,   \* MAX_BINARY_SEARCH_DEPTH
    Pcs,                    \* the program counters that rows carry and samples ask for
    Pow2                    \* Pow2[k] is 2^k

\* The code asserts 2^depth >= size.  The search needs more: a last iteration finds the
\* range empty, so that ranges of up to 2^(depth-1) - 1 rows are searched to the end.
\* 2^18 - 1 is above the 250,000 rows of a shard.
ASSUME SearchAssumption ==
    /\ MaxUnwindTableSize \in Nat \ {0}
    /\ Pcs \subseteq Nat
    /\ MaxBinarySearchDepth \in Nat \ {0}
    /\ Pow2 \in [0..MaxBinarySearchDepth -> Nat]
    /\ Pow2[0] = 1
    /\ \A k \in 1..MaxBinarySearchDepth : Pow2[k] = 2 * Pow2[k - 1]
    /\ MaxUnwindTableSize < Pow2[MaxBinarySearchDepth - 1]

VARIABLES
    rows, pc, low, high,    \* the arguments: table, pc, and the initial left and right
    rewritten,              \* whether the shard changed since the search began
    left, right, found, i,  \* the locals
    result                  \* the value returned, or SEARCHING

args == <<pc, low, high>>
locals == <<left, right, found, i>>
search_vars == <<rows, args, rewritten, locals, result>>

Lookup == INSTANCE RowLookup
    WITH MaxUnwindTableSize <- MaxUnwindTableSize, Pcs <- Pcs, rows <- rows, pc <- pc,
         low <- low, high <- high, rewritten <- rewritten, answer <- result

SEARCHING == Lookup!SEARCHING
DEFAULT == Lookup!DEFAULT
SHOULD_NEVER_HAPPEN == Lookup!SHOULD_NEVER_HAPPEN
EXHAUSTED_ITERATIONS == Lookup!EXHAUSTED_ITERATIONS

Index == 0..(MaxUnwindTableSize - 1)

\* A call, with the shard and the range that the caller took from a chunk.
SearchInit ==
    /\ Lookup!Init
    /\ left = low
    /\ right = high
    /\ found = DEFAULT
    /\ i = 0

\* u32 mid = (left + right) / 2; the indexes are far below 2^32.
Mid == (left + right) \div 2

\* Mutant: a row at the program counter itself is taken to be after it.
IterateStrict ==
    /\ result = SEARCHING /\ i < MaxBinarySearchDepth /\ left < right
    /\ IF rows[Mid] < pc THEN found' = Mid /\ left' = Mid + 1 /\ right' = right
                         ELSE right' = Mid /\ UNCHANGED <<found, left>>
    /\ i' = i + 1
    /\ UNCHANGED <<rows, args, rewritten, result>>

\* One iteration that halves the range.
Iterate ==
    /\ result = SEARCHING /\ i < MaxBinarySearchDepth /\ left < right
    /\ IF Mid >= MaxUnwindTableSize
       THEN /\ result' = SHOULD_NEVER_HAPPEN
            /\ UNCHANGED locals
       ELSE /\ IF rows[Mid] <= pc
               THEN found' = Mid /\ left' = Mid + 1 /\ right' = right
               ELSE right' = Mid /\ UNCHANGED <<found, left>>
            /\ i' = i + 1
            /\ UNCHANGED result
    /\ UNCHANGED <<rows, args, rewritten>>

\* Mutant: the last iteration is spent without looking whether the range is empty.
ReturnLate ==
    /\ result = SEARCHING /\ (left >= right \/ i = MaxBinarySearchDepth)
    /\ result' = IF i + 1 < MaxBinarySearchDepth THEN found ELSE EXHAUSTED_ITERATIONS
    /\ UNCHANGED <<rows, args, rewritten, locals>>

\* The range is empty, or the iterations are used up.
Return ==
    /\ result = SEARCHING /\ (left >= right \/ i = MaxBinarySearchDepth)
    /\ result' = IF i < MaxBinarySearchDepth THEN found ELSE EXHAUSTED_ITERATIONS
    /\ UNCHANGED <<rows, args, rewritten, locals>>

\* The shard is overwritten under the search.
Rewrite == Lookup!Rewrite /\ UNCHANGED locals

SearchNext == Iterate \/ Return \/ Rewrite

SearchSpec == SearchInit /\ [][SearchNext]_search_vars

(***************************************************************************)
(* Properties.                                                             *)
(***************************************************************************)
SearchTypeOK ==
    /\ rows \in [Index -> Pcs]
    /\ pc \in Pcs
    /\ low \in 0..MaxUnwindTableSize /\ high \in low..MaxUnwindTableSize
    /\ rewritten \in BOOLEAN
    /\ left \in Nat /\ right \in Nat /\ i \in 0..MaxBinarySearchDepth
    /\ found \in Index \cup {DEFAULT}
    /\ result \in Index \cup {SEARCHING, DEFAULT, SHOULD_NEVER_HAPPEN, EXHAUSTED_ITERATIONS}

\* The caller of find_offset_for_pc uses a returned index as a row of its own chunk.
\* Whatever is written to the shard meanwhile, the search returns a row of the chunk or
\* DEFAULT: never the row of another executable, and never one of the two error codes.
AnswersInChunk ==
    result # SEARCHING => result = DEFAULT \/ result \in low..(high - 1)

\* The bounded loop implements the one-step lookup of RowLookup.
ImplementsLookup == Lookup!Spec

(***************************************************************************)
(* The inductive invariant behind them.                                    *)
(***************************************************************************)
\* What is left of the range, and what the iterations so far have decided: the rows
\* before it start at or before pc, the rows after it start later.
WindowInv ==
    /\ low <= left /\ left <= right /\ right <= high
    /\ \/ left = low /\ found = DEFAULT
       \/ left > low /\ found = left - 1
    /\ ~rewritten => /\ Lookup!Sorted(rows, low, high)
                     /\ \A k \in low..(left - 1) : rows[k] <= pc
                     /\ \A k \in right..(high - 1) : rows[k] > pc

\* Each iteration halves the range.
DepthInv == result = SEARCHING => i < MaxBinarySearchDepth
                                  /\ right - left < Pow2[MaxBinarySearchDepth - 1 - i]

SearchInv == SearchTypeOK /\ WindowInv /\ DepthInv /\ AnswersInChunk
=============================================================================
