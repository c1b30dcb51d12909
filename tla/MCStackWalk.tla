----------------------------- MODULE MCStackWalk -----------------------------
(***************************************************************************)
(* A process of one thread: a main executable, a library it loads later and *)
(* code that it compiles at run time.  Its stacks are built from the frames  *)
(* of a call chain, as the compilers of the functions lay them out.          *)
(***************************************************************************)
EXTENDS StackWalk, MurmurHash2

CONSTANTS cpu1, cpu2, thread1, thread2

const_Tgid == [t \in Threads |-> thread1]

(***************************************************************************)
(* Code.  A function has a row for its prologue's end; its program counter  *)
(* is a few bytes further on.                                               *)
(***************************************************************************)
row(pc, cfa, cfa_offset, rbp, rbp_offset) ==
    [pc |-> pc, cfa_type |-> cfa, cfa_offset |-> cfa_offset,
     rbp_type |-> rbp, rbp_offset |-> rbp_offset]

MainRows == <<row(16, "RSP", 8, "UNDEFINED_RETURN_ADDRESS", 0),   \* start
              row(32, "RSP", 16, "UNCHANGED", 0),                 \* sp
              row(48, "RBP", 16, "OFFSET", -16),                  \* fp
              row(64, "RSP", 24, "OFFSET", -16),                  \* gp: uses rbp for data
              row(80, "PLT1", 0, "UNCHANGED", 0),                 \* plt
              row(96, "RSP", 16, "EXPRESSION", 0),                \* rbp_expression
              row(112, "EXPRESSION", 0, "UNCHANGED", 0),          \* cfa_expression
              row(128, "END_OF_FDE_MARKER", 0, "UNCHANGED", 0)>>

LibRows == <<row(16, "RSP", 16, "UNCHANGED", 0), row(32, "PLT2", 0, "UNCHANGED", 0)>>

\* Where the functions are: main at 1024, the library at 1536, compiled code at 2048.
Pc == [start |-> 1042, sp |-> 1060, fp |-> 1076, gp |-> 1092, plt |-> 1104 + 11,
       plt_start |-> 1104 + 6, rbp_expression |-> 1124, cfa_expression |-> 1140,
       lib |-> 1536 + 20, lib_plt |-> 1536 + 32 + 10, jit |-> 2052, jit2 |-> 2068,
       vdso |-> 2308]

chunk(low, high, shard, low_index, high_index) ==
    [low_pc |-> low, high_pc |-> high, shard_index |-> shard,
     low_index |-> low_index, high_index |-> high_index]

\* Generation 1 meets the main executable first, in two chunks; generation 2 the library.
ProcessChunks ==
    <<[e \in {0, 1} |-> IF e = 0 THEN <<chunk(16, 79, 1, 0, 4), chunk(80, 128, 2, 0, 4)>>
                                 ELSE <<chunk(16, 47, 2, 4, 6)>>],
      [e \in {0, 1} |-> IF e = 0 THEN <<chunk(16, 47, 1, 0, 2)>>
                                 ELSE <<chunk(16, 79, 1, 2, 6), chunk(80, 128, 2, 0, 4)>>]>>

ProcessTables ==
    <<<<SubSeq(MainRows, 1, 4), SubSeq(MainRows, 5, 8) \o LibRows>>,
      <<LibRows \o SubSeq(MainRows, 1, 4), SubSeq(MainRows, 5, 8)>>>>

mapping(begin, executable, type) ==
    [begin |-> begin, end |-> begin + 255, load_address |-> begin,
     executable |-> executable, type |-> type]

\* Before and after the process loads the library and compiles code.  A jitdump mapping is
\* counted in len and not written.
ProcessLayouts ==
    [g \in 1..2 |->
        LET main == mapping(1024, g - 1, 0)
            lib == mapping(1536, 2 - g, 0)
            vdso == mapping(2304, 0, 2)
        IN <<[is_jit_compiler |-> FALSE, len |-> 2, mappings |-> <<main, vdso>>],
             [is_jit_compiler |-> TRUE, len |-> 5,
              mappings |-> <<main, lib, mapping(2048, 0, 1), vdso>>]>>]

(***************************************************************************)
(* Stacks.                                                                 *)
(***************************************************************************)
kind(f) == CASE f \in {"jit", "jit2"} -> "jit"
             [] f \in {"rbp_expression", "cfa_expression", "vdso"} -> "opaque"
             [] f = "start" -> "end"
             [] OTHER -> "table"

layout(f) == IF f \in {"jit", "jit2", "lib", "lib_plt"} THEN 2 ELSE 1

\* The situation in which the last function of a chain of calls is running.  The call left
\* the caller's program counter below the caller's stack pointer.
Call(s, f) ==
    LET saved == Put(s.memory, s.regs.sp - 8, s.regs.ip)
        with_bp == Put(saved, s.regs.sp - 16, s.regs.bp)
        at(size, bp, memory) ==
            [s EXCEPT !.regs = [ip |-> Pc[f], sp |-> s.regs.sp - size, bp |-> bp],
                      !.memory = memory,
                      !.layout = IF layout(f) > @ THEN layout(f) ELSE @,
                      !.frames = <<[address |-> Pc[f], sp |-> s.regs.sp - size, bp |-> bp,
                                    kind |-> kind(f)]>> \o @]
    IN CASE f \in {"fp", "jit", "jit2"} -> at(16, s.regs.sp - 16, with_bp)
         [] f = "gp" -> at(24, 7, with_bp)
         [] f = "plt_start" -> at(8, s.regs.bp, saved)
         [] OTHER -> at(16, s.regs.bp, saved)

Start(bp) ==
    [regs |-> [ip |-> Pc["start"], sp |-> 4000, bp |-> bp], memory |-> <<>>, layout |-> 1,
     in_kernel |-> FALSE, 
     frames |-> <<[address |-> Pc["start"], sp |-> 4000, bp |-> bp, kind |-> "end"]>>]

\* The stack of a call chain, outermost function first.
StackOf(chain, bp) ==
    LET s[k \in 0..Len(chain)] == IF k = 0 THEN Start(bp) ELSE Call(s[k - 1], chain[k])
    IN s[Len(chain)]

WalkChains ==
    <<<<"plt_start">>, <<"plt">>, <<"jit">>, <<"vdso">>, <<"rbp_expression">>,
      <<"cfa_expression">>, <<"fp", "fp">>, <<"fp", "gp">>, <<"sp", "lib_plt">>,
      <<"gp", "jit">>, <<"gp", "jit", "jit2", "lib">>,
      <<"sp", "gp", "fp", "sp", "sp">>, <<"sp", "sp", "sp", "sp", "sp", "sp">>>>

\* A frame pointer of 5 at the start is what a program leaves that does not mark its
\* outermost frame.  The last stack is of a task that is in the kernel.
WalkStacks == [k \in 1..Len(WalkChains) |-> StackOf(WalkChains[k], 0)]
                 \o <<StackOf(<<"sp">>, 5), [StackOf(<<"gp">>, 0) EXCEPT !.in_kernel = TRUE]>>

\* Two stacks with the same innermost frame.
IdStacks == <<StackOf(<<"sp", "sp">>, 0), StackOf(<<"gp", "sp">>, 0)>>

\* Compiled code that calls a function of the library, and one of the library that is called
\* by a function without a frame pointer.
DocsStacks == <<StackOf(<<"gp", "jit", "lib">>, 0), StackOf(<<"sp", "lib">>, 0)>>

\* Only what the innermost functions need: one executable in one shard.
IdChunks == <<[e \in {0} |-> <<chunk(16, 79, 1, 0, 4)>>]>>
IdTables == <<<<SubSeq(MainRows, 1, 4)>>>>
IdLayouts == <<<<ProcessLayouts[1][1]>>>>

\* (TLC evaluates the definition a constant is given every time, and a definition that is
\* used in it once.)
const_Chunks == ProcessChunks
const_Tables == ProcessTables
const_Layouts == ProcessLayouts
walk_Stacks == WalkStacks
ids_Stacks == IdStacks
docs_Stacks == DocsStacks
ids_Chunks == IdChunks
ids_Tables == IdTables
ids_Layouts == IdLayouts
=============================================================================
