--------------------------- MODULE MCUnwindShards ---------------------------
(* Instances of UnwindShards for TLC. *)
EXTENDS UnwindShards, TLC

CONSTANTS p1, p2, app, lib, plug, bare

\* With shards of three rows: app has functions of 2 and 2 rows, so that a chunk
\* ends before the shard is full; lib of 1, 2 and 3 rows; plug of 1 row; bare
\* has no unwind table.
MCTableLen == app :> 4 @@ lib :> 6 @@ plug :> 1 @@ bare :> 0
MCFdeEnds == app :> {2, 4} @@ lib :> {1, 3, 6} @@ plug :> {1} @@ bare :> {}

\* Lists for two processes, with JIT regions, which share executables when they agree.
MCMappingLists == {<<JitDump, lib>>, <<Anon, bare, app, plug>>}

\* One process, to go through several resets; the third list is too long where
\* MaxMappingsPerProcess is 3.
MCResetLists == {<<app, lib>>, <<lib>>, <<app, lib, Anon>>}
=============================================================================
