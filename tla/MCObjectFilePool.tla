--------------------------- MODULE MCObjectFilePool ---------------------------
(* Instances of ObjectFilePool for TLC. *)
EXTENDS ObjectFilePool, TLC

CONSTANTS u1, u2, u3

\* A library as two processes see it.
MCBuildID == "/proc/1/lib" :> "lib" @@ "/proc/2/lib" :> "lib"
MCPaths == DOMAIN MCBuildID

MCOneBuild == "/proc/1/lib" :> "lib"
MCOnePath == DOMAIN MCOneBuild
===============================================================================
