-------------------------- MODULE MCDebuginfoUpload --------------------------
(* Instances of DebuginfoUpload for TLC: processes that map the same binary,
   whose separate debuginfo file has its build ID, another one, or does not exist. *)
EXTENDS DebuginfoUpload

CONSTANTS t1, t2, t3, bin, dbg

MCSame == [t \in Tasks |-> bin]
=============================================================================
