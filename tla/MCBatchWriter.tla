---------------------------- MODULE MCBatchWriter ----------------------------
(* Instances of BatchWriter for TLC. *)
EXTENDS BatchWriter

\* Two processes of one node.
MCLabelSets == {{"node", "web"}, {"node", "db"}}
==============================================================================
