-------------------------- MODULE MCProfileListener --------------------------
(* Instances of ProfileListener for TLC. *)
EXTENDS ProfileListener, TLC

CONSTANTS q1, q2, q3, web, db

\* Two queries for the same process and one for both processes.
MCMatching == q1 :> {web} @@ q2 :> {web} @@ q3 :> {web, db}
==============================================================================
