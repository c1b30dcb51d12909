---------------------------- MODULE MCMetadata ----------------------------
(* The two halves of the way to a label, Discovery and LabelManager, for TLC.  Each behaviour is *)
(* about one of them: LabelManager already lets service discovery change at any time.            *)
EXTENDS Discovery, LabelManager

VARIABLE half

vars == <<half, disc_vars, label_vars>>

Init ==
    /\ half \in {"discovery", "labels"}
    /\ DiscInit
    /\ LabelInit
    /\ half = "discovery" => discovered = NotFound /\ relabelConfigs = NoConfig

Next ==
    \/ half = "discovery" /\ DiscNext /\ UNCHANGED <<half, label_vars>>
    \/ half = "labels" /\ LabelNext /\ UNCHANGED <<half, disc_vars>>

Spec == Init /\ [][Next]_vars
FairSpec == Spec /\ DiscFairness /\ LabelFairness
=============================================================================
