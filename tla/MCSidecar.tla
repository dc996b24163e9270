----------------------------- MODULE MCSidecar -----------------------------
(* Module Sidecar on three preset nodes and a dynamic one.  All presets are *)
(* up at first, or the first of them, or none.                              *)
EXTENDS Sidecar

CONSTANTS n1, n2, n3, d

ThreePresets == <<n1, n2, n3>>

UpAtFirst == {Preset, {n1}, {}}

InitFrom ==
    /\ SidecarInit
    /\ {n \in Preset : container[n] = "running"} \in UpAtFirst

SpecFrom == InitFrom /\ [][SidecarNext]_sidecarVars /\ SidecarFairness
=============================================================================
