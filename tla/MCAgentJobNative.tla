-------------------------- MODULE MCAgentJobNative --------------------------
(* AgentJobNative on a small instance, for TLC. *)
EXTENDS AgentJobNative, TLC

CONSTANTS p1, none, send

MCProcesses == {p1}
MCKeys == {send}
=============================================================================
