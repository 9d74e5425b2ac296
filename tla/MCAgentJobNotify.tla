-------------------------- MODULE MCAgentJobNotify --------------------------
(***************************************************************************)
(* Small instances of AgentJobNotify: two passes and one notification.     *)
(***************************************************************************)
EXTENDS AgentJobNotify, TLC

CONSTANTS p1, p2

MCPasses == {p1, p2}
PassSymmetry == Permutations(MCPasses)
=============================================================================
