------------------------ MODULE MCAgentJobAdmission ------------------------
(***************************************************************************)
(* Small instances of AgentJobAdmission: a server with the scheduler and a *)
(* command line, and one event that both may receive.                      *)
(***************************************************************************)
EXTENDS AgentJobAdmission

CONSTANTS server, cli, e1
=============================================================================
