--------------------------- MODULE MCAgentJobRun ---------------------------
(***************************************************************************)
(* Small instances of AgentJobRun: a tool with a reconcile hook that is    *)
(* allowed (a pull request), and a tool without one that needs approval (a *)
(* message to people).                                                     *)
(***************************************************************************)
EXTENDS AgentJobRun

CONSTANTS d1, d2, pr, msg, a1, a2, p1

MCDrivers == {d1, d2}
MCKeys == {pr, msg}
MCArgs == {a1, a2}
MCOnePoint == {p1}

\* One set of args per key, or two ways to call the gated tool.
MCTwoArgs == (pr :> {a1}) @@ (msg :> {a1, a2})
MCMessageOnly == (msg :> {a1})
MCMessageTwoArgs == (msg :> {a1, a2})

\* A failure that leads to the next provider and a retry, and one that leads to
\* neither; the first alone; or none.
MCFailures == {[kind |-> "provider", retryable |-> TRUE],
               [kind |-> "timeout", retryable |-> FALSE]}
MCProviderFails == {[kind |-> "provider", retryable |-> TRUE]}
MCNoFailures == {}

DriverSymmetry == Permutations(MCDrivers)
=============================================================================
