-------------------------- MODULE AgentJobPromise --------------------------
(***************************************************************************)
(* What an Agent Job run promises to the outside world, without leases,    *)
(* attempts, ledger rows or crashes (docs/spec/runtime-guarantees.md G3,   *)
(* G4 and the terminal states of docs/spec/agent-job.md section 2): an     *)
(* external call is made at most once per effect key, once more for every  *)
(* time a person allows it, and never after the run is finished; a         *)
(* finished run stays finished.                                            *)
(***************************************************************************)
EXTENDS Naturals

CONSTANT Keys

VARIABLES
    outcome,    \* "active", or the terminal state the run was sealed with
    performed,  \* how often each external call took effect
    allowed     \* how often each may take effect

vars == <<outcome, performed, allowed>>

Outcomes == {"succeeded", "failed", "cancelled", "skipped"}

Init ==
    /\ outcome = "active"
    /\ performed = [k \in Keys |-> 0]
    /\ allowed = [k \in Keys |-> 1]

Perform(k) ==
    /\ outcome = "active" /\ performed[k] < allowed[k]
    /\ performed' = [performed EXCEPT ![k] = @ + 1]
    /\ UNCHANGED <<outcome, allowed>>

\* A person answered "perform it once more" about an unknown outcome.
AllowOnceMore(k) ==
    /\ outcome = "active"
    /\ allowed' = [allowed EXCEPT ![k] = @ + 1]
    /\ UNCHANGED <<outcome, performed>>

Finish ==
    /\ outcome = "active" /\ outcome' \in Outcomes
    /\ UNCHANGED <<performed, allowed>>

Next == Finish \/ \E k \in Keys : Perform(k) \/ AllowOnceMore(k)

Spec == Init /\ [][Next]_vars
=============================================================================
