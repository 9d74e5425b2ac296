--------------------------- MODULE AgentJobLedger ---------------------------
(***************************************************************************)
(* Rows of the effect ledger and of the approval queue of one Agent Job    *)
(* run, and the statements agent-job-ledger.js executes on them.  Every    *)
(* operator is one SQL statement (or one read) of that file; the modules   *)
(* that run inside a transaction compose them.                             *)
(*                                                                         *)
(* The table of effects is a function from effect keys to rows; a key that *)
(* was never intended has the row NoEffect.  The table of approvals is the *)
(* sequence of its rows in rowid order, so "the latest row" is the row     *)
(* with the largest index.  Hashes are the args they identify.             *)
(***************************************************************************)
EXTENDS Integers, Sequences, FiniteSets

CONSTANTS
    Keys,       \* effect keys, one per (tool, logical key) the agent may use
    Args        \* the arguments a call may carry

NoArgs == "no_args"

EffectStates == {"intended", "committed", "failed", "unknown"}
Outcomes == {"none", "committed", "failed", "absent", "denied", "skipped",
             "expired", "unknown"}
ApprovalStates == {"pending", "approved", "denied", "expired"}
GateReasons == {"approval_required", "effect_unknown"}

EffectRow == [state : EffectStates \cup {"none"}, args : Args \cup {NoArgs},
              dispatched : BOOLEAN, outcome : Outcomes]

\* due: the clock has passed expires_at; consumed: consumed_at is not null.
ApprovalRow == [key : Keys, args : Args, reason : GateReasons,
                state : ApprovalStates, due : BOOLEAN, consumed : BOOLEAN]

NoEffect == [state |-> "none", args |-> NoArgs, dispatched |-> FALSE,
             outcome |-> "none"]

-----------------------------------------------------------------------------
(* Effects *)

\* Insert the intent, or replace the intent of a row that is not committed
\* when the args differ.
Intend(row, a) ==
    IF row.state = "none" \/ (row.args # a /\ row.state # "committed")
    THEN [state |-> "intended", args |-> a, dispatched |-> FALSE,
          outcome |-> "none"]
    ELSE row

\* Mutation: the dispatch mark is not written.
MarkDispatchedLost(row) == row

MarkDispatched(row) ==
    IF row.state = "intended" THEN [row EXCEPT !.dispatched = TRUE] ELSE row

Commit(row) == [row EXCEPT !.state = "committed", !.outcome = "committed"]

Fail(row, outcome) == [row EXCEPT !.state = "failed", !.outcome = outcome]

MarkUnknown(row) == [row EXCEPT !.state = "unknown", !.outcome = "unknown"]

Reopen(row) == [row EXCEPT !.state = "intended", !.dispatched = FALSE]

\* A call that may have reached the outside world and has no verdict yet.
InDoubt(row) == row.state = "intended" /\ row.dispatched

-----------------------------------------------------------------------------
(* Approvals *)

\* Mutation: the args hash is not compared.
MatchingApprovalsAnyArgs(aps, k, a) == {i \in DOMAIN aps : aps[i].key = k}

MatchingApprovals(aps, k, a) ==
    {i \in DOMAIN aps : aps[i].key = k /\ aps[i].args = a}

\* The latest approval row for (effect key, args hash); 0 when there is none.
FindApproval(aps, k, a) ==
    LET rows == MatchingApprovals(aps, k, a)
    IN  IF rows = {} THEN 0 ELSE CHOOSE i \in rows : \A j \in rows : j <= i

PendingApprovals(aps) == {i \in DOMAIN aps : aps[i].state = "pending"}

\* The oldest pending approval of the run; 0 when there is none.
PendingApprovalForRun(aps) ==
    LET rows == PendingApprovals(aps)
    IN  IF rows = {} THEN 0 ELSE CHOOSE i \in rows : \A j \in rows : i <= j

CreateApproval(aps, k, a, reason) ==
    Append(aps, [key |-> k, args |-> a, reason |-> reason, state |-> "pending",
                 due |-> FALSE, consumed |-> FALSE])

\* Mutation: consumed_at is not written.
ConsumeApprovalLost(aps, i) == aps

\* Single use: the row flips from unconsumed to consumed once.
ConsumeApproval(aps, i) ==
    IF aps[i].state = "approved" /\ ~aps[i].consumed
    THEN [aps EXCEPT ![i].consumed = TRUE] ELSE aps

ExpireApproval(aps, i) ==
    IF aps[i].state = "pending" THEN [aps EXCEPT ![i].state = "expired"] ELSE aps

\* Mutation: a consumed approval still counts.
LiveAgain(row, reason) == row.reason = reason

\* An approval that still answers the question `reason` asks.
Live(row, reason) == row.reason = reason /\ ~row.consumed
=============================================================================
