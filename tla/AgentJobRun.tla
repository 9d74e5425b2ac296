---------------------------- MODULE AgentJobRun ----------------------------
(***************************************************************************)
(* One Agent Job run and the processes that may drive it:                  *)
(* agent-job-runner.js (driveRun and its loop), agent-job-effects.js (the  *)
(* tool call executor), the leases of agent-job-store.js, finalizeRunSync, *)
(* requestCancel and decideApproval.  The run lives in one SQLite file;    *)
(* every process that drives it (the server's scheduler, `orkestr run`,    *)
(* `orkestr jobs approve|cancel`) reads and writes it in transactions.     *)
(*                                                                         *)
(* One action is one transaction, or one read followed by an early return. *)
(* Between two actions of a driver any other process may commit, the       *)
(* driver may be waiting for the agent, a tool or a look-up, and it may    *)
(* die.  A driver that dies writes nothing more; the process that replaces *)
(* it has a new holder id and sees a dead pid in the lease.                *)
(*                                                                         *)
(* Left out: the text of messages, results and errors, the journal other   *)
(* than the point an attempt was interrupted at, and the concurrency       *)
(* policy between runs of one job.                                         *)
(***************************************************************************)
EXTENDS AgentJobLedger, SequencesExt

CONSTANTS
    Drivers,        \* processes that may drive the run
    ArgsOf,         \* ArgsOf[k]: the args the agent may pass with key k
    Gated,          \* keys of tools under permissions.tools.approval_required
    Reconcilable,   \* keys of tools with a reconcile hook
    Unsure,         \* keys of tools whose perform may not know its outcome
    Points,         \* journal points an attempt can be interrupted at
    Failures,       \* how the agent or its provider may fail: [kind, retryable]
    MaxAttempts,    \* spec.runtime.maxAttempts
    Providers,      \* length of the chain [agent, ...fallback]
    MaxSteps,       \* MAX_STEPS, answers of the agent per attempt
    MaxCalls,       \* bound: tool calls the agent makes in the whole run
    MaxCrashes,     \* bound: processes that die while driving
    MaxLapses       \* bound: times a live driver's heartbeat comes too late

ASSUME BoundsAssumption ==
    /\ MaxAttempts \in Nat \ {0} /\ Providers \in Nat \ {0}
    /\ MaxSteps \in Nat \ {0}
    /\ MaxCalls \in Nat /\ MaxCrashes \in Nat /\ MaxLapses \in Nat

ASSUME KeysAssumption ==
    /\ Gated \subseteq Keys /\ Reconcilable \subseteq Keys /\ Unsure \subseteq Keys
    /\ ArgsOf \in [Keys -> SUBSET Args]
    /\ IsFiniteSet(Keys)

ErrorKinds == {"provider", "task", "timeout"}

ASSUME FailuresAssumption ==
    Failures \subseteq [kind : ErrorKinds, retryable : BOOLEAN]

NoDriver == "no_driver"
NoKey == "no_key"
NoPoint == "no_point"

ASSUME NamesAssumption ==
    NoDriver \notin Drivers /\ NoKey \notin Keys /\ NoArgs \notin Args
    /\ NoPoint \notin Points

VARIABLES
    run,        \* the row of `runs`; backoff: next_attempt_at is in the future
    lease,      \* lease_holder and whether lease_expires_at is in the future
    attempts,   \* the rows of `attempts`
    effects,    \* the rows of `effects`
    approvals,  \* the rows of `approvals`
    notes,      \* the rows of `notifications`, one rule per event
    audit,      \* the sealed audit record: <<>> or one record
    world,      \* the external calls that took effect, in order
    pc,         \* where each driver is in driveRun
    cx,         \* each driver's local state
    calls,      \* tool calls the agent made (bounded by MaxCalls)
    faults      \* drivers that died and leases that lapsed so far (the bounds)

vars == <<run, lease, attempts, effects, approvals, notes, audit, world, pc,
          cx, calls, faults>>

-----------------------------------------------------------------------------
(* Types *)

\* Mutations: the sweep forgets the runs that wait for a person, or for a retry.
ActiveStatesNotWaiting == {"pending", "running", "retrying"}
ActiveStatesNotRetrying == {"pending", "running", "awaiting_approval"}

ActiveStates == {"pending", "running", "retrying", "awaiting_approval"}
TerminalStates == {"succeeded", "failed", "cancelled", "skipped"}
RunStates == ActiveStates \cup TerminalStates

EndReasons == {"none", "completed", "provider_error", "task_error", "timeout",
               "interrupted", "cancelled", "approval_wait"}
RunReasons == EndReasons \cup GateReasons \cup
    {"cancel_requested", "approval_expired", "output_invalid",
     "max_attempts_exhausted", "recovery_loop"}
Verdicts == {"found", "absent", "error", "none"}

RunRow == [state : RunStates, reason : RunReasons, provider : 0..(Providers - 1),
           backoff : BOOLEAN, cancel : BOOLEAN, sealed : BOOLEAN]
AttemptRow == [state : {"running", "interrupted", "timed_out", "failed", "completed"},
               endReason : EndReasons, point : Points \cup {NoPoint}]
Note == [event : RunStates \cup {"approval_required", "approval_expired"}, id : Nat]
AuditRecord == [state : RunStates, reason : RunReasons, attempts : Seq(AttemptRow),
                effects : [Keys -> EffectRow], approvals : Seq(ApprovalRow)]

\* One external call that took effect.  approval: the approval row consumed
\* for it (0: none); late: a cancel was on record when the agent asked for it.
\* Both are history, for the properties.
Performance == [key : Keys, args : Args, approval : Nat, late : BOOLEAN]

\* The tool call (or recovery look-up) a driver is executing.
Call == [from : {"recovery", "agent"}, key : Keys \cup {NoKey},
         args : Args \cup {NoArgs}, row : EffectRow, verdict : Verdicts,
         approval : Nat, late : BOOLEAN]
NoCall == [from |-> "agent", key |-> NoKey, args |-> NoArgs, row |-> NoEffect,
           verdict |-> "none", approval |-> 0, late |-> FALSE]

\* rows, run: the attempts and run row read last; todo: effects recovery still
\* has to look up; out: what ends the attempt; ask: the approval to park or
\* expire on; fin: the terminal state and reason, or the reason of a retry.
Context == [rows : Nat, run : [state : RunStates, provider : 0..(Providers - 1)],
            todo : SUBSET Keys, steps : 0..MaxSteps, call : Call,
            out : {"none", "park", "expired", "cancelled"}, ask : Nat,
            fin : [state : RunStates, reason : RunReasons, provider : 0..(Providers - 1)]]
NoContext == [rows |-> 0, run |-> [state |-> "pending", provider |-> 0],
              todo |-> {}, steps |-> 0, call |-> NoCall, out |-> "none", ask |-> 0,
              fin |-> [state |-> "pending", reason |-> "none", provider |-> 0]]

Labels == {"idle", "loop", "recover", "reconcile", "settle", "ensure", "sleep",
           "start", "step", "agent", "look", "reopen", "gate", "check", "mark",
           "perform", "performed", "ended", "park", "expire", "retry",
           "finalize", "release"}

TablesOK ==
    /\ run \in RunRow
    /\ lease \in [holder : Drivers \cup {NoDriver}, live : BOOLEAN]
    /\ attempts \in Seq(AttemptRow)
    /\ effects \in [Keys -> EffectRow]
    /\ approvals \in Seq(ApprovalRow)
    /\ notes \subseteq Note
    /\ audit \in Seq(AuditRecord)
    /\ world \in Seq(Performance)
    /\ calls \in 0..MaxCalls
    /\ faults \in [crashes : 0..MaxCrashes, lapses : 0..MaxLapses]

TypeOK ==
    /\ TablesOK
    /\ pc \in [Drivers -> Labels]
    /\ cx \in [Drivers -> Context]

Init ==
    /\ run = [state |-> "pending", reason |-> "none", provider |-> 0,
              backoff |-> FALSE, cancel |-> FALSE, sealed |-> FALSE]
    /\ lease = [holder |-> NoDriver, live |-> FALSE]
    /\ attempts = <<>>
    /\ effects = [k \in Keys |-> NoEffect]
    /\ approvals = <<>>
    /\ notes = {}
    /\ audit = <<>>
    /\ world = <<>>
    /\ pc = [d \in Drivers |-> "idle"]
    /\ cx = [d \in Drivers |-> NoContext]
    /\ calls = 0
    /\ faults = [crashes |-> 0, lapses |-> 0]

-----------------------------------------------------------------------------
(* Helpers of the runner *)

Goto(d, label) == pc' = [pc EXCEPT ![d] = label]

\* Mutation: interrupted attempts do not count.
CountedUninterrupted(rows) ==
    {n \in DOMAIN rows : rows[n].endReason \notin {"approval_wait", "interrupted"}}

Counted(rows) == {n \in DOMAIN rows : rows[n].endReason # "approval_wait"}
Interrupted(rows) == {n \in DOMAIN rows : rows[n].endReason = "interrupted"}

\* recovery_loop: interrupted at least twice, the last attempt that counts was,
\* and every interruption was at one and the same journal point.
ExhaustedReason(rows) ==
    IF /\ Cardinality(Interrupted(rows)) >= 2
       /\ \A n \in Counted(rows) :
             (\A m \in Counted(rows) : m <= n) => n \in Interrupted(rows)
       /\ \A m, n \in Interrupted(rows) : rows[m].point = rows[n].point
    THEN "recovery_loop" ELSE "max_attempts_exhausted"

EndReasonOf(kind) == CASE kind = "provider" -> "provider_error"
                       [] kind = "timeout"  -> "timeout"
                       [] kind = "task"     -> "task_error"

\* Mutation: one step past the end of the chain.
HasFallbackPastEnd(kind, provider) == kind = "provider" /\ provider + 1 <= Providers

HasFallback(kind, provider) == kind = "provider" /\ provider + 1 < Providers

EndAttempt(n, state, reason) ==
    attempts' = [attempts EXCEPT ![n] = [@ EXCEPT !.state = state, !.endReason = reason]]

Fin(state, reason) == [state |-> state, reason |-> reason, provider |-> 0]

\* All a driver still needs when it parks or expires, or when it finalizes.
Asking(i) == [NoContext EXCEPT !.ask = i]
Ending(fin) == [NoContext EXCEPT !.fin = fin]

\* Mutation: every holder looks dead.
HolderIsDeadAlways == lease.holder \in Drivers

\* A holder that is not driving has died: LeaseLost and a clean end leave no
\* live lease behind.
HolderIsDead == lease.holder \in Drivers /\ pc[lease.holder] = "idle"

HoldsLease(d) == lease.holder = d /\ lease.live

Performed(k) == \E i \in DOMAIN world : world[i].key = k

-----------------------------------------------------------------------------
(* driveRun: the lease *)

\* Runs in a terminal state are not picked up.  A holder that asks again for a
\* lease it still has is a process that lost it (not live) or has died.
AcquireLease(d) ==
    /\ pc[d] = "idle"
    /\ run.state \in ActiveStates
    /\ lease.holder = NoDriver \/ ~lease.live \/ HolderIsDead
    /\ lease' = [holder |-> d, live |-> TRUE]
    /\ Goto(d, "loop")
    /\ UNCHANGED <<run, attempts, effects, approvals, notes, audit, world, cx,
                   calls, faults>>

ReleaseLease(d) ==
    /\ pc[d] = "release"
    /\ lease' = IF lease.holder = d THEN [holder |-> NoDriver, live |-> FALSE]
                ELSE lease
    /\ Goto(d, "idle")
    /\ UNCHANGED <<run, attempts, effects, approvals, notes, audit, world, cx,
                   calls, faults>>

\* The clock passes lease_expires_at although the holder is alive: its event
\* loop was blocked, or its heartbeats failed (their errors are ignored).
LeaseLapses ==
    /\ lease.live /\ faults.lapses < MaxLapses
    /\ lease' = [lease EXCEPT !.live = FALSE]
    /\ faults' = [faults EXCEPT !.lapses = @ + 1]
    /\ UNCHANGED <<run, attempts, effects, approvals, notes, audit, world, pc,
                   cx, calls>>

\* renewLease asks only whether the holder is still the same.
RenewLease(d) ==
    /\ pc[d] # "idle" /\ lease.holder = d /\ ~lease.live
    /\ lease' = [lease EXCEPT !.live = TRUE]
    /\ UNCHANGED <<run, attempts, effects, approvals, notes, audit, world, pc,
                   cx, calls, faults>>

Crash(d) ==
    /\ pc[d] # "idle" /\ faults.crashes < MaxCrashes
    /\ faults' = [faults EXCEPT !.crashes = @ + 1]
    /\ Goto(d, "idle")
    /\ cx' = [cx EXCEPT ![d] = NoContext]
    /\ UNCHANGED <<run, lease, attempts, effects, approvals, notes, audit,
                   world, calls>>

-----------------------------------------------------------------------------
(* driveLeased: read, recover, park or start *)

ReadRun(d) ==
    /\ pc[d] = "loop"
    /\ LET last == Len(attempts)
           seen == [state |-> run.state, provider |-> run.provider]
       IN  \/ /\ run.state \in TerminalStates
              /\ Goto(d, "release")
              /\ UNCHANGED cx
           \/ /\ run.state \in ActiveStates /\ run.cancel
              /\ Goto(d, "finalize")
              /\ cx' = [cx EXCEPT ![d] = Ending(Fin("cancelled", "cancel_requested"))]
           \/ /\ run.state \in ActiveStates /\ ~run.cancel
              /\ Goto(d, IF last > 0 /\ attempts[last].state = "running"
                         THEN "recover" ELSE "ensure")
              /\ cx' = [cx EXCEPT ![d] = [@ EXCEPT !.run = seen, !.rows = last]]
    /\ UNCHANGED <<run, lease, attempts, effects, approvals, notes, audit,
                   world, calls, faults>>

InterruptedAt(row, p) ==
    [row EXCEPT !.state = "interrupted", !.endReason = "interrupted", !.point = p]

\* Mark the interrupted attempt, then list the effects to look up.
Recover(d) ==
    /\ pc[d] = "recover"
    /\ \E p \in Points :
          attempts' = [attempts EXCEPT ![cx[d].rows] = InterruptedAt(@, p)]
    /\ cx' = [cx EXCEPT ![d].todo = {k \in Keys : InDoubt(effects[k])}]
    /\ Goto(d, "reconcile")
    /\ UNCHANGED <<run, lease, effects, approvals, notes, audit, world, calls,
                   faults>>

LookingUp(c, k) ==
    [c EXCEPT !.todo = @ \ {k}, !.call = [NoCall EXCEPT !.from = "recovery", !.key = k]]

ReconcileNext(d) ==
    /\ pc[d] = "reconcile"
    /\ \/ /\ cx[d].todo = {}
          /\ Goto(d, "ensure")
          /\ UNCHANGED cx
       \/ \E k \in cx[d].todo :
            /\ Goto(d, "look")
            /\ cx' = [cx EXCEPT ![d] = LookingUp(@, k)]
    /\ UNCHANGED <<run, lease, attempts, effects, approvals, notes, audit,
                   world, calls, faults>>

\* The tool's reconcile hook asks the outside world; it may also fail.
VerdictsOn(k) ==
    IF k \in Reconcilable
    THEN {"error", IF Performed(k) THEN "found" ELSE "absent"}
    ELSE {"none"}

LookUp(d) ==
    /\ pc[d] = "look"
    /\ \E v \in VerdictsOn(cx[d].call.key) : cx' = [cx EXCEPT ![d].call.verdict = v]
    /\ Goto(d, "settle")
    /\ UNCHANGED <<run, lease, attempts, effects, approvals, notes, audit,
                   world, calls, faults>>

\* Mutation: whatever was not found is taken for absent.
SettledOptimistic(row, verdict) ==
    IF verdict = "found" THEN Commit(row) ELSE Fail(row, "absent")

Settled(row, verdict) ==
    CASE verdict = "found"  -> Commit(row)
      [] verdict = "absent" -> Fail(row, "absent")
      [] OTHER              -> MarkUnknown(row)

\* Where executeToolCall goes with the effect row it holds.
Answered(row) == row.state = "failed" /\ row.outcome \in {"denied", "skipped"}
Dispose(k, row) ==
    CASE row.state = "committed" \/ Answered(row)             -> "step"
      [] InDoubt(row)                                         -> "look"
      [] row.state = "failed" /\ row.outcome = "expired"      -> "ended"
      [] row.state = "failed" /\ ~Answered(row) /\ row.outcome # "expired" -> "reopen"
      [] row.state = "unknown"                                -> "gate"
      [] row.state \in {"intended", "none"} /\ ~InDoubt(row)
            -> IF k \in Gated THEN "gate" ELSE "check"

\* Follow a tool call with the row it has now.  The early return for a row
\* that failed as expired names no approval.
Follow(d, k, row, call) ==
    LET next == Dispose(k, row)
    IN  /\ Goto(d, next)
        /\ cx' = [cx EXCEPT ![d] =
                CASE next = "step"  -> [@ EXCEPT !.call = NoCall]
                  [] next = "ended" -> [@ EXCEPT !.call = NoCall, !.out = "expired",
                                                 !.ask = 0]
                  [] OTHER          -> [@ EXCEPT !.call = [call EXCEPT !.row = row]]]

\* reconcileEffect writes its verdict whatever the row has become meanwhile.
Settle(d) ==
    /\ pc[d] = "settle"
    /\ LET call == cx[d].call
           row == Settled(effects[call.key], call.verdict)
       IN  /\ effects' = [effects EXCEPT ![call.key] = row]
           /\ \/ /\ call.from = "recovery"
                 /\ Goto(d, "reconcile")
                 /\ cx' = [cx EXCEPT ![d].call = NoCall]
              \/ /\ call.from = "agent"
                 /\ Follow(d, call.key, row, call)
    /\ UNCHANGED <<run, lease, attempts, approvals, notes, audit, world, calls,
                   faults>>

\* Mutation: a question that was answered and consumed counts once more.
UnaskedEver ==
    {k \in Keys :
        /\ effects[k].state = "unknown"
        /\ LET i == FindApproval(approvals, k, effects[k].args)
           IN  i = 0 \/ ~LiveAgain(approvals[i], "effect_unknown")}

\* Unknown effects that no unconsumed effect_unknown approval asks about yet.
Unasked ==
    {k \in Keys :
        /\ effects[k].state = "unknown"
        /\ LET i == FindApproval(approvals, k, effects[k].args)
           IN  i = 0 \/ ~Live(approvals[i], "effect_unknown")}

\* The approval the run has to wait for (0: none): one that asks about an
\* unknown effect, else the oldest pending one.
Questions(aps) ==
    LET asked == {FindApproval(aps, k, effects[k].args) :
                    k \in {j \in Keys : effects[j].state = "unknown"}}
        open  == asked \cap PendingApprovals(aps)
    IN  IF open # {} THEN open ELSE {PendingApprovalForRun(aps)}

\* Ask about every unknown effect, then park, expire, wait, give up or start.
Ensure(d) ==
    /\ pc[d] = "ensure"
    /\ \E order \in SetToSeqs(Unasked) :
         approvals' = approvals \o
            [i \in 1..Len(order) |->
                [key |-> order[i], args |-> effects[order[i]].args,
                 reason |-> "effect_unknown", state |-> "pending",
                 due |-> FALSE, consumed |-> FALSE]]
    /\ \E i \in Questions(approvals') :
         \/ /\ i # 0
            /\ Goto(d, IF approvals'[i].due THEN "expire" ELSE "park")
            /\ cx' = [cx EXCEPT ![d] = Asking(i)]
         \/ /\ i = 0 /\ cx[d].run.state = "retrying" /\ run.backoff
            /\ \E next \in {"sleep", "release"} : Goto(d, next)
            /\ cx' = [cx EXCEPT ![d] = NoContext]
         \/ /\ i = 0 /\ ~(cx[d].run.state = "retrying" /\ run.backoff)
            /\ Cardinality(Counted(attempts)) >= MaxAttempts
            /\ Goto(d, "finalize")
            /\ cx' = [cx EXCEPT ![d] = Ending(Fin("failed", ExhaustedReason(attempts)))]
         \/ /\ i = 0 /\ ~(cx[d].run.state = "retrying" /\ run.backoff)
            /\ Cardinality(Counted(attempts)) < MaxAttempts
            /\ Goto(d, "start")
            /\ cx' = [cx EXCEPT ![d].rows = Len(attempts)]
    /\ UNCHANGED <<run, lease, attempts, effects, notes, audit, world, calls,
                   faults>>

WakeUp(d) ==
    /\ pc[d] = "sleep" /\ ~run.backoff
    /\ Goto(d, "loop")
    /\ UNCHANGED <<run, lease, attempts, effects, approvals, notes, audit,
                   world, cx, calls, faults>>

\* Insert attempt n.  When n exists by now the insert breaks the primary key:
\* the exception leaves driveRun through its finally.
StartAttempt(d) ==
    /\ pc[d] = "start"
    /\ \/ /\ cx[d].rows < Len(attempts)
          /\ Goto(d, "release")
          /\ cx' = [cx EXCEPT ![d] = NoContext]
          /\ UNCHANGED <<run, attempts>>
       \/ /\ cx[d].rows >= Len(attempts)
          /\ attempts' = Append(attempts, [state |-> "running", endReason |-> "none",
                                           point |-> NoPoint])
          /\ run' = [run EXCEPT !.state = "running", !.reason = "none",
                                !.backoff = FALSE]
          /\ cx' = [cx EXCEPT ![d] = [@ EXCEPT !.rows = Len(attempts) + 1, !.steps = 0]]
          /\ Goto(d, "step")
    /\ UNCHANGED <<lease, effects, approvals, notes, audit, world, calls, faults>>

-----------------------------------------------------------------------------
(* runAttempt and executeToolCall *)

Step(d) ==
    /\ pc[d] = "step" /\ cx[d].steps < MaxSteps
    /\ \/ /\ run.cancel
          /\ Goto(d, "ended")
          /\ cx' = [cx EXCEPT ![d].out = "cancelled"]
       \/ /\ ~run.cancel
          /\ Goto(d, "agent")
          /\ cx' = [cx EXCEPT ![d].steps = @ + 1]
    /\ UNCHANGED <<run, lease, attempts, effects, approvals, notes, audit,
                   world, calls, faults>>

\* A message, or a call that is denied or unknown: the agent is told, no more.
AgentSays(d) ==
    /\ pc[d] = "agent"
    /\ Goto(d, "step")
    /\ UNCHANGED <<run, lease, attempts, effects, approvals, notes, audit,
                   world, cx, calls, faults>>

\* A read-only tool: no ledger row, the same check before it runs.
AgentReads(d) ==
    /\ pc[d] = "agent"
    /\ \/ /\ run.cancel
          /\ Goto(d, "ended")
          /\ cx' = [cx EXCEPT ![d].out = "cancelled"]
       \/ /\ ~run.cancel /\ HoldsLease(d)
          /\ Goto(d, "step")
          /\ UNCHANGED cx
       \/ /\ ~run.cancel /\ ~HoldsLease(d)
          /\ Goto(d, "idle")
          /\ cx' = [cx EXCEPT ![d] = NoContext]
    /\ UNCHANGED <<run, lease, attempts, effects, approvals, notes, audit,
                   world, calls, faults>>

\* The final output, valid under output_schema or not.  Nothing is asked about
\* a cancel or the lease here.
AgentFinishes(d) ==
    /\ pc[d] = "agent"
    /\ EndAttempt(cx[d].rows, "completed", "completed")
    /\ \E fin \in {Fin("succeeded", "none"), Fin("failed", "output_invalid")} :
          cx' = [cx EXCEPT ![d] = Ending(fin)]
    /\ Goto(d, "finalize")
    /\ UNCHANGED <<run, lease, effects, approvals, notes, audit, world, calls,
                   faults>>

Requested(k, a) == [NoCall EXCEPT !.key = k, !.args = a, !.late = run.cancel]

\* A side effect is requested: its intent is written first.
AgentCalls(d) ==
    /\ pc[d] = "agent" /\ calls < MaxCalls
    /\ calls' = calls + 1
    /\ \E k \in Keys : \E a \in ArgsOf[k] :
          LET row == Intend(effects[k], a)
          IN  /\ effects' = [effects EXCEPT ![k] = row]
              /\ Follow(d, k, row, Requested(k, a))
    /\ UNCHANGED <<run, lease, attempts, approvals, notes, audit, world, faults>>

ReopenFailed(d) ==
    /\ pc[d] = "reopen"
    /\ LET call == cx[d].call
           row == Reopen(effects[call.key])
       IN  /\ effects' = [effects EXCEPT ![call.key] = row]
           /\ Follow(d, call.key, row, call)
    /\ UNCHANGED <<run, lease, attempts, approvals, notes, audit, world, calls,
                   faults>>

EndWith(d, out, i) ==
    /\ Goto(d, "ended")
    /\ cx' = [cx EXCEPT ![d] = [@ EXCEPT !.out = out, !.ask = i, !.call = NoCall]]

\* approvalGate, one transaction.
Gate(d) ==
    /\ pc[d] = "gate"
    /\ LET call   == cx[d].call
           reason == IF call.row.state = "unknown" THEN "effect_unknown"
                     ELSE "approval_required"
           i      == FindApproval(approvals, call.key, call.row.args)
           live   == i # 0 /\ Live(approvals[i], reason)
           found(state) == live /\ approvals[i].state = state
       IN  \/ /\ found("pending") /\ approvals[i].due
              /\ approvals' = ExpireApproval(approvals, i)
              /\ EndWith(d, "expired", i)
              /\ UNCHANGED effects
           \/ /\ found("pending") /\ ~approvals[i].due
              /\ EndWith(d, "park", i)
              /\ UNCHANGED <<approvals, effects>>
           \/ /\ found("approved")
              /\ approvals' = ConsumeApproval(approvals, i)
              /\ effects' = IF reason = "effect_unknown"
                            THEN [effects EXCEPT ![call.key] = Reopen(@)]
                            ELSE effects
              /\ cx' = [cx EXCEPT ![d].call.approval = i]
              /\ Goto(d, "check")
           \/ /\ found("denied")
              /\ effects' = [effects EXCEPT ![call.key] =
                               Fail(@, IF reason = "effect_unknown" THEN "skipped"
                                       ELSE "denied")]
              /\ cx' = [cx EXCEPT ![d].call = NoCall]
              /\ Goto(d, "step")
              /\ UNCHANGED approvals
           \/ /\ found("expired")
              /\ EndWith(d, "expired", i)
              /\ UNCHANGED <<approvals, effects>>
           \/ /\ ~live
              /\ approvals' = CreateApproval(approvals, call.key, call.row.args, reason)
              /\ EndWith(d, "park", Len(approvals) + 1)
              /\ UNCHANGED effects
    /\ UNCHANGED <<run, lease, attempts, notes, audit, world, calls, faults>>

\* Mutation: the cancel is not looked up before the dispatch.
MayDispatchUnasked(d) ==
    /\ pc[d] = "check" /\ HoldsLease(d)
    /\ effects[cx[d].call.key].args = cx[d].call.args
    /\ Goto(d, "mark")
    /\ UNCHANGED <<run, lease, attempts, effects, approvals, notes, audit,
                   world, cx, calls, faults>>

\* The args hash is read again, then ensureMayDispatch: reads, no transaction.
MayDispatch(d) ==
    /\ pc[d] = "check"
    /\ LET same == effects[cx[d].call.key].args = cx[d].call.args
       IN  \/ /\ ~same
              /\ Goto(d, "step")
              /\ cx' = [cx EXCEPT ![d].call = NoCall]
           \/ /\ same /\ run.cancel
              /\ EndWith(d, "cancelled", 0)
           \/ /\ same /\ ~run.cancel /\ ~HoldsLease(d)
              /\ Goto(d, "idle")
              /\ cx' = [cx EXCEPT ![d] = NoContext]
           \/ /\ same /\ ~run.cancel /\ HoldsLease(d)
              /\ Goto(d, "mark")
              /\ UNCHANGED cx
    /\ UNCHANGED <<run, lease, attempts, effects, approvals, notes, audit,
                   world, calls, faults>>

MarkEffectDispatched(d) ==
    /\ pc[d] = "mark"
    /\ effects' = [effects EXCEPT ![cx[d].call.key] = MarkDispatched(@)]
    /\ Goto(d, "perform")
    /\ UNCHANGED <<run, lease, attempts, approvals, notes, audit, world, cx,
                   calls, faults>>

\* The external call takes effect.
Perform(d) ==
    /\ pc[d] = "perform"
    /\ LET call == cx[d].call
       IN  world' = Append(world, [key |-> call.key, args |-> call.args,
                                   approval |-> call.approval, late |-> call.late])
    /\ Goto(d, "performed")
    /\ UNCHANGED <<run, lease, attempts, effects, approvals, notes, audit, cx,
                   calls, faults>>

\* What dispatch writes when perform returns or throws.
AfterPerform(d, row) ==
    /\ effects' = [effects EXCEPT ![cx[d].call.key] = row]
    /\ cx' = [cx EXCEPT ![d].call = NoCall]
    /\ Goto(d, "step")
    /\ UNCHANGED <<run, lease, attempts, approvals, notes, audit, world, calls,
                   faults>>

CommitEffect(d) ==
    /\ pc[d] = "performed"
    /\ AfterPerform(d, Commit(effects[cx[d].call.key]))

\* perform throws: by contract a plain error means the call took no effect.
PerformFails(d) ==
    /\ pc[d] = "perform"
    /\ AfterPerform(d, Fail(effects[cx[d].call.key], "failed"))

\* perform throws an error marked outcomeUnknown.
PerformOutcomeUnknown(d) ==
    /\ pc[d] \in {"perform", "performed"} /\ cx[d].call.key \in Unsure
    /\ AfterPerform(d, MarkUnknown(effects[cx[d].call.key]))

-----------------------------------------------------------------------------
(* The end of an attempt *)

\* The agent, the provider or the step limit ends the attempt with an error.
EndWithError(d, kind, retryable) ==
    LET n        == cx[d].rows
        reason   == EndReasonOf(kind)
        provider == cx[d].run.provider
        fallback == HasFallback(kind, provider)
    IN  /\ EndAttempt(n, IF kind = "timeout" THEN "timed_out" ELSE "failed", reason)
        /\ LET exhausted == Cardinality(Counted(attempts')) >= MaxAttempts
               stop == exhausted \/ (~retryable /\ ~fallback)
           IN  /\ Goto(d, IF stop THEN "finalize" ELSE "retry")
               /\ cx' = [cx EXCEPT ![d] =
                     IF stop
                     THEN Ending(Fin("failed", IF exhausted /\ retryable
                                               THEN "max_attempts_exhausted"
                                               ELSE reason))
                     ELSE [NoContext EXCEPT !.rows = n, !.fin =
                             [state |-> "retrying", reason |-> reason,
                              provider |-> IF fallback THEN provider + 1
                                           ELSE provider]]]
        /\ UNCHANGED <<run, lease, effects, approvals, notes, audit, world,
                       calls, faults>>

\* The agent fails while it answers; before the first step the provider may be
\* unconnected or rejected; after the last one the loop gives up.
AttemptFails(d) ==
    \/ /\ pc[d] = "agent"
       /\ \E f \in Failures : EndWithError(d, f.kind, f.retryable)
    \/ /\ pc[d] = "step" /\ cx[d].steps = 0
       /\ \E f \in Failures :
             f.kind = "provider" /\ EndWithError(d, f.kind, f.retryable)
    \/ /\ pc[d] = "step" /\ cx[d].steps \in {0, MaxSteps}
       /\ EndWithError(d, "task", FALSE)

\* Park, expiry and cancel close the attempt in a transaction of their own.
CloseAttempt(d) ==
    /\ pc[d] = "ended"
    /\ \/ /\ cx[d].out = "park"
          /\ EndAttempt(cx[d].rows, "completed", "approval_wait")
          /\ Goto(d, "park")
          /\ cx' = [cx EXCEPT ![d] = Asking(@.ask)]
       \/ /\ cx[d].out = "expired"
          /\ EndAttempt(cx[d].rows, "failed", "approval_wait")
          /\ Goto(d, "expire")
          /\ cx' = [cx EXCEPT ![d] = Asking(@.ask)]
       \/ /\ cx[d].out = "cancelled"
          /\ EndAttempt(cx[d].rows, "failed", "cancelled")
          /\ Goto(d, "finalize")
          /\ cx' = [cx EXCEPT ![d] = Ending(Fin("cancelled", "cancel_requested"))]
    /\ UNCHANGED <<run, lease, effects, approvals, notes, audit, world, calls,
                   faults>>

ScheduleRetry(d) ==
    /\ pc[d] = "retry"
    /\ run' = [run EXCEPT !.state = "retrying", !.reason = cx[d].fin.reason,
                          !.provider = cx[d].fin.provider, !.backoff = TRUE]
    /\ notes' = notes \cup {[event |-> "retrying", id |-> cx[d].rows]}
    /\ cx' = [cx EXCEPT ![d] = NoContext]
    /\ Goto(d, "loop")
    /\ UNCHANGED <<lease, attempts, effects, approvals, audit, world, calls, faults>>

Park(d) ==
    /\ pc[d] = "park"
    /\ run' = [run EXCEPT !.state = "awaiting_approval",
                          !.reason = approvals[cx[d].ask].reason]
    /\ notes' = notes \cup {[event |-> "approval_required", id |-> cx[d].ask]}
    /\ Goto(d, "release")
    /\ cx' = [cx EXCEPT ![d] = NoContext]
    /\ UNCHANGED <<lease, attempts, effects, approvals, audit, world, calls, faults>>

\* expire, first transaction.  Without an approval it throws; the exception
\* leaves driveRun through its finally.
Expire(d) ==
    /\ pc[d] = "expire"
    /\ LET i == cx[d].ask
       IN  \/ /\ i = 0
              /\ Goto(d, "release")
              /\ cx' = [cx EXCEPT ![d] = NoContext]
              /\ UNCHANGED <<effects, approvals, notes>>
           \/ /\ i # 0
              /\ approvals' = ExpireApproval(approvals, i)
              /\ effects' = [effects EXCEPT ![approvals[i].key] = Fail(@, "expired")]
              /\ notes' = notes \cup {[event |-> "approval_expired", id |-> i]}
              /\ cx' = [cx EXCEPT ![d] = Ending(Fin("failed", "approval_expired"))]
              /\ Goto(d, "finalize")
    /\ UNCHANGED <<run, lease, attempts, audit, world, calls, faults>>

\* Mutation: finalizeRunSync seals every time it is called.
NeverSealed == FALSE

AlreadySealed == run.sealed

\* finalizeRunSync: state, journal, notification and sealed audit at once.
Finalize(d) ==
    /\ pc[d] = "finalize"
    /\ LET fin == cx[d].fin
       IN  \/ /\ AlreadySealed
              /\ UNCHANGED <<run, notes, audit>>
           \/ /\ ~AlreadySealed
              /\ run' = [run EXCEPT !.state = fin.state, !.reason = fin.reason,
                                    !.backoff = FALSE, !.sealed = TRUE]
              /\ notes' = notes \cup {[event |-> fin.state, id |-> 0]}
              /\ audit' = <<[state |-> fin.state, reason |-> fin.reason,
                             attempts |-> attempts, effects |-> effects,
                             approvals |-> approvals]>>
    /\ Goto(d, "release")
    /\ cx' = [cx EXCEPT ![d] = NoContext]
    /\ UNCHANGED <<lease, attempts, effects, approvals, world, calls, faults>>

-----------------------------------------------------------------------------
(* Other processes, people and the clock *)

RequestCancel ==
    /\ run.state \in ActiveStates /\ ~run.cancel
    /\ run' = [run EXCEPT !.cancel = TRUE]
    /\ UNCHANGED <<lease, attempts, effects, approvals, notes, audit, world, pc,
                   cx, calls, faults>>

\* Only a pending approval can be decided; a decision that comes too late
\* expires it.  The run's state is not asked.
DecideApproval(i, decision) ==
    /\ approvals[i].state = "pending"
    /\ approvals' = IF approvals[i].due THEN ExpireApproval(approvals, i)
                    ELSE [approvals EXCEPT ![i].state = decision]
    /\ UNCHANGED <<run, lease, attempts, effects, notes, audit, world, pc, cx,
                   calls, faults>>

ApprovalTimeout(i) ==
    /\ ~approvals[i].due
    /\ approvals' = [approvals EXCEPT ![i].due = TRUE]
    /\ UNCHANGED <<run, lease, attempts, effects, notes, audit, world, pc, cx,
                   calls, faults>>

BackoffElapses ==
    /\ run.backoff
    /\ run' = [run EXCEPT !.backoff = FALSE]
    /\ UNCHANGED <<lease, attempts, effects, approvals, notes, audit, world, pc,
                   cx, calls, faults>>

\* A finished run and no driver left: nothing happens any more.
Finished ==
    /\ run.state \in TerminalStates /\ \A d \in Drivers : pc[d] = "idle"
    /\ UNCHANGED vars

-----------------------------------------------------------------------------
(* What a driver does by itself, and the specification *)

DriveSteps(d) ==
    \/ ReleaseLease(d) \/ ReadRun(d) \/ Recover(d) \/ ReconcileNext(d)
    \/ LookUp(d) \/ Settle(d) \/ Ensure(d) \/ WakeUp(d) \/ StartAttempt(d)
    \/ Step(d) \/ AgentSays(d) \/ AgentReads(d) \/ AgentFinishes(d)
    \/ AgentCalls(d) \/ ReopenFailed(d) \/ Gate(d) \/ MayDispatch(d)
    \/ MarkEffectDispatched(d) \/ Perform(d) \/ CommitEffect(d)
    \/ PerformFails(d) \/ PerformOutcomeUnknown(d) \/ AttemptFails(d)
    \/ CloseAttempt(d) \/ ScheduleRetry(d) \/ Park(d) \/ Expire(d) \/ Finalize(d)

Environment ==
    \/ RequestCancel \/ BackoffElapses \/ LeaseLapses
    \/ \E i \in DOMAIN approvals :
          \/ ApprovalTimeout(i)
          \/ \E decision \in {"approved", "denied"} : DecideApproval(i, decision)

Next ==
    \/ \E d \in Drivers :
          AcquireLease(d) \/ RenewLease(d) \/ Crash(d) \/ DriveSteps(d)
    \/ Environment
    \/ Finished

Spec == Init /\ [][Next]_vars

\* Someone drives a run that can be driven (the scheduler sweeps every few
\* seconds), a driver keeps going (the agent and the tools answer), approvals
\* reach their expiry and backoffs end.
Fairness ==
    /\ WF_vars(\E d \in Drivers : AcquireLease(d))
    /\ \A d \in Drivers : WF_vars(DriveSteps(d))
    /\ WF_vars(\E i \in DOMAIN approvals : ApprovalTimeout(i))
    /\ WF_vars(BackoffElapses)

LiveSpec == Spec /\ Fairness

-----------------------------------------------------------------------------
(* Safety *)

\* Tools without a logical key of their own: the args are the key, so a call
\* that carries other args is another effect.
OwnArgs(k) == \A a, b \in ArgsOf[k] : a = b

\* How often a call took effect, and how often it may: once, and once more for
\* every answer "perform it once more" about its unknown outcome.
Times(k) == Cardinality({i \in DOMAIN world : world[i].key = k})
Allowed(k) ==
    1 + Cardinality({i \in DOMAIN approvals :
            /\ approvals[i].key = k /\ approvals[i].consumed
            /\ approvals[i].reason = "effect_unknown"})

\* A row that executeToolCall performs without asking about its outcome.
Free(row) ==
    \/ row.state \in {"none", "intended"} /\ ~InDoubt(row)
    \/ row.state = "failed" /\ ~Answered(row) /\ row.outcome # "expired"

\* G3 and G4: an external call is repeated only on an answer "perform it once
\* more" that was consumed for it, one answer per repetition, and the ledger
\* lets a call that took effect pass unasked only while such an answer is
\* unused (the repetition it paid for was not made, or failed), however often
\* drivers die between the intent, the call, the commit and recovery.
NoSilentRepeat ==
    \A k \in Keys : OwnArgs(k) =>
        /\ Times(k) <= Allowed(k)
        /\ Free(effects[k]) => Times(k) < Allowed(k)

\* G7: a gated call that took effect consumed an approved approval of its key
\* and of no other call (the ledger's "single use").
ApprovalSingleUse ==
    \A i \in DOMAIN world :
        world[i].key \in Gated =>
            /\ world[i].approval \in DOMAIN approvals
            /\ approvals[world[i].approval].key = world[i].key
            /\ approvals[world[i].approval].state = "approved"
            /\ approvals[world[i].approval].consumed
            /\ \A j \in DOMAIN world :
                  world[j].approval = world[i].approval => i = j

\* G7: and the approval was granted for the args the call carried, although the
\* agent may ask again with other args while a person decides.
ApprovalBindsArgs ==
    \A i \in DOMAIN world :
        world[i].key \in Gated =>
            approvals[world[i].approval].args = world[i].args

\* G5: interrupted attempts count, attempts that ended in an approval wait do
\* not; no sequence of deaths and retries starts more than max_attempts.
BoundedAttempts ==
    Cardinality({n \in DOMAIN attempts : attempts[n].endReason # "approval_wait"})
        <= MaxAttempts

\* The lease: no two processes drive the run at once while heartbeats are in
\* time, and the driver is the holder.
OneDriver ==
    \A d \in Drivers : pc[d] # "idle" => HoldsLease(d)

\* G11: a tool call the agent makes once a cancel is on record takes no effect.
\* (An effect whose check had passed when the cancel came still does.)
NoEffectAfterCancel == \A i \in DOMAIN world : ~world[i].late

\* A finished run stays as it was sealed: no driver moves it back to a waiting
\* or running state, and the attempts and effects are those of the audit (G9).
SealedIsFinal ==
    run.sealed =>
        /\ run.state \in TerminalStates
        /\ audit[1].state = run.state /\ audit[1].reason = run.reason
        /\ audit[1].attempts = attempts /\ audit[1].effects = effects

\* G10: exactly one terminal event is announced, and only by the transaction
\* that seals the run, also when two drivers finish it.
FinishAnnouncedOnce ==
    LET finished == {n \in notes : n.event \in TerminalStates}
    IN  IF run.sealed THEN finished = {[event |-> audit[1].state, id |-> 0]}
        ELSE finished = {}

\* G4: an attempt starts only when nothing is left to ask: no approval of the
\* run is pending, and every unknown effect has a question of its own that is
\* closed and was not used up by an earlier repetition, so that an effect that
\* is interrupted again while it is repeated is asked about again.  Closed is
\* not answered: the time of a question may have run out, and then the run
\* starts, and ends as soon as the agent asks for that call.
Closed(k) ==
    {i \in DOMAIN approvals :
        /\ approvals[i].key = k /\ approvals[i].args = effects[k].args
        /\ approvals[i].reason = "effect_unknown" /\ ~approvals[i].consumed
        /\ approvals[i].state # "pending"}
AskedBeforeStart ==
    [][Len(attempts') > Len(attempts) =>
        /\ PendingApprovals(approvals) = {}
        /\ \A k \in Keys : effects[k].state = "unknown" => Closed(k) # {}]_vars

\* The run keeps the promise of AgentJobPromise: an external call took effect
\* when it is in `world`, and was allowed once, and once more for every
\* effect_unknown approval that was consumed for its key.
Promise == INSTANCE AgentJobPromise WITH
    Keys <- {k \in Keys : OwnArgs(k)},
    outcome <- IF run.sealed THEN run.state ELSE "active",
    performed <- [k \in {j \in Keys : OwnArgs(j)} |-> Times(k)],
    allowed <- [k \in {j \in Keys : OwnArgs(j)} |-> Allowed(k)]
KeepsPromise == Promise!Spec

(* Liveness *)

\* G11: a run whose cancel is recorded is finished, also when it is parked or
\* backing off and whoever drove it has died.
CancelFinishes == run.cancel ~> run.sealed

\* G1: an admitted run reaches a terminal state across deaths, backoffs and
\* approvals nobody answers, as long as the agent asks for finitely many calls.
RunFinishes == <>run.sealed

-----------------------------------------------------------------------------
(* What the documents and comments say and the code does not do *)

\* agent-job-effects.js, reconcileDispatchedEffects: every dispatched but
\* uncommitted effect is reconciled before the run continues.  A driver that
\* dies while it reconciles leaves an attempt recover() takes for handled.
ReconciledBeforeStart ==
    [][Len(attempts') > Len(attempts) => \A k \in Keys : ~InDoubt(effects[k])]_vars

\* agent-job-effects.js, executeToolCall: "expired" comes with its approval.
\* A driver that dies between the two transactions of expire() leaves an effect
\* that fails as expired and a run that goes on; expire() then has no approval.
ExpiryNamesApproval == \A d \in Drivers : pc[d] = "expire" => cx[d].ask # 0

\* runtime-guarantees.md G4: an effect of unknown outcome is never executed
\* again without an answer.  Other args under the same effect key replace the
\* intent and its unknown outcome.
NeverRepeatedUnasked ==
    \A i, j \in DOMAIN world :
        i < j /\ world[i].key = world[j].key =>
            /\ world[j].approval # 0
            /\ approvals[world[j].approval].reason = "effect_unknown"
=============================================================================
