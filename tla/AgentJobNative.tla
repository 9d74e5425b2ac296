--------------------------- MODULE AgentJobNative ---------------------------
(***************************************************************************)
(* Attempts of an Agent Job run that a provider runs with its own tool     *)
(* loop (agent-job-native-attempt.js, agent-job-native-effects.js): the    *)
(* runner grants or parks each call in a permission hook, the provider     *)
(* makes the granted calls itself and reports their completion.            *)
(*                                                                         *)
(* A turn is an actor of its own.  The runner does not wait for one that   *)
(* ignores its abort; such a turn goes on asking and reporting in the      *)
(* process that started it, beside the attempts that come after it.  What  *)
(* is called outlives even that process.                                   *)
(*                                                                         *)
(* Only calls that need an approval are here (the others leave no row).    *)
(* Tool and args make the effect key, so a key is its own args hash.  Left *)
(* out: Orkestr tools a native turn calls (AgentJobRun), output checks,    *)
(* fallback providers, backoff, notifications, the journal, and what       *)
(* people decide about the approvals of a run that is sealed.              *)
(***************************************************************************)
EXTENDS AgentJobLedger, SequencesExt

CONSTANTS
    Processes, NoProcess,
    MaxAttempts,        \* runtime.maxAttempts
    MaxCalls,           \* bound: calls that are granted
    MaxFaults           \* bound: processes that die and leases that lapse

ASSUME NativeAssumption ==
    /\ NoProcess \notin Processes
    /\ Keys \subseteq Args /\ IsFiniteSet(Keys)
    /\ MaxAttempts \in Nat \ {0} /\ MaxCalls \in Nat /\ MaxFaults \in Nat

VARIABLES
    run,            \* sealed, and whether a cancel is recorded
    lease,          \* its holder, and whether it has not run out
    attempts,       \* how each attempt of the run ended
    effects, approvals,
    pc, cx,         \* where the driver of a process is, and what it holds
    turns,          \* the provider turns, in the order they were started
    calls,          \* the calls that were granted, in order
    faults

tables == <<effects, approvals>>
driver == <<pc, cx>>
vars == <<run, lease, attempts, tables, driver, turns, calls, faults>>

Aborts == {"none", "cancelled", "lease_lost", "timeout"}
Results == {"none", "park", "expired", "cancelled", "final", "error"}

\* on: it may ask; stopping: it was told to park, expire or cancel; over: its
\* run() has returned, or its process has died.
Turn == [by : Processes, state : {"on", "stopping", "over"}, out : Results, ask : Nat]

\* failed: the provider reports it as not ok.  heard: its completion event was
\* handled.  asked: approvals there were when it was granted (history, for the
\* properties).
Call == [key : Keys, turn : Nat, approval : Nat, state : {"granted", "done", "failed"},
         heard : BOOLEAN, asked : Nat]

Nothing == [rows |-> 0, todo |-> {}, turn |-> 0, abort |-> "none", out |-> "none", ask |-> 0]
Context == [rows : Nat, todo : SUBSET Keys, turn : Nat, abort : Aborts,
            out : Results \cup Aborts, ask : Nat]
Steps == {"idle", "loop", "recover", "reconcile", "ensure", "start", "attempt", "close",
          "expire", "seal", "release"}

TypeOK ==
    /\ run \in [sealed : BOOLEAN, cancel : BOOLEAN]
    /\ lease \in [holder : Processes \cup {NoProcess}, live : BOOLEAN]
    /\ attempts \in Seq({"running", "wait", "over"})
    /\ effects \in [Keys -> EffectRow]
    /\ approvals \in Seq(ApprovalRow)
    /\ pc \in [Processes -> Steps] /\ cx \in [Processes -> Context]
    /\ turns \in Seq(Turn)
    /\ calls \in Seq(Call)
    /\ faults \in Nat

Init ==
    /\ run = [sealed |-> FALSE, cancel |-> FALSE]
    /\ lease = [holder |-> NoProcess, live |-> FALSE]
    /\ attempts = <<>> /\ turns = <<>> /\ calls = <<>>
    /\ effects = [k \in Keys |-> NoEffect] /\ approvals = <<>>
    /\ pc = [p \in Processes |-> "idle"] /\ cx = [p \in Processes |-> Nothing]
    /\ faults = 0

Fault == faults < MaxFaults /\ faults' = faults + 1

HoldsLease(p) == lease.holder = p /\ lease.live
SetEffect(k, row) == effects' = [effects EXCEPT ![k] = row]

-----------------------------------------------------------------------------
(* The permission hook, authorizeNativeToolCall: one transaction           *)

\* A call the hook denies changes nothing: the lease is lost, or a person
\* denied the latest approval of the call.
MayAsk(t) ==
    /\ turns[t].state = "on" /\ ~run.cancel
    /\ HoldsLease(turns[t].by)
    /\ Len(calls) < MaxCalls

\* Nobody takes what a late turn returns.
Awaited(t) == \E p \in Processes : pc[p] = "attempt" /\ cx[p].turn = t

StopTurn(t, out, ask) ==
    turns' = [turns EXCEPT ![t] =
                [@ EXCEPT !.state = "stopping", !.out = IF Awaited(t) THEN out ELSE "none",
                          !.ask = IF Awaited(t) THEN ask ELSE 0]]

HookCancels(t) ==
    /\ turns[t].state = "on" /\ run.cancel
    /\ StopTurn(t, "cancelled", 0)
    /\ UNCHANGED <<run, lease, attempts, tables, driver, calls, faults>>

\* The approval the call is bound to, whatever question it answered; 0 when
\* there is none, or it was used.
Latest(k) ==
    LET i == FindApproval(approvals, k, k)
    IN  IF i # 0 /\ approvals[i].consumed THEN 0 ELSE i

HookWaits(t, k) ==
    /\ MayAsk(t) /\ Latest(k) # 0
    /\ approvals[Latest(k)].state = "pending" /\ ~approvals[Latest(k)].due
    /\ StopTurn(t, "park", Latest(k))
    /\ UNCHANGED <<run, lease, attempts, tables, driver, calls, faults>>

HookExpires(t, k) ==
    /\ MayAsk(t) /\ Latest(k) # 0
    /\ \/ approvals[Latest(k)].state = "pending" /\ approvals[Latest(k)].due
       \/ approvals[Latest(k)].state = "expired"
    /\ approvals' = ExpireApproval(approvals, Latest(k))
    /\ StopTurn(t, "expired", Latest(k))
    /\ UNCHANGED <<run, lease, attempts, effects, driver, calls, faults>>

HookAsks(t, k) ==
    /\ MayAsk(t) /\ Latest(k) = 0
    /\ approvals' = CreateApproval(approvals, k, k, "approval_required")
    /\ StopTurn(t, "park", Len(approvals) + 1)
    /\ UNCHANGED <<run, lease, attempts, effects, driver, calls, faults>>

\* nativeEffectGrantedSync
Granted(row, k) ==
    LET intent == Intend(row, k)
    IN  MarkDispatched(IF intent.state \in {"unknown", "failed"} THEN Reopen(intent)
                       ELSE intent)

HookGrants(t, k) ==
    LET i == Latest(k) IN
    /\ MayAsk(t) /\ i # 0
    /\ approvals[i].state = "approved"
    /\ approvals' = ConsumeApproval(approvals, i)
    /\ SetEffect(k, Granted(effects[k], k))
    /\ calls' = Append(calls, [key |-> k, turn |-> t, approval |-> i, state |-> "granted",
                               heard |-> FALSE, asked |-> Len(approvals)])
    /\ UNCHANGED <<run, lease, attempts, driver, turns, faults>>

-----------------------------------------------------------------------------
(* The provider                                                            *)

\* It makes the call, or declines it.  A call that ended with an error, which may
\* have changed what it was to change, is reported as one that was declined.
CallEnds(c) ==
    /\ calls[c].state = "granted"
    /\ \E s \in {"done", "failed"} : calls' = [calls EXCEPT ![c] = [@ EXCEPT !.state = s]]
    /\ UNCHANGED <<run, lease, attempts, tables, driver, turns, faults>>

\* settleNativeEffect: neither lease nor attempt is asked for.
Settled(row, ok) ==
    CASE row.state = "intended" /\ ok  -> Commit(row)
      [] row.state = "intended" /\ ~ok -> Fail(row, "failed")
      [] OTHER                         -> row

Completed(c) ==
    LET call == calls[c] IN
    /\ call.state # "granted" /\ ~call.heard /\ turns[call.turn].state # "over"
    /\ calls' = [calls EXCEPT ![c] = [@ EXCEPT !.heard = TRUE]]
    /\ SetEffect(call.key, Settled(effects[call.key], call.state = "done"))
    /\ UNCHANGED <<run, lease, attempts, approvals, driver, turns, faults>>

\* A turn gives its answer when its calls are complete; it fails, and is
\* stopped, with calls in flight.
TurnReturns(t) ==
    /\ turns[t].state # "over"
    /\ \E out \in {"final", "error"} :
          /\ turns[t].state = "on" /\ out = "final" =>
               \A c \in DOMAIN calls : calls[c].turn = t => calls[c].heard
          /\ turns' = [turns EXCEPT ![t] =
                         [turns[t] EXCEPT !.state = "over",
                                          !.out = CASE ~Awaited(t)           -> "none"
                                                    [] turns[t].state = "on" -> out
                                                    [] OTHER                 -> @]]
    /\ UNCHANGED <<run, lease, attempts, tables, driver, calls, faults>>

-----------------------------------------------------------------------------
(* The driver: driveLeased around runNativeAttempt                         *)

Goto(p, step) == pc' = [pc EXCEPT ![p] = step]
Hold(p, c) == cx' = [cx EXCEPT ![p] = c]

HolderIsDead == lease.holder \in Processes /\ pc[lease.holder] = "idle"

Acquire(p) ==
    /\ pc[p] = "idle" /\ ~run.sealed
    /\ lease.holder = NoProcess \/ ~lease.live \/ HolderIsDead
    /\ lease' = [holder |-> p, live |-> TRUE]
    /\ Goto(p, "loop")
    /\ UNCHANGED <<run, attempts, tables, cx, turns, calls, faults>>

Release(p) ==
    /\ pc[p] = "release"
    /\ lease' = IF lease.holder = p THEN [holder |-> NoProcess, live |-> FALSE] ELSE lease
    /\ Goto(p, "idle") /\ Hold(p, Nothing)
    /\ UNCHANGED <<run, attempts, tables, turns, calls, faults>>

ReadRun(p) ==
    /\ pc[p] = "loop"
    /\ LET last == Len(attempts) IN
       /\ Goto(p, CASE run.sealed                 -> "release"
                    [] ~run.sealed /\ run.cancel  -> "seal"
                    [] ~run.sealed /\ ~run.cancel ->
                         IF last > 0 /\ attempts[last] = "running" THEN "recover"
                         ELSE "ensure")
       /\ Hold(p, [Nothing EXCEPT !.rows = last])
    /\ UNCHANGED <<run, lease, attempts, tables, turns, calls, faults>>

EndAttempt(p, how) == attempts' = [attempts EXCEPT ![cx[p].rows] = how]

Recover(p) ==
    /\ pc[p] = "recover"
    /\ EndAttempt(p, "over")
    /\ Goto(p, "reconcile")
    /\ Hold(p, [cx[p] EXCEPT !.todo = {k \in Keys : InDoubt(effects[k])}])
    /\ UNCHANGED <<run, lease, tables, turns, calls, faults>>

\* Mutation: a call nobody can look up is taken for one that did not happen.
ReconciledAbsent(row) == Fail(row, "absent")

\* A native call has no reconcile hook.
Reconciled(row) == MarkUnknown(row)

Reconcile(p) ==
    /\ pc[p] = "reconcile"
    /\ \/ /\ cx[p].todo = {}
          /\ Goto(p, "ensure")
          /\ UNCHANGED <<cx, effects>>
       \/ \E k \in cx[p].todo :
             /\ SetEffect(k, Reconciled(effects[k]))
             /\ Hold(p, [cx[p] EXCEPT !.todo = @ \ {k}])
             /\ UNCHANGED pc
    /\ UNCHANGED <<run, lease, attempts, approvals, turns, calls, faults>>

Unknown == {k \in Keys : effects[k].state = "unknown"}
Unasked ==
    {k \in Unknown : LET i == FindApproval(approvals, k, k)
                     IN  i = 0 \/ ~Live(approvals[i], "effect_unknown")}

\* What the run has to wait for (0: nothing), unknown effects first.
Questions(aps) ==
    LET open == {FindApproval(aps, k, k) : k \in Unknown} \cap PendingApprovals(aps)
    IN  IF open # {} THEN open ELSE {PendingApprovalForRun(aps)}

Counted == {n \in DOMAIN attempts : attempts[n] # "wait"}

Ensure(p) ==
    /\ pc[p] = "ensure"
    /\ \E order \in SetToSeqs(Unasked) :
         approvals' = approvals \o
            [i \in 1..Len(order) |->
                [key |-> order[i], args |-> order[i], reason |-> "effect_unknown",
                 state |-> "pending", due |-> FALSE, consumed |-> FALSE]]
    /\ \E i \in Questions(approvals') :
         /\ Hold(p, [cx[p] EXCEPT !.ask = i, !.rows = Len(attempts)])
         /\ Goto(p, IF i # 0 THEN IF approvals'[i].due THEN "expire" ELSE "release"
                    ELSE IF Cardinality(Counted) >= MaxAttempts THEN "seal" ELSE "start")
    /\ UNCHANGED <<run, lease, attempts, effects, turns, calls, faults>>

\* An attempt number that exists by now breaks the primary key.
StartAttempt(p) ==
    /\ pc[p] = "start"
    /\ IF cx[p].rows < Len(attempts)
       THEN Goto(p, "release") /\ UNCHANGED <<attempts, turns, cx>>
       ELSE /\ attempts' = Append(attempts, "running")
            /\ turns' = Append(turns, [by |-> p, state |-> "on", out |-> "none", ask |-> 0])
            /\ Hold(p, [Nothing EXCEPT !.rows = Len(attempts) + 1, !.turn = Len(turns) + 1])
            /\ Goto(p, "attempt")
    /\ UNCHANGED <<run, lease, tables, calls, faults>>

\* The poll, and the timer of the attempt.
Abort(p) ==
    /\ pc[p] = "attempt" /\ cx[p].abort = "none"
    /\ \E reason \in {"cancelled", "lease_lost", "timeout"} :
          /\ reason = "cancelled" => run.cancel
          /\ reason = "lease_lost" => ~run.cancel /\ ~HoldsLease(p)
          /\ Hold(p, [cx[p] EXCEPT !.abort = reason])
    /\ UNCHANGED <<run, lease, attempts, tables, pc, turns, calls, faults>>

\* What the runner makes of the turn's result, which it takes, or of its abort.
\* LeaseLost leaves the attempt running.
Outcome(p, out) ==
    LET t == cx[p].turn IN
    /\ IF out = "lease_lost"
       THEN Goto(p, "idle") /\ Hold(p, Nothing)
       ELSE Goto(p, "close") /\ Hold(p, [cx[p] EXCEPT !.out = out, !.ask = turns[t].ask])
    /\ turns' = [turns EXCEPT ![t] = [@ EXCEPT !.out = "none", !.ask = 0]]

TurnOver(p) ==
    /\ pc[p] = "attempt" /\ turns[cx[p].turn].state = "over"
    /\ LET out == turns[cx[p].turn].out IN
       Outcome(p, IF out \in {"park", "expired"} \/ cx[p].abort = "none" THEN out
                  ELSE cx[p].abort)
    /\ UNCHANGED <<run, lease, attempts, tables, calls, faults>>

\* Mutation: an aborted turn is awaited.
GraceOverAwaited(p) ==
    /\ pc[p] = "attempt" /\ cx[p].abort # "none" /\ turns[cx[p].turn].state = "over"
    /\ Outcome(p, cx[p].abort)
    /\ UNCHANGED <<run, lease, attempts, tables, calls, faults>>

\* The grace period of the abort is over: the turn is not awaited.
GraceOver(p) ==
    /\ pc[p] = "attempt" /\ cx[p].abort # "none"
    /\ Outcome(p, cx[p].abort)
    /\ UNCHANGED <<run, lease, attempts, tables, calls, faults>>

\* The transaction that ends the attempt; a retry goes back to the loop.
Close(p) ==
    /\ pc[p] = "close"
    /\ LET out == cx[p].out
           last == Cardinality(Counted) >= MaxAttempts
       IN  /\ EndAttempt(p, IF out \in {"park", "expired"} THEN "wait" ELSE "over")
           /\ \/ out = "park" /\ Goto(p, "release")
              \/ out = "expired" /\ Goto(p, "expire")
              \/ out \in {"final", "cancelled", "error"} /\ Goto(p, "seal")
              \/ out \in {"error", "timeout"} /\ ~last /\ Goto(p, "loop")
              \/ out = "timeout" /\ last /\ Goto(p, "seal")
    /\ UNCHANGED <<run, lease, tables, cx, turns, calls, faults>>

\* The call that was asked about may have no row in the ledger.
Expire(p) ==
    LET k == approvals[cx[p].ask].key IN
    /\ pc[p] = "expire"
    /\ approvals' = ExpireApproval(approvals, cx[p].ask)
    /\ SetEffect(k, IF effects[k].state = "none" THEN effects[k] ELSE Fail(effects[k], "expired"))
    /\ Goto(p, "seal")
    /\ UNCHANGED <<run, lease, attempts, cx, turns, calls, faults>>

Seal(p) ==
    /\ pc[p] = "seal"
    /\ run' = [run EXCEPT !.sealed = TRUE]
    /\ Goto(p, "release")
    /\ UNCHANGED <<lease, attempts, tables, cx, turns, calls, faults>>

-----------------------------------------------------------------------------
(* People, time and faults                                                 *)

RequestCancel ==
    /\ ~run.sealed /\ ~run.cancel
    /\ run' = [run EXCEPT !.cancel = TRUE]
    /\ UNCHANGED <<lease, attempts, tables, driver, turns, calls, faults>>

Decide(i) ==
    /\ approvals[i].state = "pending" /\ ~run.sealed
    /\ IF approvals[i].due THEN approvals' = ExpireApproval(approvals, i)
       ELSE \E s \in {"approved", "denied"} :
               approvals' = [approvals EXCEPT ![i] = [@ EXCEPT !.state = s]]
    /\ UNCHANGED <<run, lease, attempts, effects, driver, turns, calls, faults>>

ApprovalTimeout(i) ==
    /\ approvals[i].state = "pending" /\ ~approvals[i].due /\ ~run.sealed
    /\ approvals' = [approvals EXCEPT ![i] = [@ EXCEPT !.due = TRUE]]
    /\ UNCHANGED <<run, lease, attempts, effects, driver, turns, calls, faults>>

LeaseLapses ==
    /\ Fault /\ lease.live
    /\ lease' = [lease EXCEPT !.live = FALSE]
    /\ UNCHANGED <<run, attempts, tables, driver, turns, calls>>

RenewLease(p) ==
    /\ pc[p] # "idle" /\ lease.holder = p /\ ~lease.live
    /\ lease' = [lease EXCEPT !.live = TRUE]
    /\ UNCHANGED <<run, attempts, tables, driver, turns, calls, faults>>

\* The events of its turns are lost with a process, their calls are not.
Crash(p) ==
    /\ Fault
    /\ pc[p] # "idle" \/ \E t \in DOMAIN turns : turns[t].by = p /\ turns[t].state # "over"
    /\ turns' = [t \in DOMAIN turns |->
                   IF turns[t].by = p
                   THEN [turns[t] EXCEPT !.state = "over", !.out = "none", !.ask = 0]
                   ELSE turns[t]]
    /\ Goto(p, "idle") /\ Hold(p, Nothing)
    /\ UNCHANGED <<run, lease, attempts, tables, calls>>

-----------------------------------------------------------------------------
Hook(t) ==
    \/ HookCancels(t)
    \/ \E k \in Keys : HookWaits(t, k) \/ HookExpires(t, k) \/ HookAsks(t, k) \/ HookGrants(t, k)

Drive(p) ==
    \/ Release(p) \/ ReadRun(p) \/ Recover(p) \/ Reconcile(p) \/ Ensure(p)
    \/ StartAttempt(p) \/ Abort(p) \/ TurnOver(p) \/ GraceOver(p) \/ Close(p)
    \/ Expire(p) \/ Seal(p)

Next ==
    \/ \E p \in Processes : Acquire(p) \/ Drive(p) \/ RenewLease(p) \/ Crash(p)
    \/ \E t \in DOMAIN turns : Hook(t) \/ TurnReturns(t)
    \/ \E c \in DOMAIN calls : CallEnds(c) \/ Completed(c)
    \/ \E i \in DOMAIN approvals : Decide(i) \/ ApprovalTimeout(i)
    \/ RequestCancel \/ LeaseLapses

Spec == Init /\ [][Next]_vars

\* The sweep drives the run, a driver goes on.  Nothing is asked of providers
\* and people.
Fairness == \A p \in Processes : WF_vars(Acquire(p)) /\ WF_vars(Drive(p))

LiveSpec == Spec /\ Fairness

-----------------------------------------------------------------------------
(* Properties                                                              *)

\* A call is granted a second time only on an approval that was asked for
\* after the first was granted: one of a turn the runner has given up, or one
\* in doubt, is never repeated on an answer a person gave before it.
RepeatedByPerson ==
    \A i, j \in DOMAIN calls :
        i < j /\ calls[i].key = calls[j].key =>
            /\ calls[j].approval > calls[i].asked
            /\ approvals[calls[j].approval].state = "approved"

\* The ledger does not forget a call that may have run, however its completion is
\* lost or late: its row is committed, in doubt or unknown, unless the provider
\* reported a call of the key as not ok, or its question expired.  And nothing
\* counts as committed that was not reported as ok.  (A row that failed may so
\* stand for a call that ran: settleNativeEffect has only the provider's word.)
CallsOf(k, states) == {c \in DOMAIN calls : calls[c].key = k /\ calls[c].state \in states}
CallsAccountedFor ==
    \A k \in Keys :
        /\ effects[k].state = "committed" => CallsOf(k, {"done"}) # {}
        /\ CallsOf(k, {"done", "failed"}) # {} =>
             \/ effects[k].state \in {"committed", "unknown"} \/ InDoubt(effects[k])
             \/ effects[k].state = "failed" /\ effects[k].outcome = "expired"
             \/ /\ effects[k].state = "failed" /\ effects[k].outcome = "failed"
                /\ \E c \in CallsOf(k, {"failed"}) : calls[c].heard

\* G11: a run whose cancel is recorded is sealed, also when the provider
\* ignores the abort, never returns and goes on asking.
CancelEnds == run.cancel ~> run.sealed
=============================================================================
