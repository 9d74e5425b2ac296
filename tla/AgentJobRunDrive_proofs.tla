---------------------- MODULE AgentJobRunDrive_proofs ----------------------
(***************************************************************************)
(* Proofs about AgentJobRun beyond types and single use.  The first part   *)
(* holds in every behaviour; the second as long as no lease has lapsed     *)
(* under a live driver, whatever else happens: drivers die, providers fail *)
(* and approvals are decided, expire or are asked again.                   *)
(***************************************************************************)
EXTENDS AgentJobRun_proofs

-----------------------------------------------------------------------------
(* The shape of a step *)

\* A step of driver d is a step of no other driver.
Moves(d) ==
    /\ pc[d] # "idle"
    /\ \A e \in Drivers \ {d} : pc'[e] = pc[e] /\ cx'[e] = cx[e]

LeavesLease(d) == Moves(d) /\ UNCHANGED lease

\* What a driver does outside an attempt.
LEMMA DriveMoves ==
    ASSUME NEW d \in Drivers, TypeInv,
           \/ ReadRun(d) \/ Recover(d) \/ WakeUp(d) \/ StartAttempt(d) \/ Crash(d)
           \/ CloseAttempt(d) \/ ScheduleRetry(d) \/ Park(d) \/ Finalize(d)
           \/ Expire(d) \/ Ensure(d) \/ ReconcileNext(d) \/ LookUp(d)
    PROVE  LeavesLease(d)
<1>1. pc[d] # "idle" /\ UNCHANGED lease
    BY DEF ReadRun, Recover, WakeUp, StartAttempt, Crash, CloseAttempt, ScheduleRetry,
       Park, Finalize, Expire, Ensure, ReconcileNext, LookUp
<1>2. \E l : pc' = [pc EXCEPT ![d] = l]
    BY DEF ReadRun, Recover, WakeUp, StartAttempt, Crash, CloseAttempt, ScheduleRetry,
       Park, Finalize, Expire, Ensure, ReconcileNext, LookUp, Goto
<1>3. \A e \in Drivers \ {d} : cx'[e] = cx[e]
    BY DEF ReadRun, Recover, WakeUp, StartAttempt, Crash, CloseAttempt, ScheduleRetry,
       Park, Finalize, Expire, Ensure, ReconcileNext, LookUp, TypeInv, TypeOK
<1>4. \A e \in Drivers \ {d} : pc'[e] = pc[e]
    BY <1>2 DEF TypeInv, TypeOK
<1> QED BY <1>1, <1>3, <1>4 DEF LeavesLease, Moves

\* What a driver does in an attempt, but for the steps that follow a call.
LEMMA AttemptMoves ==
    ASSUME NEW d \in Drivers, TypeInv,
           \/ Step(d) \/ AgentSays(d) \/ AgentReads(d) \/ AgentFinishes(d)
           \/ Gate(d) \/ MayDispatch(d) \/ MarkEffectDispatched(d) \/ Perform(d)
           \/ CommitEffect(d) \/ PerformFails(d) \/ PerformOutcomeUnknown(d)
    PROVE  LeavesLease(d)
<1>1. pc[d] # "idle" /\ UNCHANGED lease
    BY DEF Step, AgentSays, AgentReads, AgentFinishes, Gate, MayDispatch,
       MarkEffectDispatched, Perform, CommitEffect, PerformFails, PerformOutcomeUnknown,
       AfterPerform
<1>2. \E l : pc' = [pc EXCEPT ![d] = l]
    BY DEF Step, AgentSays, AgentReads, AgentFinishes, Gate, MayDispatch,
       MarkEffectDispatched, Perform, CommitEffect, PerformFails, PerformOutcomeUnknown,
       AfterPerform, EndWith, Goto
<1>3. \A e \in Drivers \ {d} : cx'[e] = cx[e]
    BY DEF Step, AgentSays, AgentReads, AgentFinishes, Gate, MayDispatch,
       MarkEffectDispatched, Perform, CommitEffect, PerformFails, PerformOutcomeUnknown,
       AfterPerform, EndWith, TypeInv, TypeOK
<1>4. \A e \in Drivers \ {d} : pc'[e] = pc[e]
    BY <1>2 DEF TypeInv, TypeOK
<1> QED BY <1>1, <1>3, <1>4 DEF LeavesLease, Moves

\* The steps that follow a call, and an attempt that fails.
LEMMA CallMoves ==
    ASSUME NEW d \in Drivers, TypeInv,
           Settle(d) \/ ReopenFailed(d) \/ AgentCalls(d) \/ AttemptFails(d)
    PROVE  LeavesLease(d)
<1>1. pc[d] # "idle" /\ UNCHANGED lease
    BY DEF Settle, ReopenFailed, AgentCalls, AttemptFails, EndWithError
<1>2. \/ \E l : pc' = [pc EXCEPT ![d] = l] /\ cx' = [cx EXCEPT ![d].call = NoCall]
      \/ \E k, row, call : Follow(d, k, row, call)
      \/ \E kind, retryable : EndWithError(d, kind, retryable)
    BY DEF Settle, ReopenFailed, AgentCalls, AttemptFails, Goto
<1>3. \E l : pc' = [pc EXCEPT ![d] = l]
    BY <1>2 DEF Follow, EndWithError, Goto
<1>4. \A e \in Drivers \ {d} : cx'[e] = cx[e]
    BY <1>2 DEF Follow, EndWithError, TypeInv, TypeOK
<1>5. \A e \in Drivers \ {d} : pc'[e] = pc[e]
    BY <1>3 DEF TypeInv, TypeOK
<1> QED BY <1>1, <1>4, <1>5 DEF LeavesLease, Moves

\* The end of driveRun gives the lease back if it is still the driver's.
LEMMA ReleaseMoves ==
    ASSUME NEW d \in Drivers, TypeInv, ReleaseLease(d)
    PROVE  Moves(d) /\ pc'[d] = "idle"
    BY DEF ReleaseLease, Goto, Moves, TypeInv, TypeOK

LEMMA StepMoves ==
    ASSUME NEW d \in Drivers, TypeInv, DriveSteps(d) \/ Crash(d)
    PROVE  Moves(d) /\ (LeavesLease(d) \/ pc'[d] = "idle")
<1>1. CASE \/ ReadRun(d) \/ Recover(d) \/ WakeUp(d) \/ StartAttempt(d) \/ Crash(d)
           \/ CloseAttempt(d) \/ ScheduleRetry(d) \/ Park(d) \/ Finalize(d)
           \/ Expire(d) \/ Ensure(d) \/ ReconcileNext(d) \/ LookUp(d)
    BY <1>1, DriveMoves DEF LeavesLease
<1>2. CASE \/ Step(d) \/ AgentSays(d) \/ AgentReads(d) \/ AgentFinishes(d)
           \/ Gate(d) \/ MayDispatch(d) \/ MarkEffectDispatched(d) \/ Perform(d)
           \/ CommitEffect(d) \/ PerformFails(d) \/ PerformOutcomeUnknown(d)
    BY <1>2, AttemptMoves DEF LeavesLease
<1>3. CASE Settle(d) \/ ReopenFailed(d) \/ AgentCalls(d) \/ AttemptFails(d)
    BY <1>3, CallMoves DEF LeavesLease
<1>4. CASE ReleaseLease(d)
    BY <1>4, ReleaseMoves
<1> QED BY <1>1, <1>2, <1>3, <1>4 DEF DriveSteps

\* People, other processes and the clock move no driver.
LEMMA OutsideMoves ==
    ASSUME Environment \/ (\E d \in Drivers : RenewLease(d)) \/ UNCHANGED vars
    PROVE  UNCHANGED <<pc, cx, attempts, effects, notes, audit, world>>
    BY DEF Environment, RequestCancel, BackoffElapses, LeaseLapses, ApprovalTimeout,
       DecideApproval, RenewLease, vars

-----------------------------------------------------------------------------
(* One driver *)

\* No lease has lapsed under a live driver so far.
Quiet == faults.lapses = 0

\* A world that is quiet after a step was quiet before it.
LEMMA QuietBefore ==
    ASSUME TypeInv, [Next]_vars, Quiet'
    PROVE  Quiet /\ ~LeaseLapses
<1>1. faults.lapses \in Nat /\ faults \in [crashes : 0..MaxCrashes, lapses : 0..MaxLapses]
    BY BoundsAssumption DEF TypeInv, TypeOK, TablesOK
<1>2. ~LeaseLapses
    BY <1>1 DEF LeaseLapses, Quiet
<1>3. ASSUME NEW d \in Drivers, DriveSteps(d) \/ Crash(d) \/ AcquireLease(d) \/ RenewLease(d)
      PROVE  faults'.lapses = faults.lapses
  <2>1. CASE Crash(d) \/ AcquireLease(d) \/ RenewLease(d)
    BY <1>1, <2>1 DEF Crash, AcquireLease, RenewLease
  <2>2. CASE \/ ReleaseLease(d) \/ ReadRun(d) \/ Recover(d) \/ ReconcileNext(d)
             \/ LookUp(d) \/ Settle(d) \/ Ensure(d) \/ WakeUp(d) \/ StartAttempt(d)
             \/ Step(d) \/ AgentSays(d) \/ AgentReads(d) \/ AgentFinishes(d)
             \/ AgentCalls(d) \/ ReopenFailed(d)
    BY <2>2 DEF ReleaseLease, ReadRun, Recover, ReconcileNext, LookUp, Settle, Ensure,
       WakeUp, StartAttempt, Step, AgentSays, AgentReads, AgentFinishes, AgentCalls,
       ReopenFailed
  <2>3. CASE \/ Gate(d) \/ MayDispatch(d) \/ MarkEffectDispatched(d) \/ Perform(d)
             \/ CommitEffect(d) \/ PerformFails(d) \/ PerformOutcomeUnknown(d)
             \/ AttemptFails(d) \/ CloseAttempt(d) \/ ScheduleRetry(d) \/ Park(d)
             \/ Expire(d) \/ Finalize(d)
    BY <2>3 DEF Gate, MayDispatch, MarkEffectDispatched, Perform, CommitEffect,
       PerformFails, PerformOutcomeUnknown, AfterPerform, AttemptFails, EndWithError,
       CloseAttempt, ScheduleRetry, Park, Expire, Finalize
  <2> QED BY <1>3, <2>1, <2>2, <2>3 DEF DriveSteps
<1>4. Environment \/ UNCHANGED vars => faults' = faults
    BY <1>2 DEF Environment, RequestCancel, BackoffElapses, ApprovalTimeout,
       DecideApproval, vars
<1> QED BY <1>2, <1>3, <1>4 DEF Quiet, Next, Finished

\* The driver that moves is the only one.
LEMMA Alone ==
    ASSUME OneDriver, NEW d \in Drivers, Moves(d)
    PROVE  \A e \in Drivers \ {d} : pc[e] = "idle" /\ pc'[e] = "idle"
    BY DEF OneDriver, HoldsLease, Moves

\* acquireLeaseSync hands the lease out only when nobody drives.
LEMMA AcquireAlone ==
    ASSUME OneDriver, TypeInv, NEW d \in Drivers, AcquireLease(d)
    PROVE  /\ \A e \in Drivers : pc[e] = "idle" /\ (e # d => pc'[e] = "idle")
           /\ pc'[d] = "loop" /\ lease' = [holder |-> d, live |-> TRUE]
           /\ UNCHANGED <<run, attempts, effects, approvals, notes, audit, world, cx>>
<1>1. \A e \in Drivers : pc[e] = "idle"
    BY NamesAssumption DEF OneDriver, HoldsLease, AcquireLease, HolderIsDead
<1> QED BY <1>1 DEF AcquireLease, Goto, TypeInv, TypeOK

\* The lease keeps to one driver as long as heartbeats are in time.
LEMMA OneDriverStep ==
    ASSUME TypeInv, OneDriver, [Next]_vars, Quiet'
    PROVE  OneDriver'
<1>1. ASSUME NEW d \in Drivers, AcquireLease(d) PROVE OneDriver'
    BY <1>1, AcquireAlone DEF OneDriver, HoldsLease
<1>2. ASSUME NEW d \in Drivers, DriveSteps(d) \/ Crash(d) PROVE OneDriver'
  <2>1. Moves(d) /\ (LeavesLease(d) \/ pc'[d] = "idle")
    BY <1>2, StepMoves
  <2>2. CASE LeavesLease(d)
    BY <2>1, <2>2 DEF OneDriver, HoldsLease, Moves, LeavesLease
  <2>3. CASE pc'[d] = "idle"
    BY <2>1, <2>3, Alone DEF OneDriver
  <2> QED BY <2>1, <2>2, <2>3
<1>3. ASSUME Environment \/ UNCHANGED vars PROVE OneDriver'
  <2>1. UNCHANGED <<pc, lease>>
    BY <1>3, QuietBefore DEF Environment, RequestCancel, BackoffElapses,
       ApprovalTimeout, DecideApproval, vars
  <2> QED BY <2>1 DEF OneDriver, HoldsLease
<1>4. ASSUME NEW d \in Drivers, RenewLease(d) PROVE OneDriver'
    BY <1>4 DEF RenewLease, OneDriver, HoldsLease
<1> QED BY <1>1, <1>2, <1>3, <1>4 DEF Next, Finished

-----------------------------------------------------------------------------
(* The finish is announced once *)

\* A driver finalizes into a terminal state.
FinalStates == \A d \in Drivers : pc[d] = "finalize" => cx[d].fin.state \in TerminalStates

FinishInv == FinalStates /\ FinishAnnouncedOnce

\* A step that seals nothing and announces no terminal event.
StaysOpen ==
    /\ UNCHANGED audit /\ run'.sealed = run.sealed
    /\ \A n : n.event \in TerminalStates => (n \in notes' <=> n \in notes)

LEMMA OpenKeepsFinish ==
    ASSUME FinishInv, StaysOpen,
           \A d \in Drivers :
              \/ pc'[d] # "finalize"
              \/ cx'[d].fin.state \in TerminalStates
              \/ pc'[d] = pc[d] /\ cx'[d] = cx[d]
    PROVE  FinishInv'
<1>1. FinalStates'
    BY DEF FinishInv, FinalStates
<1>2. {n \in notes' : n.event \in TerminalStates} = {n \in notes : n.event \in TerminalStates}
    BY DEF StaysOpen
<1>3. FinishAnnouncedOnce'
    BY <1>2 DEF StaysOpen, FinishInv, FinishAnnouncedOnce
<1> QED BY <1>1, <1>3 DEF FinishInv

\* Where the steps of a call lead.
LEMMA FollowGoes ==
    ASSUME NEW d \in Drivers, TypeInv, NEW k \in Keys, NEW row \in EffectRow, NEW call,
           Follow(d, k, row, call)
    PROVE  pc'[d] \in {"step", "look", "ended", "reopen", "gate", "check"}
<1>1. Dispose(k, row) \in {"step", "look", "ended", "reopen", "gate", "check"}
    BY DisposeType
<1> QED BY <1>1 DEF Follow, Goto, TypeInv, TypeOK

LEMMA CallGoes ==
    ASSUME NEW d \in Drivers, TypeInv, Settle(d) \/ ReopenFailed(d) \/ AgentCalls(d)
    PROVE  /\ UNCHANGED <<run, lease, attempts, approvals, notes, audit, world, faults>>
           /\ pc'[d] \in {"reconcile", "step", "look", "ended", "reopen", "gate", "check"}
<1>1. UNCHANGED <<run, lease, attempts, approvals, notes, audit, world, faults>>
    BY DEF Settle, ReopenFailed, AgentCalls
<1>2. CASE Settle(d)
  <2>1. cx[d].call.key \in Keys /\ effects[cx[d].call.key] \in EffectRow
    BY <1>2, InCallTypes DEF Settle, InCall
  <2>2. Settled(effects[cx[d].call.key], cx[d].call.verdict) \in EffectRow
    BY <2>1, SettledType
  <2>3. CASE cx[d].call.from = "recovery" /\ Goto(d, "reconcile")
    BY <1>1, <2>3 DEF Goto, TypeInv, TypeOK
  <2> QED BY <1>1, <1>2, <2>1, <2>2, <2>3, FollowGoes DEF Settle
<1>3. CASE ReopenFailed(d)
  <2>1. cx[d].call.key \in Keys /\ effects[cx[d].call.key] \in EffectRow
    BY <1>3, InCallTypes DEF ReopenFailed, InCall
  <2>2. Reopen(effects[cx[d].call.key]) \in EffectRow
    BY <2>1, EffectRowOps
  <2> QED BY <1>1, <1>3, <2>1, <2>2, FollowGoes DEF ReopenFailed
<1>4. CASE AgentCalls(d)
  <2> PICK k \in Keys : \E a \in ArgsOf[k] :
        Follow(d, k, Intend(effects[k], a), Requested(k, a))
    BY <1>4 DEF AgentCalls
  <2> PICK a \in ArgsOf[k] : Follow(d, k, Intend(effects[k], a), Requested(k, a))
    OBVIOUS
  <2>1. a \in Args /\ effects[k] \in EffectRow
        /\ (effects[k].state # "none" => effects[k].args \in Args)
    BY KeysAssumption DEF TypeInv, TypeOK, TablesOK, KnownRows
  <2>2. Intend(effects[k], a) \in EffectRow
    BY <2>1, IntendType
  <2> QED BY <1>1, <2>2, FollowGoes
<1> QED BY <1>1, <1>2, <1>3, <1>4

\* Where the other steps of an attempt lead.
LEMMA AttemptGoes ==
    ASSUME NEW d \in Drivers, TypeInv,
           \/ Step(d) \/ AgentSays(d) \/ AgentReads(d) \/ Gate(d) \/ MayDispatch(d)
           \/ MarkEffectDispatched(d) \/ Perform(d) \/ CommitEffect(d)
           \/ PerformFails(d) \/ PerformOutcomeUnknown(d)
    PROVE  /\ UNCHANGED <<run, lease, attempts, notes, audit, calls, faults>>
           /\ pc'[d] \in {"ended", "agent", "step", "idle", "check", "mark", "perform",
                          "performed"}
<1>1. UNCHANGED <<run, lease, attempts, notes, audit, calls, faults>>
    BY DEF Step, AgentSays, AgentReads, Gate, MayDispatch, MarkEffectDispatched, Perform,
       CommitEffect, PerformFails, PerformOutcomeUnknown, AfterPerform
<1>2. \E l \in {"ended", "agent", "step", "idle", "check", "mark", "perform", "performed"} :
        pc' = [pc EXCEPT ![d] = l]
    BY DEF Step, AgentSays, AgentReads, Gate, MayDispatch, MarkEffectDispatched, Perform,
       CommitEffect, PerformFails, PerformOutcomeUnknown, AfterPerform, EndWith, Goto
<1> QED BY <1>1, <1>2 DEF TypeInv, TypeOK

\* Where the steps between attempts lead, but for those that may end the run.
LEMMA DriveGoes ==
    ASSUME NEW d \in Drivers, TypeInv,
           \/ ReleaseLease(d) \/ Recover(d) \/ ReconcileNext(d) \/ LookUp(d) \/ WakeUp(d)
           \/ StartAttempt(d) \/ Crash(d) \/ AcquireLease(d)
    PROVE  /\ UNCHANGED <<effects, approvals, notes, audit, world, calls>>
           /\ pc'[d] \in {"idle", "loop", "reconcile", "ensure", "look", "settle", "step",
                          "release"}
<1>1. UNCHANGED <<effects, approvals, notes, audit, world, calls>>
    BY DEF ReleaseLease, Recover, ReconcileNext, LookUp, WakeUp, StartAttempt, Crash,
       AcquireLease
<1>2. \E l \in {"idle", "loop", "reconcile", "ensure", "look", "settle", "step", "release"} :
        pc' = [pc EXCEPT ![d] = l]
    BY DEF ReleaseLease, Recover, ReconcileNext, LookUp, WakeUp, StartAttempt, Crash,
       AcquireLease, Goto
<1> QED BY <1>1, <1>2 DEF TypeInv, TypeOK

\* A driver that goes to finalize has settled on a terminal state.
LEMMA EndingFinal ==
    ASSUME NEW d \in Drivers, TypeInv, NEW s \in TerminalStates, NEW r,
           cx' = [cx EXCEPT ![d] = Ending(Fin(s, r))]
    PROVE  cx'[d].fin.state \in TerminalStates
    BY DEF Ending, Fin, NoContext, TypeInv, TypeOK

LEMMA EndWithErrorFinal ==
    ASSUME NEW d \in Drivers, TypeInv, NEW kind, NEW retryable,
           EndWithError(d, kind, retryable)
    PROVE  /\ UNCHANGED <<run, notes, audit>>
           /\ pc'[d] = "finalize" => cx'[d].fin.state \in TerminalStates
<1>1. UNCHANGED <<run, notes, audit>>
    BY DEF EndWithError
<1>2. \/ pc' = [pc EXCEPT ![d] = "retry"]
      \/ \E r : cx' = [cx EXCEPT ![d] = Ending(Fin("failed", r))]
    BY DEF EndWithError, Goto
<1>3. "failed" \in TerminalStates
    BY DEF TerminalStates
<1>4. CASE pc' = [pc EXCEPT ![d] = "retry"]
    BY <1>1, <1>4 DEF TypeInv, TypeOK
<1> QED BY <1>1, <1>2, <1>3, <1>4, EndingFinal

LEMMA EndGoes ==
    ASSUME NEW d \in Drivers, TypeInv,
           \/ ReadRun(d) \/ Ensure(d) \/ AgentFinishes(d) \/ AttemptFails(d)
           \/ CloseAttempt(d)
    PROVE  /\ UNCHANGED <<run, notes, audit>>
           /\ pc'[d] = "finalize" => cx'[d].fin.state \in TerminalStates
<1>0. {"failed", "cancelled", "succeeded"} \subseteq TerminalStates
    BY DEF TerminalStates
<1>1. CASE AttemptFails(d)
    BY <1>1, EndWithErrorFinal DEF AttemptFails
<1>2. CASE ReadRun(d) \/ Ensure(d) \/ AgentFinishes(d) \/ CloseAttempt(d)
  <2>1. UNCHANGED <<run, notes, audit>>
    BY <1>2 DEF ReadRun, Ensure, AgentFinishes, CloseAttempt
  <2>2. \/ \E l \in {"release", "recover", "ensure", "expire", "park", "sleep", "start"} :
              pc' = [pc EXCEPT ![d] = l]
        \/ \E s \in TerminalStates : \E r :
              cx' = [cx EXCEPT ![d] = Ending(Fin(s, r))]
    <3>1. CASE ReadRun(d)
        BY <1>0, <3>1 DEF ReadRun, Goto
    <3>2. CASE Ensure(d)
      <4>1. \/ pc' = [pc EXCEPT ![d] = "expire"] \/ pc' = [pc EXCEPT ![d] = "park"]
            \/ pc' = [pc EXCEPT ![d] = "sleep"] \/ pc' = [pc EXCEPT ![d] = "release"]
            \/ pc' = [pc EXCEPT ![d] = "start"]
            \/ cx' = [cx EXCEPT ![d] = Ending(Fin("failed", ExhaustedReason(attempts)))]
        BY <3>2, ZenonT(20) DEF Ensure, Goto
      <4> QED BY <1>0, <4>1
    <3>3. CASE AgentFinishes(d)
      <4>1. \/ cx' = [cx EXCEPT ![d] = Ending(Fin("succeeded", "none"))]
            \/ cx' = [cx EXCEPT ![d] = Ending(Fin("failed", "output_invalid"))]
        BY <3>3 DEF AgentFinishes
      <4> QED BY <1>0, <4>1
    <3>4. CASE CloseAttempt(d)
        BY <1>0, <3>4 DEF CloseAttempt, Goto
    <3> QED BY <1>2, <3>1, <3>2, <3>3, <3>4
  <2>3. CASE \E l \in {"release", "recover", "ensure", "expire", "park", "sleep", "start"} :
                pc' = [pc EXCEPT ![d] = l]
    BY <2>1, <2>3 DEF TypeInv, TypeOK
  <2> QED BY <2>1, <2>2, <2>3, EndingFinal
<1> QED BY <1>1, <1>2

\* ScheduleRetry, Park and Expire announce what is not terminal; Finalize announces
\* the state it seals.
LEMMA ParkFinish ==
    ASSUME NEW d \in Drivers, TypeInv, FinishInv,
           ScheduleRetry(d) \/ Park(d) \/ Expire(d)
    PROVE  FinishInv'
<1>1. UNCHANGED audit /\ run'.sealed = run.sealed
    BY DEF ScheduleRetry, Park, Expire, TypeInv, TypeOK, TablesOK, RunRow
<1>2. \/ UNCHANGED notes
      \/ \E e \in {"retrying", "approval_required", "approval_expired"} : \E i :
            notes' = notes \cup {[event |-> e, id |-> i]}
    BY DEF ScheduleRetry, Park, Expire
<1>3. StaysOpen
    BY <1>1, <1>2 DEF StaysOpen, TerminalStates
<1>4. \/ \E l \in {"loop", "release"} : pc' = [pc EXCEPT ![d] = l]
      \/ cx' = [cx EXCEPT ![d] = Ending(Fin("failed", "approval_expired"))]
    BY DEF ScheduleRetry, Park, Expire, Goto
<1>5. pc'[d] # "finalize" \/ cx'[d].fin.state \in TerminalStates
  <2>1. "failed" \in TerminalStates
    BY DEF TerminalStates
  <2>2. CASE \E l \in {"loop", "release"} : pc' = [pc EXCEPT ![d] = l]
    BY <2>2 DEF TypeInv, TypeOK
  <2> QED BY <1>4, <2>1, <2>2, EndingFinal
<1>6. \A e \in Drivers \ {d} : pc'[e] = pc[e] /\ cx'[e] = cx[e]
    BY DriveMoves DEF LeavesLease, Moves
<1> QED BY <1>3, <1>5, <1>6, OpenKeepsFinish

LEMMA FinalizeFinish ==
    ASSUME NEW d \in Drivers, TypeInv, FinishInv, Finalize(d)
    PROVE  FinishInv'
<1> DEFINE fin == cx[d].fin
           record == [state |-> fin.state, reason |-> fin.reason, attempts |-> attempts,
                      effects |-> effects, approvals |-> approvals]
<1>1. fin.state \in TerminalStates
    BY DEF FinishInv, FinalStates, Finalize
<1>2. pc'[d] = "release" /\ \A e \in Drivers \ {d} : pc'[e] = pc[e] /\ cx'[e] = cx[e]
  <2>1. \A e \in Drivers \ {d} : pc'[e] = pc[e] /\ cx'[e] = cx[e]
    BY DriveMoves DEF LeavesLease, Moves
  <2> QED BY <2>1 DEF Finalize, Goto, TypeInv, TypeOK
<1>3. CASE UNCHANGED <<run, notes, audit>>
    BY <1>2, <1>3, OpenKeepsFinish DEF StaysOpen
<1>4. CASE /\ ~run.sealed /\ run'.sealed
           /\ notes' = notes \cup {[event |-> fin.state, id |-> 0]}
           /\ audit' = <<record>>
  <2>1. \A n \in notes : n.event \notin TerminalStates
    BY <1>4 DEF FinishInv, FinishAnnouncedOnce
  <2>2. {n \in notes' : n.event \in TerminalStates} = {[event |-> fin.state, id |-> 0]}
    BY <1>1, <1>4, <2>1
  <2>3. audit'[1].state = fin.state
    BY <1>4
  <2>4. FinishAnnouncedOnce'
    BY <1>4, <2>2, <2>3 DEF FinishAnnouncedOnce
  <2>5. FinalStates'
    BY <1>2 DEF FinishInv, FinalStates
  <2> QED BY <2>4, <2>5 DEF FinishInv
<1>5. \/ UNCHANGED <<run, notes, audit>>
      \/ /\ ~run.sealed /\ notes' = notes \cup {[event |-> fin.state, id |-> 0]}
         /\ audit' = <<record>>
         /\ run' = [run EXCEPT !.state = fin.state, !.reason = fin.reason,
                               !.backoff = FALSE, !.sealed = TRUE]
    BY DEF Finalize, AlreadySealed
<1>6. run' = [run EXCEPT !.state = fin.state, !.reason = fin.reason,
                         !.backoff = FALSE, !.sealed = TRUE] => run'.sealed
    BY DEF TypeInv, TypeOK, TablesOK, RunRow
<1> QED BY <1>3, <1>4, <1>5, <1>6

LEMMA FinishInit == Init => FinishInv
    BY DEF Init, FinishInv, FinalStates, FinishAnnouncedOnce

LEMMA FinishStep == TypeInv /\ FinishInv /\ [Next]_vars => FinishInv'
<1> SUFFICES ASSUME TypeInv, FinishInv, [Next]_vars PROVE FinishInv'
    OBVIOUS
<1>1. ASSUME NEW d \in Drivers, UNCHANGED audit, run'.sealed = run.sealed, UNCHANGED notes,
             \A e \in Drivers \ {d} : pc'[e] = pc[e] /\ cx'[e] = cx[e],
             pc'[d] # "finalize" \/ cx'[d].fin.state \in TerminalStates
      PROVE  FinishInv'
  <2>1. StaysOpen
    BY <1>1 DEF StaysOpen
  <2> QED BY <1>1, <2>1, OpenKeepsFinish
<1>2. ASSUME NEW d \in Drivers, AcquireLease(d) PROVE FinishInv'
  <2>1. \A e \in Drivers \ {d} : pc'[e] = pc[e] /\ cx'[e] = cx[e]
    BY <1>2 DEF AcquireLease, Goto, TypeInv, TypeOK
  <2> QED BY <1>1, <1>2, <2>1, DriveGoes DEF AcquireLease
<1>3. ASSUME NEW d \in Drivers, DriveSteps(d) \/ Crash(d) PROVE FinishInv'
  <2>0. \A e \in Drivers \ {d} : pc'[e] = pc[e] /\ cx'[e] = cx[e]
    BY <1>3, StepMoves DEF Moves
  <2>1. CASE \/ ReleaseLease(d) \/ Recover(d) \/ ReconcileNext(d) \/ LookUp(d)
             \/ WakeUp(d) \/ StartAttempt(d) \/ Crash(d)
    <3>1. run'.sealed = run.sealed
        BY <2>1 DEF ReleaseLease, Recover, ReconcileNext, LookUp, WakeUp, StartAttempt,
           Crash, TypeInv, TypeOK, TablesOK, RunRow
    <3> QED BY <1>1, <2>0, <2>1, <3>1, DriveGoes
  <2>2. CASE Settle(d) \/ ReopenFailed(d) \/ AgentCalls(d)
    BY <1>1, <2>0, <2>2, CallGoes
  <2>3. CASE \/ Step(d) \/ AgentSays(d) \/ AgentReads(d) \/ Gate(d) \/ MayDispatch(d)
             \/ MarkEffectDispatched(d) \/ Perform(d) \/ CommitEffect(d)
             \/ PerformFails(d) \/ PerformOutcomeUnknown(d)
    BY <1>1, <2>0, <2>3, AttemptGoes
  <2>4. CASE \/ ReadRun(d) \/ Ensure(d) \/ AgentFinishes(d) \/ AttemptFails(d)
             \/ CloseAttempt(d)
    BY <1>1, <2>0, <2>4, EndGoes
  <2>5. CASE ScheduleRetry(d) \/ Park(d) \/ Expire(d) \/ Finalize(d)
    BY <2>5, ParkFinish, FinalizeFinish
  <2> QED BY <1>3, <2>1, <2>2, <2>3, <2>4, <2>5 DEF DriveSteps
<1>4. ASSUME Environment \/ (\E d \in Drivers : RenewLease(d)) \/ UNCHANGED vars
      PROVE  FinishInv'
  <2>1. UNCHANGED <<pc, cx, notes, audit>>
    BY <1>4, OutsideMoves
  <2>2. run'.sealed = run.sealed
    BY <1>4 DEF Environment, RequestCancel, BackoffElapses, LeaseLapses, ApprovalTimeout,
       DecideApproval, RenewLease, vars, TypeInv, TypeOK, TablesOK, RunRow
  <2>3. StaysOpen
    BY <2>1, <2>2 DEF StaysOpen
  <2> QED BY <2>1, <2>3, OpenKeepsFinish
<1> QED BY <1>2, <1>3, <1>4 DEF Next, Finished

\* G10: the finish of a run is announced by the transaction that seals it, once
\* and with the state that was sealed, also when leases lapse and two drivers come
\* to finalizeRunSync.
THEOREM AnnouncedOnce == Spec => []FinishAnnouncedOnce
<1>1. FinishInv => FinishAnnouncedOnce
    BY DEF FinishInv
<1> QED BY <1>1, TypeInvariant, FinishInit, FinishStep, PTL DEF Spec

-----------------------------------------------------------------------------
(* No effect after a cancel *)

\* A call is late when a cancel was on record; a late call does not pass
\* ensureMayDispatch, for a cancel is never taken back.
LateCalls ==
    \A d \in Drivers :
        /\ cx[d].call.late => run.cancel
        /\ pc[d] \in {"mark", "perform"} => ~cx[d].call.late

LateInv == LateCalls /\ NoEffectAfterCancel

\* What most steps do to the call of driver d: nothing, forget it, or look one up.
CallKept(d) ==
    /\ run.cancel => run'.cancel
    /\ \A e \in Drivers \ {d} : pc'[e] = pc[e] /\ cx'[e] = cx[e]
    /\ cx'[d].call.late => cx[d].call.late \/ run.cancel
    /\ pc'[d] \notin {"mark", "perform"}

LEMMA CallKeptLate ==
    ASSUME NEW d \in Drivers, LateInv, CallKept(d), UNCHANGED world
    PROVE  LateInv'
<1>1. LateCalls'
    BY DEF CallKept, LateInv, LateCalls
<1> QED BY <1>1 DEF LateInv, NoEffectAfterCancel

\* The cancel stays on record.
LEMMA CancelStays == TypeInv /\ [Next]_vars => (run.cancel => run'.cancel)
<1> SUFFICES ASSUME TypeInv, [Next]_vars, run.cancel PROVE run'.cancel
    OBVIOUS
<1>r. run \in RunRow
    BY DEF TypeInv, TypeOK, TablesOK
<1>1. ASSUME NEW d \in Drivers, DriveSteps(d) \/ Crash(d) \/ AcquireLease(d) \/ RenewLease(d)
      PROVE  run'.cancel
  <2>1. CASE \/ ReleaseLease(d) \/ Recover(d) \/ ReconcileNext(d) \/ LookUp(d)
             \/ WakeUp(d) \/ Crash(d) \/ AcquireLease(d) \/ RenewLease(d)
    BY <2>1 DEF ReleaseLease, Recover, ReconcileNext, LookUp, WakeUp, Crash, AcquireLease,
       RenewLease
  <2>2. CASE Settle(d) \/ ReopenFailed(d) \/ AgentCalls(d)
    BY <2>2, CallGoes
  <2>3. CASE \/ Step(d) \/ AgentSays(d) \/ AgentReads(d) \/ Gate(d) \/ MayDispatch(d)
             \/ MarkEffectDispatched(d) \/ Perform(d) \/ CommitEffect(d)
             \/ PerformFails(d) \/ PerformOutcomeUnknown(d)
    BY <2>3, AttemptGoes
  <2>4. CASE \/ ReadRun(d) \/ Ensure(d) \/ AgentFinishes(d) \/ AttemptFails(d)
             \/ CloseAttempt(d)
    BY <2>4, EndGoes
  <2>5. CASE StartAttempt(d) \/ ScheduleRetry(d) \/ Park(d) \/ Expire(d)
    BY <1>r, <2>5 DEF StartAttempt, ScheduleRetry, Park, Expire, RunRow
  <2>6. CASE Finalize(d)
    <3> DEFINE fin == cx[d].fin
    <3>1. \/ UNCHANGED run
          \/ run' = [run EXCEPT !.state = fin.state, !.reason = fin.reason,
                                !.backoff = FALSE, !.sealed = TRUE]
        BY <2>6 DEF Finalize
    <3> HIDE DEF fin
    <3> QED BY <1>r, <3>1 DEF RunRow
  <2> QED BY <1>1, <2>1, <2>2, <2>3, <2>4, <2>5, <2>6 DEF DriveSteps
<1>2. CASE Environment \/ UNCHANGED vars
    BY <1>r, <1>2 DEF Environment, RequestCancel, BackoffElapses, LeaseLapses,
       ApprovalTimeout, DecideApproval, vars, RunRow
<1> QED BY <1>1, <1>2 DEF Next, Finished

\* The local states that hold no call.
LEMMA NoCalls ==
    /\ NoContext.call = NoCall /\ (\A i : Asking(i).call = NoCall)
    /\ \A fin : Ending(fin).call = NoCall
    /\ ~NoCall.late /\ NoCall.approval = 0 /\ NoCall \in Call
    BY RowTypes DEF NoContext, Asking, Ending, NoCall

\* Most steps leave the call they find, or none.
CallOrNone(d) == cx'[d].call \in {cx[d].call, NoCall}

LEMMA DriveCall ==
    ASSUME NEW d \in Drivers, TypeInv,
           \/ ReleaseLease(d) \/ AcquireLease(d) \/ ReadRun(d) \/ Recover(d) \/ WakeUp(d)
           \/ StartAttempt(d) \/ Crash(d) \/ ScheduleRetry(d) \/ Park(d) \/ Finalize(d)
    PROVE  CallOrNone(d)
<1>c. cx \in [Drivers -> Context] /\ cx[d] \in Context
    BY DEF TypeInv, TypeOK
<1>1. CASE \/ ReleaseLease(d) \/ AcquireLease(d) \/ WakeUp(d) \/ Crash(d)
           \/ ScheduleRetry(d) \/ Park(d) \/ Finalize(d)
    BY <1>c, <1>1, NoCalls DEF ReleaseLease, AcquireLease, WakeUp, Crash, ScheduleRetry,
       Park, Finalize, CallOrNone
<1>2. CASE ReadRun(d)
  <2>1. \/ UNCHANGED cx
        \/ cx' = [cx EXCEPT ![d] = Ending(Fin("cancelled", "cancel_requested"))]
        \/ cx' = [cx EXCEPT ![d] =
                    [cx[d] EXCEPT !.run = [state |-> run.state, provider |-> run.provider],
                                  !.rows = Len(attempts)]]
    BY <1>2 DEF ReadRun
  <2> DEFINE c == [cx[d] EXCEPT !.run = [state |-> run.state, provider |-> run.provider],
                                !.rows = Len(attempts)]
  <2>2. c.call = cx[d].call
    BY <1>c DEF Context
  <2>3. \/ UNCHANGED cx
        \/ cx' = [cx EXCEPT ![d] = Ending(Fin("cancelled", "cancel_requested"))]
        \/ cx' = [cx EXCEPT ![d] = c]
    BY <2>1
  <2> HIDE DEF c
  <2> QED BY <1>c, <2>2, <2>3, NoCalls DEF CallOrNone
<1>3. CASE Recover(d)
    BY <1>c, <1>3 DEF Recover, CallOrNone, Context
<1>4. CASE StartAttempt(d)
  <2>1. \/ cx' = [cx EXCEPT ![d] = NoContext]
        \/ cx' = [cx EXCEPT ![d] =
                    [cx[d] EXCEPT !.rows = Len(attempts) + 1, !.steps = 0]]
    BY <1>4 DEF StartAttempt
  <2> DEFINE c == [cx[d] EXCEPT !.rows = Len(attempts) + 1, !.steps = 0]
  <2>2. c.call = cx[d].call
    BY <1>c DEF Context
  <2>3. cx' = [cx EXCEPT ![d] = NoContext] \/ cx' = [cx EXCEPT ![d] = c]
    BY <2>1
  <2> HIDE DEF c
  <2> QED BY <1>c, <2>2, <2>3, NoCalls DEF CallOrNone
<1> QED BY <1>1, <1>2, <1>3, <1>4

LEMMA EndCall ==
    ASSUME NEW d \in Drivers, TypeInv,
           \/ Ensure(d) \/ AgentFinishes(d) \/ AttemptFails(d) \/ CloseAttempt(d)
           \/ Expire(d)
    PROVE  CallOrNone(d)
<1>c. cx \in [Drivers -> Context] /\ cx[d] \in Context
    BY DEF TypeInv, TypeOK
<1>1. CASE AttemptFails(d)
  <2> PICK kind, retryable : EndWithError(d, kind, retryable)
    BY <1>1 DEF AttemptFails
  <2> DEFINE retry(n, fin) == [NoContext EXCEPT !.rows = n, !.fin = fin]
  <2>1. \/ \E fin : cx' = [cx EXCEPT ![d] = Ending(fin)]
        \/ \E n, fin : cx' = [cx EXCEPT ![d] = retry(n, fin)]
    BY DEF EndWithError
  <2>2. \A n, fin : retry(n, fin).call = NoCall
    BY DEF NoContext
  <2> HIDE DEF retry
  <2> QED BY <1>c, <2>1, <2>2, NoCalls DEF CallOrNone
<1>2. CASE Ensure(d)
  <2>1. \/ \E i : cx' = [cx EXCEPT ![d] = Asking(i)]
        \/ cx' = [cx EXCEPT ![d] = NoContext]
        \/ \E fin : cx' = [cx EXCEPT ![d] = Ending(fin)]
        \/ cx' = [cx EXCEPT ![d].rows = Len(attempts)]
    BY <1>2, ZenonT(20) DEF Ensure
  <2> QED BY <1>c, <2>1, NoCalls DEF CallOrNone, Context
<1>3. CASE AgentFinishes(d) \/ CloseAttempt(d) \/ Expire(d)
  <2>1. \/ \E i : cx' = [cx EXCEPT ![d] = Asking(i)]
        \/ cx' = [cx EXCEPT ![d] = NoContext]
        \/ \E fin : cx' = [cx EXCEPT ![d] = Ending(fin)]
    BY <1>3 DEF AgentFinishes, CloseAttempt, Expire
  <2> QED BY <1>c, <2>1, NoCalls DEF CallOrNone
<1> QED BY <1>1, <1>2, <1>3

LEMMA AttemptCall ==
    ASSUME NEW d \in Drivers, TypeInv,
           \/ Step(d) \/ AgentSays(d) \/ AgentReads(d) \/ MayDispatch(d)
           \/ MarkEffectDispatched(d) \/ Perform(d) \/ CommitEffect(d)
           \/ PerformFails(d) \/ PerformOutcomeUnknown(d)
    PROVE  CallOrNone(d)
<1>c. cx \in [Drivers -> Context] /\ cx[d] \in Context
    BY DEF TypeInv, TypeOK
<1>1. CASE AgentSays(d) \/ MarkEffectDispatched(d) \/ Perform(d)
    BY <1>1 DEF AgentSays, MarkEffectDispatched, Perform, CallOrNone
<1>2. CASE CommitEffect(d) \/ PerformFails(d) \/ PerformOutcomeUnknown(d)
  <2>1. cx' = [cx EXCEPT ![d].call = NoCall]
    BY <1>2 DEF CommitEffect, PerformFails, PerformOutcomeUnknown, AfterPerform
  <2> QED BY <1>c, <2>1 DEF CallOrNone, Context
<1>3. CASE Step(d) \/ AgentReads(d)
  <2>1. \/ UNCHANGED cx \/ cx' = [cx EXCEPT ![d] = NoContext]
        \/ cx' = [cx EXCEPT ![d].out = "cancelled"]
        \/ cx' = [cx EXCEPT ![d].steps = cx[d].steps + 1]
    BY <1>3 DEF Step, AgentReads
  <2> QED BY <1>c, <2>1, NoCalls DEF CallOrNone, Context
<1>4. CASE MayDispatch(d)
  <2>1. \/ UNCHANGED cx \/ cx' = [cx EXCEPT ![d] = NoContext]
        \/ cx' = [cx EXCEPT ![d].call = NoCall]
        \/ cx' = [cx EXCEPT ![d] = [cx[d] EXCEPT !.out = "cancelled", !.ask = 0,
                                                 !.call = NoCall]]
    BY <1>4 DEF MayDispatch, EndWith
  <2> DEFINE c == [cx[d] EXCEPT !.out = "cancelled", !.ask = 0, !.call = NoCall]
             u == [cx[d] EXCEPT !.call = NoCall]
  <2>2. c.call = NoCall /\ u.call = NoCall
    BY <1>c DEF Context
  <2>3. \/ UNCHANGED cx \/ cx' = [cx EXCEPT ![d] = NoContext]
        \/ cx' = [cx EXCEPT ![d] = u] \/ cx' = [cx EXCEPT ![d] = c]
    BY <2>1
  <2> HIDE DEF c, u
  <2> QED BY <1>c, <2>2, <2>3, NoCalls DEF CallOrNone
<1> QED BY <1>1, <1>2, <1>3, <1>4

\* Follow hands the call on, with the row it has now.
LEMMA FollowCall ==
    ASSUME NEW d \in Drivers, TypeInv, NEW k, NEW row, NEW call \in Call,
           Follow(d, k, row, call)
    PROVE  /\ pc'[d] \in {"step", "ended"} => cx'[d].call = NoCall
           /\ pc'[d] \notin {"step", "ended"} =>
                cx'[d].call = [call EXCEPT !.row = row]
           /\ pc'[d] = Dispose(k, row)
           /\ cx'[d].rows = cx[d].rows
<1>c. cx \in [Drivers -> Context] /\ cx[d] \in Context
    BY DEF TypeInv, TypeOK
<1> DEFINE next == Dispose(k, row)
           now  == [call EXCEPT !.row = row]
           c    == [cx[d] EXCEPT !.call = now]
<1>1. pc'[d] = next
    BY DEF Follow, Goto, TypeInv, TypeOK
<1>2. CASE next = "step"
  <2>1. cx' = [cx EXCEPT ![d] = [cx[d] EXCEPT !.call = NoCall]]
    BY <1>2 DEF Follow
  <2> QED BY <1>c, <1>1, <1>2, <2>1 DEF Context
<1>3. CASE next = "ended"
  <2>1. cx' = [cx EXCEPT ![d] = [cx[d] EXCEPT !.call = NoCall, !.out = "expired", !.ask = 0]]
    BY <1>3 DEF Follow
  <2> QED BY <1>c, <1>1, <1>3, <2>1 DEF Context
<1>4. CASE next \notin {"step", "ended"}
  <2>1. cx' = [cx EXCEPT ![d] = c]
    BY <1>4 DEF Follow
  <2> HIDE DEF now
  <2>2. c.call = now /\ c.rows = cx[d].rows
    BY <1>c DEF Context
  <2> HIDE DEF c
  <2>3. cx'[d] = c
    BY <1>c, <2>1
  <2>4. cx'[d].call = now /\ cx'[d].rows = cx[d].rows
    BY <2>2, <2>3
  <2> QED BY <1>1, <1>4, <2>4 DEF now
<1> QED BY <1>2, <1>3, <1>4

\* A call that goes on was late before, or is requested with a cancel on record.
LEMMA CallLate ==
    ASSUME NEW d \in Drivers, TypeInv,
           Settle(d) \/ ReopenFailed(d) \/ AgentCalls(d)
    PROVE  cx'[d].call.late => cx[d].call.late \/ run.cancel
<1>c. cx \in [Drivers -> Context] /\ cx[d] \in Context /\ cx[d].call \in Call
    BY DEF TypeInv, TypeOK, Context
<1>1. ASSUME NEW k, NEW row, NEW call \in Call, Follow(d, k, row, call)
      PROVE  cx'[d].call.late => call.late
  <2> DEFINE now == [call EXCEPT !.row = row]
  <2>1. now.late = call.late
    BY DEF Call
  <2>2. cx'[d].call = NoCall \/ cx'[d].call = now
    BY <1>1, FollowCall
  <2> HIDE DEF now
  <2> QED BY <2>1, <2>2, NoCalls
<1>2. CASE Settle(d)
  <2>1. CASE cx' = [cx EXCEPT ![d].call = NoCall]
    BY <1>c, <2>1, NoCalls DEF Context
  <2> QED BY <1>1, <1>2, <1>c, <2>1 DEF Settle
<1>3. CASE ReopenFailed(d)
    BY <1>1, <1>3, <1>c DEF ReopenFailed
<1>4. CASE AgentCalls(d)
  <2> PICK k \in Keys : \E a \in ArgsOf[k] :
        Follow(d, k, Intend(effects[k], a), Requested(k, a))
    BY <1>4 DEF AgentCalls
  <2> PICK a \in ArgsOf[k] : Follow(d, k, Intend(effects[k], a), Requested(k, a))
    OBVIOUS
  <2>1. Requested(k, a) \in Call /\ Requested(k, a).late = run.cancel
    <3>1. a \in Args /\ run.cancel \in BOOLEAN
        BY KeysAssumption DEF TypeInv, TypeOK, TablesOK, RunRow
    <3> QED BY <3>1, NoCalls DEF Requested, Call, NoCall
  <2> QED BY <1>1, <2>1
<1> QED BY <1>2, <1>3, <1>4

\* Looking up and asking do not make a call later than it is.
LEMMA LookLate ==
    ASSUME NEW d \in Drivers, TypeInv, ReconcileNext(d) \/ LookUp(d) \/ Gate(d)
    PROVE  cx'[d].call.late => cx[d].call.late \/ run.cancel
<1>c. cx \in [Drivers -> Context] /\ cx[d] \in Context /\ cx[d].call \in Call
    BY DEF TypeInv, TypeOK, Context
<1>1. CASE ReconcileNext(d)
  <2>1. ASSUME NEW k, cx' = [cx EXCEPT ![d] = LookingUp(cx[d], k)]
        PROVE  ~cx'[d].call.late
    <3> DEFINE call == [NoCall EXCEPT !.from = "recovery", !.key = k]
               c == [cx[d] EXCEPT !.todo = cx[d].todo \ {k}, !.call = call]
    <3>1. cx' = [cx EXCEPT ![d] = c]
        BY <2>1 DEF LookingUp
    <3>2. ~call.late
        BY DEF NoCall
    <3> HIDE DEF call
    <3>3. c.call = call
        BY <1>c DEF Context
    <3> HIDE DEF c
    <3> QED BY <1>c, <3>1, <3>2, <3>3
  <2>2. UNCHANGED cx \/ \E k : cx' = [cx EXCEPT ![d] = LookingUp(cx[d], k)]
    BY <1>1 DEF ReconcileNext
  <2> QED BY <2>1, <2>2
<1>2. CASE LookUp(d)
  <2> PICK v : cx' = [cx EXCEPT ![d].call.verdict = v]
    BY <1>2 DEF LookUp
  <2> DEFINE call == [cx[d].call EXCEPT !.verdict = v]
             c == [cx[d] EXCEPT !.call = call]
  <2>1. cx' = [cx EXCEPT ![d] = c] /\ call.late = cx[d].call.late
    BY <1>c DEF Call
  <2> HIDE DEF call
  <2>2. c.call = call
    BY <1>c DEF Context
  <2> HIDE DEF c
  <2> QED BY <1>c, <2>1, <2>2
<1>3. CASE Gate(d)
  <2>1. \/ \E out, i : EndWith(d, out, i)
        \/ \E i : cx' = [cx EXCEPT ![d].call.approval = i]
        \/ cx' = [cx EXCEPT ![d].call = NoCall]
    BY <1>3 DEF Gate
  <2>2. ASSUME NEW out, NEW i, EndWith(d, out, i) PROVE ~cx'[d].call.late
    <3> DEFINE c == [cx[d] EXCEPT !.out = out, !.ask = i, !.call = NoCall]
    <3>1. cx' = [cx EXCEPT ![d] = c] /\ c.call = NoCall
        BY <1>c, <2>2 DEF EndWith, Context
    <3> HIDE DEF c
    <3> QED BY <1>c, <3>1, NoCalls
  <2>3. ASSUME NEW i, cx' = [cx EXCEPT ![d].call.approval = i]
        PROVE  cx'[d].call.late => cx[d].call.late
    <3> DEFINE call == [cx[d].call EXCEPT !.approval = i]
               c == [cx[d] EXCEPT !.call = call]
    <3>1. cx' = [cx EXCEPT ![d] = c] /\ call.late = cx[d].call.late
        BY <1>c, <2>3 DEF Call
    <3> HIDE DEF call
    <3>2. c.call = call
        BY <1>c DEF Context
    <3> HIDE DEF c
    <3> QED BY <1>c, <3>1, <3>2
  <2>4. CASE cx' = [cx EXCEPT ![d].call = NoCall]
    BY <1>c, <2>4, NoCalls DEF Context
  <2> QED BY <2>1, <2>2, <2>3, <2>4
<1> QED BY <1>1, <1>2, <1>3

\* The last check before the external call refuses a late one.
LEMMA MayDispatchLate ==
    ASSUME NEW d \in Drivers, TypeInv, LateInv, MayDispatch(d) \/ MarkEffectDispatched(d)
    PROVE  pc'[d] \in {"mark", "perform"} => ~cx'[d].call.late
<1>1. CASE MayDispatch(d)
  <2>1. \/ \E l \in {"step", "ended", "idle"} : pc' = [pc EXCEPT ![d] = l]
        \/ ~run.cancel /\ UNCHANGED cx
    BY <1>1 DEF MayDispatch, EndWith, Goto
  <2> QED BY <2>1 DEF LateInv, LateCalls, TypeInv, TypeOK
<1>2. CASE MarkEffectDispatched(d)
    BY <1>2 DEF MarkEffectDispatched, LateInv, LateCalls
<1> QED BY <1>1, <1>2

\* What ends an attempt, or is done between attempts, leaves the call.
LEMMA LeaveCall ==
    ASSUME NEW d \in Drivers, TypeInv,
           \/ ReadRun(d) \/ Ensure(d) \/ AttemptFails(d) \/ CloseAttempt(d)
           \/ ScheduleRetry(d) \/ Park(d) \/ Expire(d) \/ Finalize(d)
    PROVE  /\ UNCHANGED world
           /\ pc'[d] \notin InCall \cup {"agent", "step"}
<1>1. UNCHANGED world
    BY DEF ReadRun, Ensure, AttemptFails, EndWithError, CloseAttempt, ScheduleRetry, Park,
       Expire, Finalize
<1>2. \E l \in {"release", "finalize", "recover", "ensure", "expire", "park", "sleep",
                "start", "retry", "loop"} : pc' = [pc EXCEPT ![d] = l]
  <2>1. CASE Ensure(d)
    <3>1. \/ pc' = [pc EXCEPT ![d] = "expire"] \/ pc' = [pc EXCEPT ![d] = "park"]
          \/ pc' = [pc EXCEPT ![d] = "sleep"] \/ pc' = [pc EXCEPT ![d] = "release"]
          \/ pc' = [pc EXCEPT ![d] = "start"] \/ pc' = [pc EXCEPT ![d] = "finalize"]
        BY <2>1, ZenonT(20) DEF Ensure, Goto
    <3> QED BY <3>1
  <2>2. CASE AttemptFails(d)
    BY <2>2 DEF AttemptFails, EndWithError, Goto
  <2>3. CASE \/ ReadRun(d) \/ CloseAttempt(d) \/ ScheduleRetry(d) \/ Park(d)
             \/ Expire(d) \/ Finalize(d)
    BY <2>3 DEF ReadRun, CloseAttempt, ScheduleRetry, Park, Expire, Finalize, Goto
  <2> QED BY <2>1, <2>2, <2>3
<1> QED BY <1>1, <1>2 DEF TypeInv, TypeOK, InCall

LEMMA LateInit == Init => LateInv
    BY NoCalls DEF Init, LateInv, LateCalls, NoEffectAfterCancel

LEMMA LateStep == TypeInv /\ LateInv /\ [Next]_vars => LateInv'
<1> SUFFICES ASSUME TypeInv, LateInv, [Next]_vars PROVE LateInv'
    OBVIOUS
<1>c. run.cancel => run'.cancel
    BY CancelStays
<1>1. ASSUME NEW d \in Drivers, UNCHANGED world,
             \A e \in Drivers \ {d} : pc'[e] = pc[e] /\ cx'[e] = cx[e],
             pc'[d] \notin {"mark", "perform"},
             CallOrNone(d) \/ (cx'[d].call.late => cx[d].call.late \/ run.cancel)
      PROVE  LateInv'
    BY <1>c, <1>1, NoCalls, CallKeptLate DEF CallKept, CallOrNone
<1>2. ASSUME NEW d \in Drivers, AcquireLease(d) PROVE LateInv'
  <2>1. \A e \in Drivers \ {d} : pc'[e] = pc[e] /\ cx'[e] = cx[e]
    BY <1>2 DEF AcquireLease, Goto, TypeInv, TypeOK
  <2> QED BY <1>1, <1>2, <2>1, DriveGoes, DriveCall
<1>3. ASSUME NEW d \in Drivers, DriveSteps(d) \/ Crash(d) PROVE LateInv'
  <2>0. \A e \in Drivers \ {d} : pc'[e] = pc[e] /\ cx'[e] = cx[e]
    BY <1>3, StepMoves DEF Moves
  <2>1. CASE \/ ReleaseLease(d) \/ Recover(d) \/ WakeUp(d) \/ StartAttempt(d) \/ Crash(d)
    BY <1>1, <2>0, <2>1, DriveGoes, DriveCall
  <2>2. CASE ReconcileNext(d) \/ LookUp(d)
    BY <1>1, <2>0, <2>2, DriveGoes, LookLate
  <2>3. CASE Settle(d) \/ ReopenFailed(d) \/ AgentCalls(d)
    BY <1>1, <2>0, <2>3, CallGoes, CallLate
  <2>4. CASE \/ Step(d) \/ AgentSays(d) \/ AgentReads(d) \/ CommitEffect(d)
             \/ PerformFails(d) \/ PerformOutcomeUnknown(d) \/ AgentFinishes(d)
    <3>1. UNCHANGED world
        BY <2>4 DEF Step, AgentSays, AgentReads, CommitEffect, PerformFails,
           PerformOutcomeUnknown, AfterPerform, AgentFinishes
    <3>2. \E l \in {"ended", "agent", "step", "idle", "finalize"} :
            pc' = [pc EXCEPT ![d] = l]
        BY <2>4 DEF Step, AgentSays, AgentReads, CommitEffect, PerformFails,
           PerformOutcomeUnknown, AfterPerform, AgentFinishes, Goto
    <3>3. pc'[d] \notin {"mark", "perform"}
        BY <3>2 DEF TypeInv, TypeOK
    <3> QED BY <1>1, <2>0, <2>4, <3>1, <3>3, AttemptCall, EndCall
  <2>5. CASE Gate(d)
    <3>1. UNCHANGED world
        BY <2>5 DEF Gate
    <3>2. \E l \in {"ended", "check", "step"} : pc' = [pc EXCEPT ![d] = l]
        BY <2>5 DEF Gate, EndWith, Goto
    <3>3. pc'[d] \notin {"mark", "perform"}
        BY <3>2 DEF TypeInv, TypeOK
    <3> QED BY <1>1, <2>0, <2>5, <3>1, <3>3, LookLate
  <2>6. CASE MayDispatch(d) \/ MarkEffectDispatched(d)
    <3>1. UNCHANGED world
        BY <2>6 DEF MayDispatch, MarkEffectDispatched
    <3>2. CallOrNone(d)
        BY <2>6, AttemptCall
    <3>3. LateCalls'
        BY <1>c, <2>0, <2>6, <3>2, MayDispatchLate, NoCalls
           DEF LateInv, LateCalls, CallOrNone
    <3> QED BY <3>1, <3>3 DEF LateInv, NoEffectAfterCancel
  <2>7. CASE Perform(d)
    <3>1. ~cx[d].call.late /\ pc' = [pc EXCEPT ![d] = "performed"] /\ UNCHANGED cx
        BY <2>7 DEF Perform, Goto, LateInv, LateCalls
    <3>2. LateCalls'
        BY <1>c, <3>1 DEF LateInv, LateCalls, TypeInv, TypeOK
    <3> DEFINE new == [key |-> cx[d].call.key, args |-> cx[d].call.args,
                       approval |-> cx[d].call.approval, late |-> cx[d].call.late]
    <3>3. world' = Append(world, new) /\ ~new.late
        BY <2>7, <3>1 DEF Perform
    <3> HIDE DEF new
    <3>4. world \in Seq(Performance)
        BY DEF TypeInv, TypeOK, TablesOK
    <3>5. \A i \in DOMAIN world' : world'[i] = new \/ (i \in DOMAIN world /\ world'[i] = world[i])
        BY <3>3, <3>4
    <3>6. NoEffectAfterCancel'
        BY <3>3, <3>5 DEF LateInv, NoEffectAfterCancel
    <3> QED BY <3>2, <3>6 DEF LateInv
  <2>8. CASE \/ ReadRun(d) \/ Ensure(d) \/ AttemptFails(d) \/ CloseAttempt(d)
             \/ ScheduleRetry(d) \/ Park(d) \/ Expire(d) \/ Finalize(d)
    BY <1>1, <2>0, <2>8, LeaveCall, DriveCall, EndCall DEF InCall
  <2> QED BY <1>3, <2>1, <2>2, <2>3, <2>4, <2>5, <2>6, <2>7, <2>8 DEF DriveSteps
<1>4. ASSUME Environment \/ (\E d \in Drivers : RenewLease(d)) \/ UNCHANGED vars
      PROVE  LateInv'
  <2>1. UNCHANGED <<pc, cx, world>>
    BY <1>4, OutsideMoves
  <2> QED BY <1>c, <2>1 DEF LateInv, LateCalls, NoEffectAfterCancel
<1> QED BY <1>2, <1>3, <1>4 DEF Next, Finished

\* G11: a tool call the agent makes once a cancel is on record takes no effect,
\* whoever recorded it and whichever driver, with a lapsed lease or not, makes it.
THEOREM CancelHolds == Spec => []NoEffectAfterCancel
<1>1. LateInv => NoEffectAfterCancel
    BY DEF LateInv
<1> QED BY <1>1, TypeInvariant, LateInit, LateStep, PTL DEF Spec

-----------------------------------------------------------------------------
(* A sealed run stays as it was sealed *)

\* Whoever drives a sealed run is on its way out.
SealedInv ==
    /\ run.sealed => \A d \in Drivers : pc[d] \in {"idle", "release"}
    /\ SealedIsFinal

\* On its way out, a driver gives back its lease or dies.
LEMMA OnTheWayOut ==
    ASSUME NEW d \in Drivers, DriveSteps(d) \/ Crash(d), pc[d] \in {"idle", "release"}
    PROVE  ReleaseLease(d) \/ Crash(d)
<1>1. \/ ReleaseLease(d) \/ ReadRun(d) \/ Recover(d) \/ ReconcileNext(d) \/ LookUp(d)
      \/ Settle(d) \/ Ensure(d) \/ WakeUp(d) \/ StartAttempt(d) \/ Step(d)
      \/ AgentSays(d) \/ AgentReads(d) \/ AgentFinishes(d) \/ AgentCalls(d) \/ Crash(d)
    BY DEF DriveSteps, ReopenFailed, Gate, MayDispatch, MarkEffectDispatched, Perform,
       CommitEffect, PerformFails, PerformOutcomeUnknown, AttemptFails, CloseAttempt,
       ScheduleRetry, Park, Expire, Finalize
<1> QED BY <1>1 DEF ReadRun, Recover, ReconcileNext, LookUp, Settle, Ensure, WakeUp,
       StartAttempt, Step, AgentSays, AgentReads, AgentFinishes, AgentCalls

\* Only finalizeRunSync seals.
LEMMA OnlyFinalizeSeals ==
    ASSUME NEW d \in Drivers, TypeInv,
           DriveSteps(d) \/ Crash(d) \/ AcquireLease(d) \/ RenewLease(d), ~Finalize(d)
    PROVE  run'.sealed = run.sealed
<1>1. CASE \/ ReleaseLease(d) \/ Recover(d) \/ ReconcileNext(d) \/ LookUp(d)
           \/ WakeUp(d) \/ Crash(d) \/ AcquireLease(d) \/ RenewLease(d)
    BY <1>1 DEF ReleaseLease, Recover, ReconcileNext, LookUp, WakeUp, Crash, AcquireLease,
       RenewLease
<1>2. CASE Settle(d) \/ ReopenFailed(d) \/ AgentCalls(d)
    BY <1>2, CallGoes
<1>3. CASE \/ Step(d) \/ AgentSays(d) \/ AgentReads(d) \/ Gate(d) \/ MayDispatch(d)
           \/ MarkEffectDispatched(d) \/ Perform(d) \/ CommitEffect(d)
           \/ PerformFails(d) \/ PerformOutcomeUnknown(d)
    BY <1>3, AttemptGoes
<1>4. CASE \/ ReadRun(d) \/ Ensure(d) \/ AgentFinishes(d) \/ AttemptFails(d)
           \/ CloseAttempt(d)
    BY <1>4, EndGoes
<1>5. CASE StartAttempt(d) \/ ScheduleRetry(d) \/ Park(d) \/ Expire(d)
    BY <1>5 DEF StartAttempt, ScheduleRetry, Park, Expire, TypeInv, TypeOK, TablesOK, RunRow
<1> QED BY <1>1, <1>2, <1>3, <1>4, <1>5 DEF DriveSteps

\* The seal holds what it was given.
LEMMA FinalizeSeals ==
    ASSUME NEW d \in Drivers, TypeInv, OneDriver, FinishInv, SealedInv, Finalize(d)
    PROVE  /\ SealedInv'
           /\ ~run.sealed /\ run'.sealed /\ run'.state \in TerminalStates
           /\ UNCHANGED <<attempts, effects, approvals, world>>
<1> DEFINE fin == cx[d].fin
           record == [state |-> fin.state, reason |-> fin.reason, attempts |-> attempts,
                      effects |-> effects, approvals |-> approvals]
<1>1. ~run.sealed /\ fin.state \in TerminalStates
    BY DEF SealedInv, FinishInv, FinalStates, Finalize
<1>2. /\ run' = [run EXCEPT !.state = fin.state, !.reason = fin.reason,
                            !.backoff = FALSE, !.sealed = TRUE]
      /\ audit' = <<record>>
      /\ UNCHANGED <<attempts, effects, approvals, world>>
    BY <1>1 DEF Finalize, AlreadySealed
<1>3. run'.sealed /\ run'.state = fin.state /\ run'.reason = fin.reason
    BY <1>2 DEF TypeInv, TypeOK, TablesOK, RunRow
<1>4. /\ audit'[1].state = fin.state /\ audit'[1].reason = fin.reason
      /\ audit'[1].attempts = attempts /\ audit'[1].effects = effects
    BY <1>2
<1>5. \A e \in Drivers : pc'[e] \in {"idle", "release"}
  <2>1. \A e \in Drivers \ {d} : pc'[e] = "idle"
    BY Alone, DriveMoves DEF LeavesLease
  <2> QED BY <2>1 DEF Finalize, Goto, TypeInv, TypeOK
<1>6. SealedIsFinal'
    BY <1>1, <1>2, <1>3, <1>4 DEF SealedIsFinal
<1> HIDE DEF fin
<1> QED BY <1>1, <1>2, <1>3, <1>5, <1>6 DEF SealedInv

LEMMA SealedStep ==
    ASSUME TypeInv, FinishInv, OneDriver, SealedInv, [Next]_vars, Quiet'
    PROVE  SealedInv'
<1>1. ASSUME run'.sealed = run.sealed,
             run.sealed =>
                /\ \A e \in Drivers : pc'[e] \in {"idle", "release"}
                /\ run'.state = run.state /\ run'.reason = run.reason
                /\ UNCHANGED <<audit, attempts, effects>>
      PROVE  SealedInv'
    BY <1>1 DEF SealedInv, SealedIsFinal
<1>2. ASSUME NEW d \in Drivers, AcquireLease(d) PROVE SealedInv'
  <2>1. ~run.sealed
    BY <1>2 DEF AcquireLease, ActiveStates, TerminalStates, SealedInv, SealedIsFinal
  <2> QED BY <1>1, <1>2, <2>1 DEF AcquireLease
<1>3. ASSUME NEW d \in Drivers, DriveSteps(d) \/ Crash(d) PROVE SealedInv'
  <2>1. CASE Finalize(d)
    BY <2>1, FinalizeSeals
  <2>2. CASE ~Finalize(d)
    <3>1. run'.sealed = run.sealed
        BY <1>3, <2>2, OnlyFinalizeSeals
    <3>2. ASSUME run.sealed
          PROVE  /\ \A e \in Drivers : pc'[e] \in {"idle", "release"}
                 /\ UNCHANGED <<run, audit, attempts, effects>>
      <4>1. ReleaseLease(d) \/ Crash(d)
        BY <1>3, <3>2, OnTheWayOut DEF SealedInv
      <4>2. UNCHANGED <<run, audit, attempts, effects>> /\ pc' = [pc EXCEPT ![d] = "idle"]
        BY <4>1 DEF ReleaseLease, Crash, Goto
      <4> QED BY <3>2, <4>2 DEF SealedInv, TypeInv, TypeOK
    <3> QED BY <1>1, <3>1, <3>2
  <2> QED BY <2>1, <2>2
<1>4. ASSUME Environment \/ (\E d \in Drivers : RenewLease(d)) \/ UNCHANGED vars
      PROVE  SealedInv'
  <2>1. UNCHANGED <<pc, audit, attempts, effects>>
    BY <1>4, OutsideMoves
  <2>2. run'.sealed = run.sealed /\ run'.state = run.state /\ run'.reason = run.reason
    BY <1>4 DEF Environment, RequestCancel, BackoffElapses, LeaseLapses, ApprovalTimeout,
       DecideApproval, RenewLease, vars, TypeInv, TypeOK, TablesOK, RunRow
  <2> QED BY <1>1, <2>1, <2>2 DEF SealedInv
<1> QED BY <1>2, <1>3, <1>4 DEF Next, Finished

-----------------------------------------------------------------------------
(* The attempts are bounded *)

\* An attempt that runs has not ended; the driver in an attempt works on a row
\* that has not ended; and where an attempt may start, one more fits.
RunningOpen ==
    \A n \in DOMAIN attempts : attempts[n].state = "running" => attempts[n].endReason = "none"

InAttempt(d) ==
    \/ pc[d] \in {"recover", "step", "agent", "ended"}
    \/ pc[d] \in InCall /\ cx[d].call.from = "agent"

OpenRow(d) == cx[d].rows \in DOMAIN attempts => attempts[cx[d].rows].endReason = "none"

AttemptsInv ==
    /\ RunningOpen
    /\ Cardinality(Counted(attempts)) <= MaxAttempts
    /\ \A d \in Drivers :
        /\ InAttempt(d) => OpenRow(d)
        /\ pc[d] = "start" => Cardinality(Counted(attempts)) < MaxAttempts

\* The attempts that count are finitely many.
LEMMA CountedFinite ==
    ASSUME NEW rows, rows \in Seq(AttemptRow)
    PROVE  IsFiniteSet(Counted(rows)) /\ Cardinality(Counted(rows)) \in Nat
<1>1. DOMAIN rows = 1..Len(rows) /\ Len(rows) \in Nat
    BY LenProperties
<1>2. Counted(rows) \subseteq 1..Len(rows) /\ IsFiniteSet(1..Len(rows))
    BY <1>1, FS_Interval DEF Counted
<1> QED BY <1>2, FS_Subset, FS_CardinalityType

\* Ending an open row, whatever the reason, counts no attempt more.
LEMMA EndCounts ==
    ASSUME TypeInv, AttemptsInv, NEW n, NEW row \in AttemptRow, row.state # "running",
           n \in DOMAIN attempts => attempts[n].endReason = "none",
           attempts' = [attempts EXCEPT ![n] = row]
    PROVE  /\ RunningOpen'
           /\ Cardinality(Counted(attempts')) <= Cardinality(Counted(attempts))
           /\ Cardinality(Counted(attempts')) <= MaxAttempts
<1>1. /\ attempts \in Seq(AttemptRow) /\ attempts' \in Seq(AttemptRow)
      /\ DOMAIN attempts' = DOMAIN attempts
    BY ExceptInSeq DEF TypeInv, TypeOK, TablesOK
<1>2. \A m \in DOMAIN attempts : attempts'[m] = IF m = n THEN row ELSE attempts[m]
    BY <1>1
<1>3. RunningOpen'
    BY <1>1, <1>2 DEF AttemptsInv, RunningOpen
<1>4. Counted(attempts') \subseteq Counted(attempts)
    BY <1>1, <1>2 DEF Counted
<1>5. /\ Cardinality(Counted(attempts')) <= Cardinality(Counted(attempts))
      /\ Cardinality(Counted(attempts)) \in Nat /\ Cardinality(Counted(attempts')) \in Nat
    BY <1>1, <1>4, CountedFinite, FS_Subset
<1> QED BY <1>3, <1>5, BoundsAssumption DEF AttemptsInv

\* A step that changes no attempt and starts none keeps the bound.
LEMMA SameAttempts ==
    ASSUME OneDriver, AttemptsInv, NEW d \in Drivers, Moves(d), UNCHANGED attempts,
           pc'[d] # "start" \/ Cardinality(Counted(attempts)) < MaxAttempts,
           InAttempt(d)' => OpenRow(d)'
    PROVE  AttemptsInv'
<1>1. \A e \in Drivers \ {d} : pc'[e] = "idle"
    BY Alone
<1>2. RunningOpen' /\ Cardinality(Counted(attempts')) = Cardinality(Counted(attempts))
    BY DEF AttemptsInv, RunningOpen
<1>3. ASSUME NEW e \in Drivers
      PROVE  /\ InAttempt(e)' => OpenRow(e)'
             /\ pc'[e] = "start" => Cardinality(Counted(attempts')) < MaxAttempts
    BY <1>1, <1>2 DEF InAttempt, InCall
<1> QED BY <1>2, <1>3 DEF AttemptsInv

\* A step that ends an attempt, or finds that it was interrupted, and then leaves it.
LEMMA EndedAttempts ==
    ASSUME TypeInv, OneDriver, AttemptsInv, NEW d \in Drivers, Moves(d), InAttempt(d),
           NEW row \in AttemptRow, row.state # "running",
           attempts' = [attempts EXCEPT ![cx[d].rows] = row],
           pc'[d] # "start", ~InAttempt(d)'
    PROVE  AttemptsInv'
<1>1. \A e \in Drivers \ {d} : pc'[e] = "idle"
    BY Alone
<1>2. RunningOpen' /\ Cardinality(Counted(attempts')) <= MaxAttempts
    BY EndCounts DEF AttemptsInv, OpenRow
<1>3. ASSUME NEW e \in Drivers PROVE ~InAttempt(e)' /\ pc'[e] # "start"
    BY <1>1 DEF InAttempt, InCall
<1> QED BY <1>2, <1>3 DEF AttemptsInv

\* What a driver does inside an attempt keeps the number of its row.
LEMMA RowsKept ==
    ASSUME NEW d \in Drivers, TypeInv,
           \/ Step(d) \/ AgentSays(d) \/ AgentReads(d) \/ Gate(d) \/ MayDispatch(d)
           \/ MarkEffectDispatched(d) \/ Perform(d) \/ CommitEffect(d)
           \/ PerformFails(d) \/ PerformOutcomeUnknown(d)
    PROVE  pc'[d] = "idle" \/ cx'[d].rows = cx[d].rows
<1>c. cx \in [Drivers -> Context] /\ cx[d] \in Context
    BY DEF TypeInv, TypeOK
<1>1. CASE AgentSays(d) \/ MarkEffectDispatched(d) \/ Perform(d)
    BY <1>1 DEF AgentSays, MarkEffectDispatched, Perform
<1>2. ASSUME NEW out, NEW i, EndWith(d, out, i) PROVE cx'[d].rows = cx[d].rows
  <2> DEFINE c == [cx[d] EXCEPT !.out = out, !.ask = i, !.call = NoCall]
  <2>1. cx' = [cx EXCEPT ![d] = c] /\ c.rows = cx[d].rows
    BY <1>c, <1>2 DEF EndWith, Context
  <2> HIDE DEF c
  <2> QED BY <1>c, <2>1
<1>3. CASE \/ UNCHANGED cx \/ cx' = [cx EXCEPT ![d].call = NoCall]
           \/ cx' = [cx EXCEPT ![d].out = "cancelled"]
           \/ cx' = [cx EXCEPT ![d].steps = cx[d].steps + 1]
    BY <1>c, <1>3 DEF Context
<1>4. ASSUME NEW i, cx' = [cx EXCEPT ![d].call.approval = i] PROVE cx'[d].rows = cx[d].rows
  <2> DEFINE call == [cx[d].call EXCEPT !.approval = i]
             c == [cx[d] EXCEPT !.call = call]
  <2>1. cx' = [cx EXCEPT ![d] = c]
    BY <1>4
  <2> HIDE DEF call
  <2>2. c.rows = cx[d].rows
    BY <1>c DEF Context
  <2> HIDE DEF c
  <2> QED BY <1>c, <2>1, <2>2
<1>5. CASE Step(d) \/ AgentReads(d)
  <2>1. \/ UNCHANGED cx \/ cx' = [cx EXCEPT ![d].out = "cancelled"]
        \/ cx' = [cx EXCEPT ![d].steps = cx[d].steps + 1]
        \/ pc' = [pc EXCEPT ![d] = "idle"]
    BY <1>5 DEF Step, AgentReads, Goto
  <2> QED BY <1>3, <2>1 DEF TypeInv, TypeOK
<1>6. CASE CommitEffect(d) \/ PerformFails(d) \/ PerformOutcomeUnknown(d)
    BY <1>3, <1>6 DEF CommitEffect, PerformFails, PerformOutcomeUnknown, AfterPerform
<1>7. CASE MayDispatch(d)
  <2>1. \/ UNCHANGED cx \/ cx' = [cx EXCEPT ![d].call = NoCall]
        \/ EndWith(d, "cancelled", 0) \/ pc' = [pc EXCEPT ![d] = "idle"]
    BY <1>7 DEF MayDispatch, Goto
  <2> QED BY <1>2, <1>3, <2>1 DEF TypeInv, TypeOK
<1>8. CASE Gate(d)
  <2>1. \/ \E out, i : EndWith(d, out, i)
        \/ \E i : cx' = [cx EXCEPT ![d].call.approval = i]
        \/ cx' = [cx EXCEPT ![d].call = NoCall]
    BY <1>8 DEF Gate
  <2> QED BY <1>2, <1>3, <1>4, <2>1
<1> QED BY <1>1, <1>5, <1>6, <1>7, <1>8

\* A driver in a call of the agent, or between calls, is in an attempt.
LEMMA AttemptFrom ==
    ASSUME NEW d \in Drivers, TypeInv,
           \/ Step(d) \/ AgentSays(d) \/ AgentReads(d) \/ Gate(d) \/ MayDispatch(d)
           \/ MarkEffectDispatched(d) \/ Perform(d) \/ CommitEffect(d)
           \/ PerformFails(d) \/ PerformOutcomeUnknown(d) \/ ReopenFailed(d)
           \/ AgentCalls(d) \/ AgentFinishes(d) \/ AttemptFails(d) \/ CloseAttempt(d)
           \/ Recover(d)
    PROVE  InAttempt(d)
<1>1. \/ pc[d] \in {"recover", "step", "agent", "ended"}
      \/ pc[d] \in {"reopen", "gate", "check", "mark", "perform", "performed"}
    BY DEF Step, AgentSays, AgentReads, Gate, MayDispatch, MarkEffectDispatched, Perform,
       CommitEffect, PerformFails, PerformOutcomeUnknown, ReopenFailed, AgentCalls,
       AgentFinishes, AttemptFails, EndWithError, CloseAttempt, Recover
<1>2. CASE pc[d] \in {"reopen", "gate", "check", "mark", "perform", "performed"}
    BY <1>2, InCallTypes DEF InAttempt, InCall
<1> QED BY <1>1, <1>2 DEF InAttempt

\* Steps inside an attempt.
LEMMA InsideAttempts ==
    ASSUME TypeInv, OneDriver, AttemptsInv, NEW d \in Drivers,
           \/ Step(d) \/ AgentSays(d) \/ AgentReads(d) \/ Gate(d) \/ MayDispatch(d)
           \/ MarkEffectDispatched(d) \/ Perform(d) \/ CommitEffect(d)
           \/ PerformFails(d) \/ PerformOutcomeUnknown(d)
    PROVE  AttemptsInv'
<1>1. Moves(d) /\ UNCHANGED attempts
    BY AttemptMoves, AttemptGoes DEF LeavesLease
<1>2. OpenRow(d)
    BY AttemptFrom DEF AttemptsInv
<1>3. pc'[d] # "start" /\ (InAttempt(d)' => OpenRow(d)')
    BY <1>1, <1>2, AttemptGoes, RowsKept DEF InAttempt, InCall, OpenRow
<1> QED BY <1>1, <1>3, SameAttempts

\* Steps that follow a call.
LEMMA CallAttempts ==
    ASSUME TypeInv, OneDriver, AttemptsInv, NEW d \in Drivers,
           Settle(d) \/ ReopenFailed(d) \/ AgentCalls(d)
    PROVE  AttemptsInv'
<1>c. cx \in [Drivers -> Context] /\ cx[d] \in Context /\ cx[d].call \in Call
    BY DEF TypeInv, TypeOK, Context
<1>1. Moves(d) /\ UNCHANGED attempts /\ pc'[d] # "start"
    BY CallMoves, CallGoes DEF LeavesLease
<1>2. CASE Settle(d) /\ cx[d].call.from = "recovery"
  <2>1. Goto(d, "reconcile")
    BY <1>2 DEF Settle
  <2>2. ~InAttempt(d)'
    BY <2>1 DEF Goto, InAttempt, InCall, TypeInv, TypeOK
  <2> QED BY <1>1, <2>2, SameAttempts
<1>3. CASE ReopenFailed(d) \/ AgentCalls(d) \/ (Settle(d) /\ cx[d].call.from = "agent")
  <2>1. InAttempt(d)
    BY <1>3, AttemptFrom DEF Settle, InAttempt, InCall
  <2>2. \E k, row : \E call \in Call : Follow(d, k, row, call)
    <3>1. CASE AgentCalls(d)
      <4>1. \A k \in Keys : \A a \in ArgsOf[k] : Requested(k, a) \in Call
        <5> TAKE k \in Keys
        <5> TAKE a \in ArgsOf[k]
        <5>1. a \in Args /\ run.cancel \in BOOLEAN
            BY KeysAssumption DEF TypeInv, TypeOK, TablesOK, RunRow
        <5> QED BY <5>1, NoCalls DEF Requested, Call
      <4> QED BY <3>1, <4>1 DEF AgentCalls
    <3>2. CASE ReopenFailed(d) \/ (Settle(d) /\ cx[d].call.from = "agent")
        BY <1>c, <3>2 DEF ReopenFailed, Settle
    <3> QED BY <1>3, <3>1, <3>2
  <2>3. cx'[d].rows = cx[d].rows
    BY <2>2, FollowCall
  <2>4. OpenRow(d)'
    BY <1>1, <2>1, <2>3 DEF AttemptsInv, OpenRow
  <2> QED BY <1>1, <2>4, SameAttempts
<1> QED BY <1>2, <1>3 DEF Settle

\* The transactions that end an attempt.
LEMMA EndAttempts ==
    ASSUME TypeInv, OneDriver, AttemptsInv, NEW d \in Drivers,
           AgentFinishes(d) \/ AttemptFails(d) \/ CloseAttempt(d) \/ Recover(d)
    PROVE  AttemptsInv'
<1> DEFINE n == cx[d].rows
<1>1. Moves(d) /\ InAttempt(d)
    BY DriveMoves, AttemptMoves, CallMoves, AttemptFrom DEF LeavesLease
<1>2. \E l \in {"finalize", "retry", "park", "expire", "reconcile"} :
        pc' = [pc EXCEPT ![d] = l]
    BY DEF AgentFinishes, AttemptFails, EndWithError, CloseAttempt, Recover, Goto
<1>3. pc'[d] # "start" /\ ~InAttempt(d)'
    BY <1>2 DEF InAttempt, InCall, TypeInv, TypeOK
<1>4. CASE n \in DOMAIN attempts
  <2>1. attempts[n] \in AttemptRow
    <3>1. attempts \in Seq(AttemptRow)
        BY DEF TypeInv, TypeOK, TablesOK
    <3> QED BY <1>4, <3>1, ElementOfSeq, LenProperties
  <2>2. \E row \in AttemptRow : row.state # "running" /\ attempts' = [attempts EXCEPT ![n] = row]
    <3>1. ASSUME NEW s \in {"timed_out", "failed", "completed"}, NEW r \in EndReasons,
                 EndAttempt(n, s, r)
          PROVE  \E row \in AttemptRow :
                    row.state # "running" /\ attempts' = [attempts EXCEPT ![n] = row]
      <4> DEFINE row == [attempts[n] EXCEPT !.state = s, !.endReason = r]
      <4>1. row \in AttemptRow /\ row.state # "running"
        BY <2>1 DEF AttemptRow
      <4>2. attempts' = [attempts EXCEPT ![n] = row]
        BY <3>1 DEF EndAttempt
      <4> HIDE DEF row
      <4> QED BY <4>1, <4>2
    <3>2. CASE AgentFinishes(d) \/ CloseAttempt(d)
      <4>1. {"completed", "approval_wait", "cancelled"} \subseteq EndReasons
        BY DEF EndReasons
      <4> QED BY <3>1, <3>2, <4>1 DEF AgentFinishes, CloseAttempt
    <3>3. CASE AttemptFails(d)
      <4> PICK kind \in ErrorKinds : \E retryable : EndWithError(d, kind, retryable)
        BY <3>3, FailuresAssumption DEF AttemptFails, ErrorKinds
      <4> PICK retryable : EndWithError(d, kind, retryable)
        OBVIOUS
      <4>1. EndReasonOf(kind) \in EndReasons
        BY DEF EndReasonOf, EndReasons, ErrorKinds
      <4>2. EndAttempt(n, IF kind = "timeout" THEN "timed_out" ELSE "failed", EndReasonOf(kind))
        BY DEF EndWithError
      <4> QED BY <3>1, <4>1, <4>2
    <3>4. CASE Recover(d)
      <4> PICK p \in Points : attempts' = [attempts EXCEPT ![n] = InterruptedAt(attempts[n], p)]
        BY <3>4 DEF Recover
      <4>1. InterruptedAt(attempts[n], p) \in AttemptRow
            /\ InterruptedAt(attempts[n], p).state # "running"
        BY <2>1 DEF InterruptedAt, AttemptRow, EndReasons
      <4> QED BY <4>1
    <3> QED BY <3>2, <3>3, <3>4
  <2> QED BY <1>1, <1>3, <2>2, EndedAttempts
<1>5. CASE n \notin DOMAIN attempts
  <2>1. \E row : attempts' = [attempts EXCEPT ![n] = row]
    BY DEF AgentFinishes, AttemptFails, EndWithError, CloseAttempt, Recover, EndAttempt
  <2>2. UNCHANGED attempts
    BY <1>5, <2>1 DEF TypeInv, TypeOK, TablesOK
  <2> QED BY <1>1, <1>3, <2>2, SameAttempts
<1> QED BY <1>4, <1>5

\* A driver that finds an attempt running works on that attempt.
LEMMA ReadRunAttempts ==
    ASSUME TypeInv, OneDriver, AttemptsInv, NEW d \in Drivers, ReadRun(d)
    PROVE  AttemptsInv'
<1> DEFINE c == [cx[d] EXCEPT !.run = [state |-> run.state, provider |-> run.provider],
                              !.rows = Len(attempts)]
<1>c. cx \in [Drivers -> Context] /\ cx[d] \in Context
    BY DEF TypeInv, TypeOK
<1>a. attempts \in Seq(AttemptRow) /\ DOMAIN attempts = 1..Len(attempts) /\ Len(attempts) \in Nat
    BY LenProperties DEF TypeInv, TypeOK, TablesOK
<1>1. Moves(d) /\ UNCHANGED attempts
    BY DriveMoves DEF LeavesLease, ReadRun
<1>2. \/ \E l \in {"release", "finalize", "ensure"} : pc' = [pc EXCEPT ![d] = l]
      \/ /\ pc' = [pc EXCEPT ![d] = "recover"] /\ cx' = [cx EXCEPT ![d] = c]
         /\ Len(attempts) > 0 /\ attempts[Len(attempts)].state = "running"
    BY DEF ReadRun, Goto
<1>3. c.rows = Len(attempts)
    BY <1>c DEF Context
<1> HIDE DEF c
<1>4. CASE \E l \in {"release", "finalize", "ensure"} : pc' = [pc EXCEPT ![d] = l]
  <2>1. pc'[d] # "start" /\ ~InAttempt(d)'
    BY <1>4 DEF InAttempt, InCall, TypeInv, TypeOK
  <2> QED BY <1>1, <2>1, SameAttempts
<1>5. CASE /\ pc' = [pc EXCEPT ![d] = "recover"] /\ cx' = [cx EXCEPT ![d] = c]
           /\ Len(attempts) > 0 /\ attempts[Len(attempts)].state = "running"
  <2>1. pc'[d] # "start" /\ cx'[d].rows = Len(attempts)
    BY <1>c, <1>3, <1>5 DEF TypeInv, TypeOK
  <2>2. attempts[Len(attempts)].endReason = "none"
    BY <1>a, <1>5 DEF AttemptsInv, RunningOpen
  <2>3. OpenRow(d)'
    BY <1>1, <2>1, <2>2 DEF OpenRow
  <2> QED BY <1>1, <2>1, <2>3, SameAttempts
<1> QED BY <1>2, <1>4, <1>5

\* One more attempt starts only when one more fits.
LEMMA EnsureAttempts ==
    ASSUME TypeInv, OneDriver, AttemptsInv, NEW d \in Drivers, Ensure(d)
    PROVE  AttemptsInv'
<1>1. Moves(d) /\ UNCHANGED attempts
    BY DriveMoves DEF LeavesLease, Ensure
<1>2. \/ pc' = [pc EXCEPT ![d] = "expire"] \/ pc' = [pc EXCEPT ![d] = "park"]
      \/ pc' = [pc EXCEPT ![d] = "sleep"] \/ pc' = [pc EXCEPT ![d] = "release"]
      \/ pc' = [pc EXCEPT ![d] = "finalize"]
      \/ pc' = [pc EXCEPT ![d] = "start"] /\ Cardinality(Counted(attempts)) < MaxAttempts
    BY ZenonT(20) DEF Ensure, Goto
<1>p. pc \in [Drivers -> Labels]
    BY DEF TypeInv, TypeOK
<1>3. \/ pc'[d] \in {"expire", "park", "sleep", "release", "finalize"}
      \/ pc'[d] = "start" /\ Cardinality(Counted(attempts)) < MaxAttempts
    BY <1>2, <1>p
<1>4. ~InAttempt(d)'
    BY <1>3 DEF InAttempt, InCall
<1> QED BY <1>1, <1>3, <1>4, SameAttempts

\* The new attempt is the one more.
LEMMA StartAttempts ==
    ASSUME TypeInv, OneDriver, AttemptsInv, NEW d \in Drivers, StartAttempt(d)
    PROVE  AttemptsInv'
<1> DEFINE row == [state |-> "running", endReason |-> "none", point |-> NoPoint]
           n   == Len(attempts) + 1
           c   == [cx[d] EXCEPT !.rows = Len(attempts) + 1, !.steps = 0]
<1>c. cx \in [Drivers -> Context] /\ cx[d] \in Context
    BY DEF TypeInv, TypeOK
<1>a. attempts \in Seq(AttemptRow) /\ DOMAIN attempts = 1..Len(attempts) /\ Len(attempts) \in Nat
    BY LenProperties DEF TypeInv, TypeOK, TablesOK
<1>1. Moves(d) /\ pc[d] = "start"
    BY DriveMoves DEF LeavesLease, StartAttempt
<1>2. CASE UNCHANGED attempts /\ pc' = [pc EXCEPT ![d] = "release"]
  <2>1. pc'[d] # "start" /\ ~InAttempt(d)'
    BY <1>2 DEF InAttempt, InCall, TypeInv, TypeOK
  <2> QED BY <1>1, <1>2, <2>1, SameAttempts
<1>3. CASE /\ attempts' = Append(attempts, row) /\ cx' = [cx EXCEPT ![d] = c]
           /\ pc' = [pc EXCEPT ![d] = "step"]
  <2>1. row \in AttemptRow /\ row.endReason = "none"
    BY DEF AttemptRow, EndReasons
  <2> HIDE DEF row
  <2>2. /\ attempts' \in Seq(AttemptRow) /\ Len(attempts') = n
        /\ \A m \in 1..Len(attempts) : attempts'[m] = attempts[m]
        /\ attempts'[n] = row
    BY <1>a, <1>3, <2>1, AppendProperties
  <2>3. DOMAIN attempts' = 1..n /\ \A m \in 1..n : m = n \/ m \in 1..Len(attempts)
    BY <1>a, <2>2, LenProperties
  <2>4. RunningOpen'
    BY <1>a, <2>1, <2>2, <2>3 DEF AttemptsInv, RunningOpen
  <2>5. Counted(attempts') \subseteq Counted(attempts) \cup {n}
    BY <1>a, <2>2, <2>3 DEF Counted
  <2>6. Cardinality(Counted(attempts) \cup {n}) <= Cardinality(Counted(attempts)) + 1
        /\ IsFiniteSet(Counted(attempts) \cup {n})
    <3> DEFINE S == Counted(attempts)
    <3>1. IsFiniteSet(S) /\ Cardinality(S) \in Nat
        BY <1>a, CountedFinite
    <3> HIDE DEF S, n
    <3>2. /\ IsFiniteSet(S \cup {n})
          /\ Cardinality(S \cup {n}) = IF n \in S THEN Cardinality(S) ELSE Cardinality(S) + 1
        BY <3>1, FS_AddElement
    <3> QED BY <3>1, <3>2 DEF S
  <2>7. Cardinality(Counted(attempts')) <= Cardinality(Counted(attempts) \cup {n})
        /\ Cardinality(Counted(attempts')) \in Nat
        /\ Cardinality(Counted(attempts) \cup {n}) \in Nat
    BY <2>2, <2>5, <2>6, CountedFinite, FS_Subset, FS_CardinalityType
  <2>8. Cardinality(Counted(attempts')) <= MaxAttempts
    BY <1>1, <1>a, <2>6, <2>7, CountedFinite, BoundsAssumption DEF AttemptsInv
  <2>9. c.rows = n
    BY <1>c DEF Context
  <2> HIDE DEF c
  <2>10. pc'[d] = "step" /\ cx'[d].rows = n
    BY <1>3, <1>c, <2>9 DEF TypeInv, TypeOK
  <2>11. OpenRow(d)'
    BY <2>1, <2>2, <2>10 DEF OpenRow
  <2>12. \A e \in Drivers \ {d} : pc'[e] = "idle"
    BY <1>1, Alone
  <2>13. ASSUME NEW e \in Drivers
         PROVE  (InAttempt(e)' => OpenRow(e)') /\ pc'[e] # "start"
    BY <2>10, <2>11, <2>12 DEF InAttempt, InCall
  <2> QED BY <2>4, <2>8, <2>13 DEF AttemptsInv
<1>4. \/ UNCHANGED attempts /\ pc' = [pc EXCEPT ![d] = "release"]
      \/ /\ attempts' = Append(attempts, row) /\ cx' = [cx EXCEPT ![d] = c]
         /\ pc' = [pc EXCEPT ![d] = "step"]
    BY DEF StartAttempt, Goto
<1> QED BY <1>2, <1>3, <1>4

\* Recovery looks up effects between attempts, the tool executor within one.
LEMMA LookAttempts ==
    ASSUME TypeInv, OneDriver, AttemptsInv, NEW d \in Drivers, ReconcileNext(d) \/ LookUp(d)
    PROVE  AttemptsInv'
<1>c. cx \in [Drivers -> Context] /\ cx[d] \in Context /\ cx[d].call \in Call
    BY DEF TypeInv, TypeOK, Context
<1>1. Moves(d) /\ UNCHANGED attempts
    BY DriveMoves DEF LeavesLease, ReconcileNext, LookUp
<1>2. CASE ReconcileNext(d)
  <2>1. ASSUME NEW k, cx' = [cx EXCEPT ![d] = LookingUp(cx[d], k)]
        PROVE  cx'[d].call.from = "recovery"
    <3> DEFINE call == [NoCall EXCEPT !.from = "recovery", !.key = k]
               c == [cx[d] EXCEPT !.todo = cx[d].todo \ {k}, !.call = call]
    <3>1. cx' = [cx EXCEPT ![d] = c]
        BY <2>1 DEF LookingUp
    <3>2. call.from = "recovery"
        BY DEF NoCall
    <3> HIDE DEF call
    <3>3. c.call = call
        BY <1>c DEF Context
    <3> HIDE DEF c
    <3> QED BY <1>c, <3>1, <3>2, <3>3
  <2>2. \/ pc' = [pc EXCEPT ![d] = "ensure"]
        \/ pc' = [pc EXCEPT ![d] = "look"] /\ \E k : cx' = [cx EXCEPT ![d] = LookingUp(cx[d], k)]
    BY <1>2 DEF ReconcileNext, Goto
  <2>3. pc'[d] # "start" /\ ~InAttempt(d)'
    BY <2>1, <2>2 DEF InAttempt, InCall, TypeInv, TypeOK
  <2> QED BY <1>1, <2>3, SameAttempts
<1>3. CASE LookUp(d)
  <2> PICK v : cx' = [cx EXCEPT ![d].call.verdict = v]
    BY <1>3 DEF LookUp
  <2> DEFINE call == [cx[d].call EXCEPT !.verdict = v]
             c == [cx[d] EXCEPT !.call = call]
  <2>1. cx' = [cx EXCEPT ![d] = c] /\ call.from = cx[d].call.from
    BY <1>c DEF Call
  <2> HIDE DEF call
  <2>2. c.call = call /\ c.rows = cx[d].rows
    BY <1>c DEF Context
  <2> HIDE DEF c
  <2>3. cx'[d].call.from = cx[d].call.from /\ cx'[d].rows = cx[d].rows
    BY <1>c, <2>1, <2>2
  <2>4. pc'[d] = "settle" /\ pc[d] = "look"
    BY <1>3 DEF LookUp, Goto, TypeInv, TypeOK
  <2>5. InAttempt(d)' => OpenRow(d)'
    BY <1>1, <2>3, <2>4 DEF AttemptsInv, InAttempt, InCall, OpenRow
  <2> QED BY <1>1, <2>4, <2>5, SameAttempts
<1> QED BY <1>2, <1>3

LEMMA AttemptsStep ==
    ASSUME TypeInv, OneDriver, AttemptsInv, [Next]_vars
    PROVE  AttemptsInv'
<1>1. ASSUME NEW d \in Drivers, AcquireLease(d) PROVE AttemptsInv'
  <2>1. /\ \A e \in Drivers : pc'[e] \in {"idle", "loop"}
        /\ UNCHANGED attempts
    BY <1>1, AcquireAlone
  <2> QED BY <2>1 DEF AttemptsInv, RunningOpen, InAttempt, InCall
<1>2. ASSUME NEW d \in Drivers, DriveSteps(d) \/ Crash(d) PROVE AttemptsInv'
  <2>1. CASE \/ ReleaseLease(d) \/ WakeUp(d) \/ Crash(d) \/ ScheduleRetry(d) \/ Park(d)
             \/ Expire(d) \/ Finalize(d)
    <3>1. UNCHANGED attempts
        BY <2>1 DEF ReleaseLease, WakeUp, Crash, ScheduleRetry, Park, Expire, Finalize
    <3>2. \E l \in {"idle", "loop", "release", "finalize"} : pc' = [pc EXCEPT ![d] = l]
        BY <2>1 DEF ReleaseLease, WakeUp, Crash, ScheduleRetry, Park, Expire, Finalize, Goto
    <3>3. pc'[d] # "start" /\ ~InAttempt(d)'
        BY <3>2 DEF InAttempt, InCall, TypeInv, TypeOK
    <3> QED BY <1>2, <3>1, <3>3, StepMoves, SameAttempts
  <2>2. CASE ReadRun(d) \/ Ensure(d) \/ StartAttempt(d) \/ ReconcileNext(d) \/ LookUp(d)
    BY <2>2, ReadRunAttempts, EnsureAttempts, StartAttempts, LookAttempts
  <2>3. CASE AgentFinishes(d) \/ AttemptFails(d) \/ CloseAttempt(d) \/ Recover(d)
    BY <2>3, EndAttempts
  <2>4. CASE Settle(d) \/ ReopenFailed(d) \/ AgentCalls(d)
    BY <2>4, CallAttempts
  <2>5. CASE \/ Step(d) \/ AgentSays(d) \/ AgentReads(d) \/ Gate(d) \/ MayDispatch(d)
             \/ MarkEffectDispatched(d) \/ Perform(d) \/ CommitEffect(d)
             \/ PerformFails(d) \/ PerformOutcomeUnknown(d)
    BY <2>5, InsideAttempts
  <2> QED BY <1>2, <2>1, <2>2, <2>3, <2>4, <2>5 DEF DriveSteps
<1>3. ASSUME Environment \/ (\E d \in Drivers : RenewLease(d)) \/ UNCHANGED vars
      PROVE  AttemptsInv'
  <2>1. UNCHANGED <<pc, cx, attempts>>
    BY <1>3, OutsideMoves
  <2> QED BY <2>1 DEF AttemptsInv, RunningOpen, InAttempt, OpenRow
<1> QED BY <1>1, <1>2, <1>3 DEF Next, Finished

-----------------------------------------------------------------------------
(* The row a call works on *)

\* Intended and not dispatched: the call may be made.
Ready(row) == row.state = "intended" /\ ~row.dispatched

\* The row a driver finds at each label of executeToolCall.
RowAt(l, row) ==
    /\ l = "reopen" => row.state = "failed" /\ Free(row)
    /\ l = "gate" => row.state = "unknown" \/ Ready(row)
    /\ l \in {"check", "mark"} => Ready(row)
    /\ l \in {"perform", "performed"} => InDoubt(row)

CallAt(l, call) ==
    /\ l \in InCall /\ call.from = "agent" => effects[call.key].args = call.args
    /\ l = "gate" => call.row = effects[call.key]
    /\ RowAt(l, effects[call.key])

CallsInv == \A d \in Drivers : CallAt(pc[d], cx[d].call)

\* Dispose sends each row to the label that expects it.
LEMMA DisposeRow ==
    ASSUME NEW k, NEW row \in EffectRow, row.state # "none"
    PROVE  RowAt(Dispose(k, row), row)
    BY DEF Dispose, EffectRow, EffectStates, InDoubt, Answered, Free, Ready, RowAt

\* The intent has the args of the call, unless the effect is committed already.
LEMMA IntendArgs ==
    ASSUME NEW row \in EffectRow, NEW a
    PROVE  Intend(row, a).args = a \/ Intend(row, a).state = "committed"
    BY DEF Intend

\* A step of driver d that leaves it outside a call keeps what is known of calls.
LEMMA LeftCall ==
    ASSUME OneDriver, NEW d \in Drivers, Moves(d), pc'[d] \notin InCall
    PROVE  CallsInv'
<1>1. \A e \in Drivers : pc'[e] \notin InCall
    BY Alone DEF InCall
<1> QED BY <1>1 DEF CallsInv, CallAt, RowAt, InCall

\* A step that takes d to a label of a call it knows.
LEMMA EntersCall ==
    ASSUME OneDriver, NEW d \in Drivers, Moves(d), CallAt(pc[d], cx[d].call)'
    PROVE  CallsInv'
<1>1. \A e \in Drivers \ {d} : pc'[e] = "idle"
    BY Alone
<1> QED BY <1>1 DEF CallsInv, CallAt, RowAt, InCall

\* A call followed with the row it has now.
LEMMA FollowKnows ==
    ASSUME TypeInv, OneDriver, NEW d \in Drivers, Moves(d), NEW k \in Keys,
           NEW row \in EffectRow, row.state # "none",
           NEW call \in Call, call.key = k, call.args = row.args \/ row.state = "committed",
           effects' = [effects EXCEPT ![k] = row], Follow(d, k, row, call)
    PROVE  CallsInv'
<1> DEFINE now == [call EXCEPT !.row = row]
<1>1. now.key = k /\ now.args = call.args /\ now.row = row
    BY DEF Call
<1>2. effects'[k] = row
    BY DEF TypeInv, TypeOK, TablesOK
<1>3. /\ pc'[d] = Dispose(k, row) /\ RowAt(pc'[d], row)
      /\ pc'[d] \notin {"step", "ended"} => cx'[d].call = now
    BY FollowCall, DisposeRow
<1>4. CASE pc'[d] \in {"step", "ended"}
    BY <1>4, LeftCall DEF InCall
<1>5. CASE pc'[d] \notin {"step", "ended"}
  <2>1. row.state # "committed"
    BY <1>3, <1>5 DEF Dispose, Answered, InDoubt
  <2>2. cx'[d].call = now
    BY <1>3, <1>5
  <2> HIDE DEF now
  <2>3. CallAt(pc[d], cx[d].call)'
    BY <1>1, <1>2, <1>3, <2>1, <2>2 DEF CallAt
  <2> QED BY <2>3, EntersCall
<1> QED BY <1>4, <1>5

LEMMA CallCalls ==
    ASSUME TypeInv, OneDriver, CallsInv, NEW d \in Drivers,
           Settle(d) \/ ReopenFailed(d) \/ AgentCalls(d)
    PROVE  CallsInv'
<1>1. Moves(d)
    BY CallMoves DEF LeavesLease
<1>2. CASE Settle(d)
  <2> DEFINE call == cx[d].call
             k    == call.key
             row  == Settled(effects[k], call.verdict)
  <2>1. /\ call \in Call /\ k \in Keys /\ effects[k] \in EffectRow /\ pc[d] = "settle"
        /\ call.from = "agent" => effects[k].args = call.args
    BY <1>2, InCallTypes DEF Settle, InCall, CallsInv, CallAt
  <2>2. row \in EffectRow /\ row.state # "none" /\ row.args = effects[k].args
    BY <2>1, SettledType
  <2>3. effects' = [effects EXCEPT ![k] = row]
    BY <1>2 DEF Settle
  <2>4. CASE Goto(d, "reconcile")
    BY <1>1, <2>4, LeftCall DEF Goto, InCall, TypeInv, TypeOK
  <2>5. CASE call.from = "agent" /\ Follow(d, k, row, call)
    BY <1>1, <2>1, <2>2, <2>3, <2>5, FollowKnows
  <2> QED BY <1>2, <2>4, <2>5 DEF Settle
<1>3. CASE ReopenFailed(d)
  <2> DEFINE call == cx[d].call
             k    == call.key
             row  == Reopen(effects[k])
  <2>1. /\ call \in Call /\ k \in Keys /\ effects[k] \in EffectRow
        /\ effects[k].args = call.args
    BY <1>3, InCallTypes DEF ReopenFailed, InCall, CallsInv, CallAt
  <2>2. row \in EffectRow /\ row.state # "none" /\ row.args = effects[k].args
    BY <2>1, EffectRowOps
  <2>3. effects' = [effects EXCEPT ![k] = row] /\ Follow(d, k, row, call)
    BY <1>3 DEF ReopenFailed
  <2> QED BY <1>1, <2>1, <2>2, <2>3, FollowKnows
<1>4. CASE AgentCalls(d)
  <2> PICK k \in Keys : \E a \in ArgsOf[k] :
        /\ effects' = [effects EXCEPT ![k] = Intend(effects[k], a)]
        /\ Follow(d, k, Intend(effects[k], a), Requested(k, a))
    BY <1>4 DEF AgentCalls
  <2> PICK a \in ArgsOf[k] :
        /\ effects' = [effects EXCEPT ![k] = Intend(effects[k], a)]
        /\ Follow(d, k, Intend(effects[k], a), Requested(k, a))
    OBVIOUS
  <2>1. /\ a \in Args /\ effects[k] \in EffectRow /\ run.cancel \in BOOLEAN
        /\ effects[k].state # "none" => effects[k].args \in Args
    BY KeysAssumption DEF TypeInv, TypeOK, TablesOK, KnownRows, RunRow
  <2>2. Requested(k, a) \in Call /\ Requested(k, a).key = k /\ Requested(k, a).args = a
    BY <2>1, NoCalls DEF Requested, Call
  <2>3. /\ Intend(effects[k], a) \in EffectRow /\ Intend(effects[k], a).state # "none"
        /\ Intend(effects[k], a).args = a \/ Intend(effects[k], a).state = "committed"
    BY <2>1, IntendType, IntendArgs
  <2> QED BY <1>1, <2>2, <2>3, FollowKnows
<1> QED BY <1>2, <1>3, <1>4

\* The gate lets a call pass whose row is intended, reopened if need be.
LEMMA GateCalls ==
    ASSUME TypeInv, OneDriver, CallsInv, NEW d \in Drivers, Gate(d)
    PROVE  CallsInv'
<1> DEFINE call   == cx[d].call
           k      == call.key
<1>1. Moves(d) /\ pc[d] = "gate"
    BY AttemptMoves DEF LeavesLease, Gate
<1>c. /\ cx \in [Drivers -> Context] /\ cx[d] \in Context /\ call \in Call
      /\ effects \in [Keys -> EffectRow] /\ k \in Keys /\ effects[k] \in EffectRow
    BY <1>1, InCallTypes DEF InCall, TypeInv, TypeOK, TablesOK
<1>k. /\ call.row = effects[k] /\ (effects[k].state = "unknown" \/ Ready(effects[k]))
      /\ call.from = "agent" => effects[k].args = call.args
    BY <1>1 DEF CallsInv, CallAt, RowAt, InCall
<1>2. CASE \E l \in {"ended", "step"} : pc' = [pc EXCEPT ![d] = l]
  <2>1. pc'[d] \notin InCall
    BY <1>2 DEF InCall, TypeInv, TypeOK
  <2> QED BY <1>1, <2>1, LeftCall
<1>3. ASSUME NEW i, cx' = [cx EXCEPT ![d].call.approval = i],
             effects' = IF call.row.state = "unknown"
                        THEN [effects EXCEPT ![k] = Reopen(effects[k])] ELSE effects,
             pc' = [pc EXCEPT ![d] = "check"]
      PROVE  CallsInv'
  <2> DEFINE now == [call EXCEPT !.approval = i]
             c   == [cx[d] EXCEPT !.call = now]
             row == IF call.row.state = "unknown" THEN Reopen(effects[k]) ELSE effects[k]
  <2>1. cx' = [cx EXCEPT ![d] = c] /\ now.key = k /\ now.args = call.args
        /\ now.from = call.from
    BY <1>3, <1>c DEF Call
  <2>2. effects'[k] = row
    BY <1>3, <1>c
  <2>3. Ready(row) /\ row.args = effects[k].args
    BY <1>c, <1>k DEF Ready, Reopen, EffectRow
  <2> HIDE DEF now, row
  <2>4. c.call = now
    BY <1>c DEF Context
  <2> HIDE DEF c
  <2>5. cx'[d].call = now /\ pc'[d] = "check"
    BY <1>3, <1>c, <2>1, <2>4 DEF TypeInv, TypeOK
  <2>6. CallAt(pc[d], cx[d].call)'
    BY <1>k, <2>1, <2>2, <2>3, <2>5 DEF CallAt, RowAt
  <2> QED BY <1>1, <2>6, EntersCall
<1>4. \/ \E l \in {"ended", "step"} : pc' = [pc EXCEPT ![d] = l]
      \/ \E i : /\ cx' = [cx EXCEPT ![d].call.approval = i]
                /\ effects' = IF call.row.state = "unknown"
                              THEN [effects EXCEPT ![k] = Reopen(effects[k])] ELSE effects
                /\ pc' = [pc EXCEPT ![d] = "check"]
    BY DEF Gate, EndWith, Goto
<1> QED BY <1>2, <1>3, <1>4

LEMMA DispatchCalls ==
    ASSUME TypeInv, OneDriver, CallsInv, NEW d \in Drivers,
           \/ MayDispatch(d) \/ MarkEffectDispatched(d) \/ Perform(d) \/ LookUp(d)
    PROVE  CallsInv'
<1>1. Moves(d)
    BY AttemptMoves, DriveMoves DEF LeavesLease
<1>c. cx \in [Drivers -> Context] /\ cx[d] \in Context /\ cx[d].call \in Call
      /\ effects \in [Keys -> EffectRow] /\ pc \in [Drivers -> Labels]
    BY DEF TypeInv, TypeOK, TablesOK, Context
<1>2. CASE MayDispatch(d)
  <2>1. \/ \E l \in {"step", "ended", "idle"} : pc' = [pc EXCEPT ![d] = l]
        \/ pc' = [pc EXCEPT ![d] = "mark"] /\ UNCHANGED cx
    BY <1>2 DEF MayDispatch, EndWith, Goto
  <2>2. CASE \E l \in {"step", "ended", "idle"} : pc' = [pc EXCEPT ![d] = l]
    <3>1. pc'[d] \notin InCall
        BY <1>c, <2>2 DEF InCall
    <3> QED BY <1>1, <3>1, LeftCall
  <2>3. CASE pc' = [pc EXCEPT ![d] = "mark"] /\ UNCHANGED cx
    <3>1. pc'[d] = "mark" /\ pc[d] = "check" /\ UNCHANGED effects
        BY <1>2, <1>c, <2>3 DEF MayDispatch
    <3>2. CallAt(pc[d], cx[d].call)'
        BY <2>3, <3>1 DEF CallsInv, CallAt, RowAt, InCall
    <3> QED BY <1>1, <3>2, EntersCall
  <2> QED BY <2>1, <2>2, <2>3
<1>3. CASE MarkEffectDispatched(d)
  <2> DEFINE k == cx[d].call.key
  <2>1. k \in Keys /\ effects[k] \in EffectRow /\ pc[d] = "mark" /\ pc'[d] = "perform"
    BY <1>3, <1>c, InCallTypes DEF MarkEffectDispatched, Goto, InCall
  <2>2. effects'[k] = MarkDispatched(effects[k]) /\ UNCHANGED cx
    BY <1>3, <1>c, <2>1 DEF MarkEffectDispatched
  <2>3. Ready(effects[k]) /\ (cx[d].call.from = "agent" => effects[k].args = cx[d].call.args)
    BY <2>1 DEF CallsInv, CallAt, RowAt, InCall
  <2>4. InDoubt(MarkDispatched(effects[k])) /\ MarkDispatched(effects[k]).args = effects[k].args
    BY <2>1, <2>3 DEF Ready, InDoubt, MarkDispatched, EffectRow
  <2>5. CallAt(pc[d], cx[d].call)'
    BY <2>1, <2>2, <2>3, <2>4 DEF CallAt, RowAt
  <2> QED BY <1>1, <2>5, EntersCall
<1>4. CASE Perform(d)
  <2>1. pc[d] = "perform" /\ pc'[d] = "performed" /\ UNCHANGED <<cx, effects>>
    BY <1>4, <1>c DEF Perform, Goto
  <2>2. CallAt(pc[d], cx[d].call)'
    BY <2>1 DEF CallsInv, CallAt, RowAt, InCall
  <2> QED BY <1>1, <2>2, EntersCall
<1>5. CASE LookUp(d)
  <2> PICK v : cx' = [cx EXCEPT ![d].call.verdict = v]
    BY <1>5 DEF LookUp
  <2> DEFINE call == [cx[d].call EXCEPT !.verdict = v]
             c == [cx[d] EXCEPT !.call = call]
  <2>1. cx' = [cx EXCEPT ![d] = c] /\ call.from = cx[d].call.from
        /\ call.key = cx[d].call.key /\ call.args = cx[d].call.args
    BY <1>c DEF Call
  <2> HIDE DEF call
  <2>2. c.call = call
    BY <1>c DEF Context
  <2> HIDE DEF c
  <2>3. cx'[d].call = call
    BY <1>c, <2>1, <2>2
  <2>4. pc'[d] = "settle" /\ pc[d] = "look" /\ UNCHANGED effects
    BY <1>5, <1>c DEF LookUp, Goto
  <2>5. CallAt(pc[d], cx[d].call)'
    BY <2>1, <2>3, <2>4 DEF CallsInv, CallAt, RowAt, InCall
  <2> QED BY <1>1, <2>5, EntersCall
<1> QED BY <1>2, <1>3, <1>4, <1>5

\* Every other step of a driver leaves it outside a call.
LEMMA LeavesCalls ==
    ASSUME NEW d \in Drivers, TypeInv,
           \/ ReleaseLease(d) \/ ReadRun(d) \/ Recover(d) \/ Ensure(d) \/ WakeUp(d)
           \/ StartAttempt(d) \/ Step(d) \/ AgentSays(d) \/ AgentReads(d)
           \/ AgentFinishes(d) \/ CommitEffect(d) \/ PerformFails(d)
           \/ PerformOutcomeUnknown(d) \/ AttemptFails(d) \/ CloseAttempt(d)
           \/ ScheduleRetry(d) \/ Park(d) \/ Expire(d) \/ Finalize(d) \/ Crash(d)
    PROVE  pc'[d] \notin InCall
<1>1. CASE \/ ReleaseLease(d) \/ ReadRun(d) \/ Recover(d) \/ Ensure(d) \/ WakeUp(d)
           \/ StartAttempt(d) \/ Step(d) \/ AgentSays(d) \/ AgentReads(d)
           \/ AgentFinishes(d)
  <2>1. \E l \in Labels \ InCall : pc' = [pc EXCEPT ![d] = l]
    BY <1>1 DEF ReleaseLease, ReadRun, Recover, Ensure, WakeUp, StartAttempt, Step,
       AgentSays, AgentReads, AgentFinishes, Goto, Labels, InCall
  <2> QED BY <2>1 DEF TypeInv, TypeOK
<1>2. CASE \/ CommitEffect(d) \/ PerformFails(d) \/ PerformOutcomeUnknown(d)
           \/ AttemptFails(d) \/ CloseAttempt(d) \/ ScheduleRetry(d) \/ Park(d)
           \/ Expire(d) \/ Finalize(d) \/ Crash(d)
  <2>1. \E l \in Labels \ InCall : pc' = [pc EXCEPT ![d] = l]
    BY <1>2 DEF CommitEffect, PerformFails, PerformOutcomeUnknown, AfterPerform,
       AttemptFails, EndWithError, CloseAttempt, ScheduleRetry, Park, Expire, Finalize,
       Crash, Goto, Labels, InCall
  <2> QED BY <2>1 DEF TypeInv, TypeOK
<1> QED BY <1>1, <1>2

\* Recovery takes up an effect to look up, or is done.
LEMMA ReconcileCalls ==
    ASSUME TypeInv, OneDriver, CallsInv, NEW d \in Drivers, ReconcileNext(d)
    PROVE  CallsInv'
<1>1. Moves(d)
    BY DriveMoves DEF LeavesLease
<1>c. cx \in [Drivers -> Context] /\ cx[d] \in Context /\ pc \in [Drivers -> Labels]
    BY DEF TypeInv, TypeOK
<1>2. \/ pc' = [pc EXCEPT ![d] = "ensure"]
      \/ pc' = [pc EXCEPT ![d] = "look"] /\ \E k : cx' = [cx EXCEPT ![d] = LookingUp(cx[d], k)]
    BY DEF ReconcileNext, Goto
<1>3. CASE pc' = [pc EXCEPT ![d] = "ensure"]
  <2>1. pc'[d] \notin InCall
    BY <1>3, <1>c DEF InCall
  <2> QED BY <1>1, <2>1, LeftCall
<1>4. ASSUME NEW k, pc' = [pc EXCEPT ![d] = "look"],
             cx' = [cx EXCEPT ![d] = LookingUp(cx[d], k)]
      PROVE  CallsInv'
  <2> DEFINE call == [NoCall EXCEPT !.from = "recovery", !.key = k]
             c == [cx[d] EXCEPT !.todo = cx[d].todo \ {k}, !.call = call]
  <2>1. cx' = [cx EXCEPT ![d] = c]
    BY <1>4 DEF LookingUp
  <2>2. call.from = "recovery"
    BY DEF NoCall
  <2> HIDE DEF call
  <2>3. c.call = call
    BY <1>c DEF Context
  <2> HIDE DEF c
  <2>4. cx'[d].call.from = "recovery" /\ pc'[d] = "look"
    BY <1>4, <1>c, <2>1, <2>2, <2>3
  <2>5. CallAt(pc[d], cx[d].call)'
    BY <2>4 DEF CallAt, RowAt
  <2> QED BY <1>1, <2>5, EntersCall
<1> QED BY <1>2, <1>3, <1>4

LEMMA CallsStep ==
    ASSUME TypeInv, OneDriver, CallsInv, [Next]_vars
    PROVE  CallsInv'
<1>1. ASSUME NEW d \in Drivers, AcquireLease(d) PROVE CallsInv'
  <2>1. \A e \in Drivers : pc'[e] \in {"idle", "loop"}
    BY <1>1, AcquireAlone
  <2> QED BY <2>1 DEF CallsInv, CallAt, RowAt, InCall
<1>2. ASSUME NEW d \in Drivers, DriveSteps(d) \/ Crash(d) PROVE CallsInv'
  <2>1. CASE Settle(d) \/ ReopenFailed(d) \/ AgentCalls(d)
    BY <2>1, CallCalls
  <2>2. CASE Gate(d) \/ ReconcileNext(d)
    BY <2>2, GateCalls, ReconcileCalls
  <2>3. CASE \/ MayDispatch(d) \/ MarkEffectDispatched(d) \/ Perform(d) \/ LookUp(d)
    BY <2>3, DispatchCalls
  <2>4. CASE \/ ReleaseLease(d) \/ ReadRun(d) \/ Recover(d) \/ Ensure(d) \/ WakeUp(d)
             \/ StartAttempt(d) \/ Step(d) \/ AgentSays(d) \/ AgentReads(d)
             \/ AgentFinishes(d) \/ CommitEffect(d) \/ PerformFails(d)
             \/ PerformOutcomeUnknown(d) \/ AttemptFails(d) \/ CloseAttempt(d)
             \/ ScheduleRetry(d) \/ Park(d) \/ Expire(d) \/ Finalize(d) \/ Crash(d)
    BY <1>2, <2>4, StepMoves, LeavesCalls, LeftCall
  <2> QED BY <1>2, <2>1, <2>2, <2>3, <2>4 DEF DriveSteps
<1>3. ASSUME Environment \/ (\E d \in Drivers : RenewLease(d)) \/ UNCHANGED vars
      PROVE  CallsInv'
  <2>1. UNCHANGED <<pc, cx, effects>>
    BY <1>3, OutsideMoves
  <2> QED BY <2>1 DEF CallsInv, CallAt, RowAt, Ready, InDoubt, Free, Answered
<1> QED BY <1>1, <1>2, <1>3 DEF Next, Finished

-----------------------------------------------------------------------------
(* What becomes of approvals *)

\* Nothing is consumed: a consumed row was there and was consumed before.
NoneConsumed ==
    \A i \in DOMAIN approvals' :
        approvals'[i].consumed => i \in DOMAIN approvals /\ approvals[i].consumed

\* expireApprovalSync consumes nothing, and new rows are unconsumed.
LEMMA ExpireNone ==
    ASSUME TypeInv, NEW i \in DOMAIN approvals, approvals' = ExpireApproval(approvals, i)
    PROVE  NoneConsumed /\ ApprovalsKept(approvals')
<1>1. approvals \in Seq(ApprovalRow) /\ approvals[i] \in ApprovalRow
    BY ApprovalType
<1>2. DOMAIN approvals' = DOMAIN approvals /\ ApprovalsKept(approvals')
    BY ExpireKept
<1> DEFINE row == [approvals[i] EXCEPT !.state = "expired"]
<1>3. row.consumed = approvals[i].consumed
    BY <1>1 DEF ApprovalRow
<1>4. UNCHANGED approvals \/ approvals' = [approvals EXCEPT ![i] = row]
    BY DEF ExpireApproval
<1> HIDE DEF row
<1>5. CASE approvals' = [approvals EXCEPT ![i] = row]
  <2>1. \A j \in DOMAIN approvals : approvals'[j] = IF j = i THEN row ELSE approvals[j]
    BY <1>5, <1>1
  <2> QED BY <1>2, <1>3, <2>1 DEF NoneConsumed
<1> QED BY <1>2, <1>4, <1>5 DEF NoneConsumed

LEMMA CreateNone ==
    ASSUME TypeInv, NEW k \in Keys, NEW a \in Args, NEW reason \in GateReasons,
           approvals' = CreateApproval(approvals, k, a, reason)
    PROVE  NoneConsumed /\ ApprovalsKept(approvals')
<1> DEFINE row == [key |-> k, args |-> a, reason |-> reason, state |-> "pending",
                   due |-> FALSE, consumed |-> FALSE]
<1>1. approvals \in Seq(ApprovalRow) /\ Len(approvals) \in Nat
      /\ DOMAIN approvals = 1..Len(approvals)
    BY ApprovalType
<1>2. row \in ApprovalRow /\ ~row.consumed
    BY DEF ApprovalRow, ApprovalStates
<1>3. approvals' = Append(approvals, row)
    BY DEF CreateApproval
<1> HIDE DEF row
<1>4. /\ Len(approvals') = Len(approvals) + 1 /\ approvals' \in Seq(ApprovalRow)
      /\ \A i \in 1..Len(approvals) : approvals'[i] = approvals[i]
      /\ approvals'[Len(approvals) + 1] = row
    BY <1>1, <1>2, <1>3, AppendProperties
<1>5. DOMAIN approvals' = 1..(Len(approvals) + 1)
    BY <1>4, LenProperties
<1>6. NoneConsumed
    BY <1>1, <1>2, <1>4, <1>5 DEF NoneConsumed
<1> QED BY <1>6, CreateKept

LEMMA SameNone ==
    ASSUME TypeInv, UNCHANGED approvals PROVE NoneConsumed /\ ApprovalsKept(approvals')
    BY SameApprovals DEF NoneConsumed

\* A person or the clock consumes nothing.
LEMMA OutsideNone ==
    ASSUME TypeInv, Environment \/ (\E d \in Drivers : RenewLease(d)) \/ UNCHANGED vars
    PROVE  NoneConsumed /\ ApprovalsKept(approvals')
<1>1. CASE \/ RequestCancel \/ BackoffElapses \/ LeaseLapses \/ UNCHANGED vars
           \/ \E d \in Drivers : RenewLease(d)
  <2>1. UNCHANGED approvals
    BY <1>1 DEF RequestCancel, BackoffElapses, LeaseLapses, RenewLease, vars
  <2> QED BY <2>1, SameNone
<1>2. ASSUME NEW i \in DOMAIN approvals, ApprovalTimeout(i)
      PROVE  NoneConsumed /\ ApprovalsKept(approvals')
  <2> DEFINE row == [approvals[i] EXCEPT !.due = TRUE]
  <2>1. approvals' = [approvals EXCEPT ![i] = row] /\ row.consumed = approvals[i].consumed
    BY <1>2, ApprovalType DEF ApprovalTimeout, ApprovalRow
  <2> HIDE DEF row
  <2>2. NoneConsumed
    BY <2>1, ApprovalType DEF NoneConsumed
  <2> QED BY <1>2, <2>2, ApprovalStepKept
<1>3. ASSUME NEW i \in DOMAIN approvals, NEW decision \in {"approved", "denied"},
             DecideApproval(i, decision)
      PROVE  NoneConsumed /\ ApprovalsKept(approvals')
  <2> DEFINE row == [approvals[i] EXCEPT !.state = decision]
  <2>1. CASE approvals' = [approvals EXCEPT ![i] = row]
    <3>1. row.consumed = approvals[i].consumed
        BY ApprovalType DEF ApprovalRow
    <3> HIDE DEF row
    <3>2. NoneConsumed
        BY <2>1, <3>1, ApprovalType DEF NoneConsumed
    <3> QED BY <1>3, <3>2, ApprovalStepKept
  <2>2. CASE approvals' = ExpireApproval(approvals, i)
    BY <2>2, ExpireNone
  <2> QED BY <1>3, <2>1, <2>2 DEF DecideApproval
<1> QED BY <1>1, <1>2, <1>3 DEF Environment

\* Of a driver's steps only the gate consumes.
LEMMA DriveNone ==
    ASSUME NEW d \in Drivers, TypeInv, DriveSteps(d) \/ Crash(d) \/ AcquireLease(d),
           ~Gate(d)
    PROVE  NoneConsumed /\ ApprovalsKept(approvals')
<1>1. CASE \/ ReleaseLease(d) \/ ReadRun(d) \/ Recover(d) \/ ReconcileNext(d)
           \/ LookUp(d) \/ Settle(d) \/ WakeUp(d) \/ StartAttempt(d)
           \/ Step(d) \/ AgentSays(d) \/ AgentReads(d) \/ AgentFinishes(d)
           \/ AgentCalls(d) \/ ReopenFailed(d) \/ AcquireLease(d) \/ Crash(d)
  <2>1. UNCHANGED approvals
    BY <1>1 DEF ReleaseLease, ReadRun, Recover, ReconcileNext, LookUp, Settle, WakeUp,
       StartAttempt, Step, AgentSays, AgentReads, AgentFinishes, AgentCalls,
       ReopenFailed, AcquireLease, Crash
  <2> QED BY <2>1, SameNone
<1>2. CASE \/ MayDispatch(d) \/ MarkEffectDispatched(d) \/ Perform(d)
           \/ CommitEffect(d) \/ PerformFails(d) \/ PerformOutcomeUnknown(d)
           \/ AttemptFails(d) \/ CloseAttempt(d) \/ ScheduleRetry(d) \/ Park(d)
           \/ Finalize(d)
  <2>1. UNCHANGED approvals
    BY <1>2 DEF MayDispatch, MarkEffectDispatched, Perform, CommitEffect, PerformFails,
       PerformOutcomeUnknown, AfterPerform, AttemptFails, EndWithError, CloseAttempt,
       ScheduleRetry, Park, Finalize
  <2> QED BY <2>1, SameNone
<1>3. CASE Ensure(d)
    BY <1>3, EnsureAsks DEF NoneConsumed
<1>4. CASE Expire(d)
  <2>1. \/ UNCHANGED approvals
        \/ cx[d].ask # 0 /\ approvals' = ExpireApproval(approvals, cx[d].ask)
    BY <1>4, Zenon DEF Expire
  <2>2. cx[d].ask # 0 => cx[d].ask \in DOMAIN approvals
    BY <1>4 DEF Expire, TypeInv, Known, KnownIn
  <2> QED BY <2>1, <2>2, SameNone, ExpireNone
<1> QED BY <1>1, <1>2, <1>3, <1>4 DEF DriveSteps

\* What approvalGate does: it refuses and consumes nothing, or it consumes the
\* approval that was granted for the row's args and lets the call pass.
GateRefuses(d) ==
    LET k == cx[d].call.key
    IN  /\ NoneConsumed /\ ApprovalsKept(approvals')
        /\ pc'[d] \in {"ended", "step"}
        /\ \/ UNCHANGED effects
           \/ \E o \in {"skipped", "denied"} :
                 effects' = [effects EXCEPT ![k] = Fail(effects[k], o)]

GatePasses(d, i) ==
    LET call == cx[d].call
        k    == call.key
    IN  /\ i \in DOMAIN approvals /\ approvals[i].key = k
        /\ approvals[i].args = call.row.args
        /\ approvals[i].reason = IF call.row.state = "unknown" THEN "effect_unknown"
                                 ELSE "approval_required"
        /\ approvals[i].state = "approved" /\ ~approvals[i].consumed
        /\ approvals' = ConsumeApproval(approvals, i)
        /\ effects' = IF call.row.state = "unknown"
                      THEN [effects EXCEPT ![k] = Reopen(effects[k])] ELSE effects
        /\ pc'[d] = "check" /\ cx'[d].call = [call EXCEPT !.approval = i]

LEMMA GateSplit ==
    ASSUME TypeInv, NEW d \in Drivers, Gate(d)
    PROVE  GateRefuses(d) \/ \E i : GatePasses(d, i)
<1> DEFINE call   == cx[d].call
           k      == call.key
           reason == IF call.row.state = "unknown" THEN "effect_unknown"
                     ELSE "approval_required"
           i      == FindApproval(approvals, k, call.row.args)
<1>c. /\ cx \in [Drivers -> Context] /\ cx[d] \in Context /\ call \in Call
      /\ k \in Keys /\ call.row.args \in Args /\ pc \in [Drivers -> Labels]
      /\ reason \in GateReasons
    BY InCallTypes DEF Gate, InCall, TypeInv, TypeOK, Known, KnownIn, GateReasons
<1>i. i # 0 => /\ i \in DOMAIN approvals /\ approvals[i].key = k
               /\ approvals[i].args = call.row.args
    BY FindApprovalType
<1>1. CASE i # 0 /\ approvals' = ExpireApproval(approvals, i) /\ EndWith(d, "expired", i)
           /\ UNCHANGED effects
  <2>1. NoneConsumed /\ ApprovalsKept(approvals')
    BY <1>1, <1>i, ExpireNone
  <2>2. pc'[d] = "ended"
    BY <1>1, <1>c DEF EndWith, Goto
  <2> QED BY <1>1, <2>1, <2>2 DEF GateRefuses
<1>2. CASE UNCHANGED <<approvals, effects>> /\ (EndWith(d, "park", i) \/ EndWith(d, "expired", i))
  <2>1. pc'[d] = "ended"
    BY <1>2, <1>c DEF EndWith, Goto
  <2> QED BY <1>2, <2>1, SameNone DEF GateRefuses
<1>3. CASE /\ i # 0 /\ approvals[i].state = "approved" /\ Live(approvals[i], reason)
           /\ approvals' = ConsumeApproval(approvals, i)
           /\ effects' = IF reason = "effect_unknown"
                         THEN [effects EXCEPT ![k] = Reopen(effects[k])] ELSE effects
           /\ cx' = [cx EXCEPT ![d].call.approval = i]
           /\ pc' = [pc EXCEPT ![d] = "check"]
  <2> DEFINE now == [call EXCEPT !.approval = i]
             c   == [cx[d] EXCEPT !.call = now]
  <2>1. cx' = [cx EXCEPT ![d] = c]
    BY <1>3
  <2>2. pc'[d] = "check"
    BY <1>3, <1>c
  <2>3. c.call = now
    BY <1>c DEF Context
  <2>4. cx'[d] = c
    BY <1>c, <2>1
  <2>5. cx'[d].call = now
    BY <2>3, <2>4
  <2>6. (reason = "effect_unknown") <=> (call.row.state = "unknown")
    OBVIOUS
  <2>7. /\ effects' = IF call.row.state = "unknown"
                      THEN [effects EXCEPT ![k] = Reopen(effects[k])] ELSE effects
        /\ approvals[i].reason = reason /\ ~approvals[i].consumed
    BY <1>3, <2>6 DEF Live
  <2> HIDE DEF i
  <2>8. GatePasses(d, i)
    BY <1>3, <1>i, <2>2, <2>5, <2>7 DEF GatePasses
  <2> QED BY <2>8
<1>4. CASE /\ pc' = [pc EXCEPT ![d] = "step"] /\ UNCHANGED approvals
           /\ \E o \in {"skipped", "denied"} :
                 effects' = [effects EXCEPT ![k] = Fail(effects[k], o)]
  <2>1. pc'[d] = "step"
    BY <1>4, <1>c
  <2> QED BY <1>4, <2>1, SameNone DEF GateRefuses
<1>5. CASE /\ approvals' = CreateApproval(approvals, k, call.row.args, reason)
           /\ EndWith(d, "park", Len(approvals) + 1) /\ UNCHANGED effects
  <2>1. pc'[d] = "ended"
    BY <1>5, <1>c DEF EndWith, Goto
  <2>2. NoneConsumed /\ ApprovalsKept(approvals')
    BY <1>5, <1>c, CreateNone
  <2> QED BY <1>5, <2>1, <2>2 DEF GateRefuses
<1>s. \/ i # 0 /\ approvals' = ExpireApproval(approvals, i) /\ EndWith(d, "expired", i)
         /\ UNCHANGED effects
      \/ UNCHANGED <<approvals, effects>> /\ (EndWith(d, "park", i) \/ EndWith(d, "expired", i))
      \/ /\ i # 0 /\ approvals[i].state = "approved" /\ Live(approvals[i], reason)
         /\ approvals' = ConsumeApproval(approvals, i)
         /\ effects' = IF reason = "effect_unknown"
                       THEN [effects EXCEPT ![k] = Reopen(effects[k])] ELSE effects
         /\ cx' = [cx EXCEPT ![d].call.approval = i]
         /\ pc' = [pc EXCEPT ![d] = "check"]
      \/ /\ pc' = [pc EXCEPT ![d] = "step"] /\ UNCHANGED approvals
         /\ \E o \in {"skipped", "denied"} :
               effects' = [effects EXCEPT ![k] = Fail(effects[k], o)]
      \/ /\ approvals' = CreateApproval(approvals, k, call.row.args, reason)
         /\ EndWith(d, "park", Len(approvals) + 1) /\ UNCHANGED effects
    BY ZenonT(30) DEF Gate, Goto
<1> QED BY <1>1, <1>2, <1>3, <1>4, <1>5, <1>s

-----------------------------------------------------------------------------
(* An approval pays for the args it was granted for *)

PaidInv ==
    /\ \A i \in DOMAIN world :
          world[i].approval # 0 => approvals[world[i].approval].args = world[i].args
    /\ \A d \in Drivers :
          Pays(d) => approvals[cx[d].call.approval].args = cx[d].call.args

\* A step that consumes nothing and performs nothing.
LEMMA UseStep ==
    ASSUME NEW d \in Drivers, TypeInv, SingleUseInv,
           DriveSteps(d) \/ Crash(d) \/ AcquireLease(d), ~Gate(d), ~Perform(d)
    PROVE  UseKept(d)
<1>1. CASE AcquireLease(d) \/ Crash(d)
    BY <1>1, DriveUse
<1>2. CASE \/ ReleaseLease(d) \/ ReadRun(d) \/ Recover(d) \/ WakeUp(d)
           \/ StartAttempt(d) \/ CloseAttempt(d) \/ ScheduleRetry(d) \/ Park(d)
           \/ Finalize(d)
    BY <1>2, DriveUse
<1>3. CASE \/ Step(d) \/ AgentSays(d) \/ AgentReads(d) \/ AgentFinishes(d)
           \/ CommitEffect(d) \/ PerformFails(d) \/ PerformOutcomeUnknown(d)
    BY <1>3, AttemptUse
<1>4. CASE AttemptFails(d) \/ Expire(d) \/ Ensure(d)
    BY <1>4, AttemptFailsUse, TableUse
<1>5. CASE ReconcileNext(d) \/ LookUp(d) \/ Settle(d) \/ ReopenFailed(d) \/ AgentCalls(d)
    BY <1>5, ReconcileUse, SettleUse, AgentCallsUse
<1>6. CASE MayDispatch(d) \/ MarkEffectDispatched(d)
    BY <1>6, DispatchUse
<1> QED BY <1>1, <1>2, <1>3, <1>4, <1>5, <1>6 DEF DriveSteps

\* Approvals keep their args, so what is paid stays paid.
LEMMA PaidKeeps ==
    ASSUME SingleUseInv, PaidInv, ApprovalsKept(approvals'), UNCHANGED world,
           \A e \in Drivers : Pays(e)' => Pays(e) /\ cx'[e].call = cx[e].call
    PROVE  PaidInv'
<1>1. \A i \in DOMAIN world : world[i].approval # 0 => world[i].approval \in DOMAIN approvals
    BY DEF SingleUseInv, SpentInWorld, Spent
<1>2. \A e \in Drivers : Pays(e) => cx[e].call.approval \in DOMAIN approvals
    BY DEF SingleUseInv, SpentInFlight, Spent
<1> QED BY <1>1, <1>2 DEF PaidInv, ApprovalsKept

LEMMA PaidGate ==
    ASSUME TypeInv, OneDriver, SingleUseInv, CallsInv, PaidInv, NEW d \in Drivers, Gate(d)
    PROVE  PaidInv'
<1>1. Moves(d) /\ UNCHANGED world /\ pc[d] = "gate" /\ ~Pays(d)
    BY AttemptMoves DEF LeavesLease, Gate, Pays, InFlight
<1>2. \A e \in Drivers \ {d} : ~Pays(e)'
    BY <1>1, Alone DEF Pays, InFlight
<1>3. CASE GateRefuses(d)
  <2>1. ~Pays(d)' /\ ApprovalsKept(approvals')
    BY <1>3 DEF GateRefuses, Pays, InFlight
  <2> QED BY <1>1, <1>2, <2>1, PaidKeeps
<1>4. ASSUME NEW i, GatePasses(d, i) PROVE PaidInv'
  <2> DEFINE call == cx[d].call
  <2>1. call \in Call /\ call.row = effects[call.key] /\ effects[call.key].args = call.args
    BY <1>1, InCallTypes DEF CallsInv, CallAt, InCall
  <2>2. i \in DOMAIN approvals /\ approvals[i].args = call.args
        /\ cx'[d].call = [call EXCEPT !.approval = i]
    BY <1>4, <2>1 DEF GatePasses
  <2>3. cx'[d].call.args = call.args /\ cx'[d].call.approval = i
    BY <2>1, <2>2 DEF Call
  <2>4. ApprovalsKept(approvals')
    BY <1>4, ConsumeKept DEF GatePasses
  <2>5. approvals'[i].args = call.args
    BY <2>2, <2>4 DEF ApprovalsKept
  <2>6. \A j \in DOMAIN world : world[j].approval # 0 => world[j].approval \in DOMAIN approvals
    BY DEF SingleUseInv, SpentInWorld, Spent
  <2> QED BY <1>1, <1>2, <2>3, <2>4, <2>5, <2>6 DEF PaidInv, ApprovalsKept
<1> QED BY <1>3, <1>4, GateSplit

\* A row appended to a sequence of rows.
LEMMA AppendDomain ==
    ASSUME NEW S, NEW s \in Seq(S), NEW row \in S
    PROVE  /\ DOMAIN s = 1..Len(s) /\ Len(s) \in Nat
           /\ DOMAIN Append(s, row) = 1..(Len(s) + 1)
           /\ Append(s, row)[Len(s) + 1] = row
           /\ \A i \in DOMAIN s : Append(s, row)[i] = s[i]
           /\ \A i \in DOMAIN Append(s, row) :
                 i \in DOMAIN s \/ i = Len(s) + 1
<1>1. DOMAIN s = 1..Len(s) /\ Len(s) \in Nat
    BY LenProperties
<1>2. /\ Append(s, row) \in Seq(S) /\ Len(Append(s, row)) = Len(s) + 1
      /\ \A i \in 1..Len(s) : Append(s, row)[i] = s[i]
      /\ Append(s, row)[Len(s) + 1] = row
    BY AppendProperties
<1>3. DOMAIN Append(s, row) = 1..(Len(s) + 1)
    BY <1>2, LenProperties
<1> QED BY <1>1, <1>2, <1>3

LEMMA PaidPerform ==
    ASSUME TypeInv, OneDriver, PaidInv, NEW d \in Drivers, Perform(d)
    PROVE  PaidInv'
<1> DEFINE call == cx[d].call
           new  == [key |-> call.key, args |-> call.args, approval |-> call.approval,
                    late |-> call.late]
<1>1. Moves(d) /\ UNCHANGED approvals /\ pc[d] = "perform" /\ pc'[d] = "performed"
    BY AttemptMoves DEF LeavesLease, Perform, Goto, TypeInv, TypeOK
<1>2. \A e \in Drivers : ~Pays(e)'
    BY <1>1, Alone DEF Pays, InFlight
<1>3. call.approval # 0 => approvals[call.approval].args = call.args
    BY <1>1 DEF PaidInv, Pays, InFlight
<1>4. world \in Seq(Performance) /\ world' = Append(world, new)
    BY DEF Perform, TypeInv, TypeOK, TablesOK
<1>5. new.approval = call.approval /\ new.args = call.args /\ new \in Performance
    BY <1>1, InCallTypes DEF InCall, Call, Performance
<1> HIDE DEF new
<1>6. \A i \in DOMAIN world' :
         world'[i] = new \/ (i \in DOMAIN world /\ world'[i] = world[i])
  <2> DEFINE w == Append(world, new)
  <2>1. /\ w[Len(world) + 1] = new
        /\ \A i \in DOMAIN world : w[i] = world[i]
        /\ \A i \in DOMAIN w : i \in DOMAIN world \/ i = Len(world) + 1
    BY <1>4, <1>5, AppendDomain
  <2>2. world' = w
    BY <1>4
  <2> HIDE DEF w
  <2> QED BY <2>1, <2>2
<1> QED BY <1>1, <1>2, <1>3, <1>5, <1>6 DEF PaidInv

LEMMA PaidStep ==
    ASSUME TypeInv, OneDriver, SingleUseInv, CallsInv, PaidInv, [Next]_vars
    PROVE  PaidInv'
<1>1. ASSUME NEW d \in Drivers, DriveSteps(d) \/ Crash(d) \/ AcquireLease(d)
      PROVE  PaidInv'
  <2>1. CASE Gate(d) \/ Perform(d)
    BY <2>1, PaidGate, PaidPerform
  <2>2. CASE ~Gate(d) /\ ~Perform(d)
    <3>1. UseKept(d)
        BY <1>1, <2>2, UseStep
    <3>2. /\ \A e \in Drivers : Pays(e)' => Pays(e) /\ cx'[e].call = cx[e].call
          /\ ApprovalsKept(approvals') /\ UNCHANGED world
        BY <3>1 DEF UseKept, Pays, InFlight
    <3> QED BY <3>2, PaidKeeps
  <2> QED BY <2>1, <2>2
<1>2. ASSUME Environment \/ (\E d \in Drivers : RenewLease(d)) \/ UNCHANGED vars
      PROVE  PaidInv'
  <2>1. UNCHANGED <<pc, cx, world>> /\ ApprovalsKept(approvals')
    BY <1>2, OutsideMoves, OutsideNone
  <2> QED BY <2>1, PaidKeeps DEF Pays, InFlight
<1> QED BY <1>1, <1>2 DEF Next, Finished

-----------------------------------------------------------------------------
(* No call is repeated silently *)

\* An effect keeps to the args of its key; what is about to be performed may be
\* performed; and what was looked up and not found never took effect.
KeyArgs == \A k \in Keys : effects[k].state # "none" => effects[k].args \in ArgsOf[k]

AboutTo(d) ==
    LET k == cx[d].call.key
    IN  /\ pc[d] = "perform" /\ OwnArgs(k) => Times(k) < Allowed(k)
        /\ pc[d] = "settle" /\ cx[d].call.verdict = "absent" => Times(k) = 0

RepeatInv == KeyArgs /\ NoSilentRepeat /\ \A d \in Drivers : AboutTo(d)

\* The answers "perform it once more" that were used for key k.
Used(k) ==
    {i \in DOMAIN approvals :
        /\ approvals[i].key = k /\ approvals[i].consumed
        /\ approvals[i].reason = "effect_unknown"}

LEMMA CountTypes ==
    ASSUME TypeInv, NEW k
    PROVE  /\ Times(k) \in Nat /\ Allowed(k) \in Nat /\ Allowed(k) >= 1
           /\ Allowed(k) = 1 + Cardinality(Used(k))
           /\ IsFiniteSet(Used(k)) /\ Cardinality(Used(k)) \in Nat
           /\ IsFiniteSet({i \in DOMAIN world : world[i].key = k})
<1>1. /\ DOMAIN world = 1..Len(world) /\ Len(world) \in Nat
      /\ DOMAIN approvals = 1..Len(approvals) /\ Len(approvals) \in Nat
    BY ApprovalType, LenProperties DEF TypeInv, TypeOK, TablesOK
<1>2. IsFiniteSet(1..Len(world)) /\ IsFiniteSet(1..Len(approvals))
    BY <1>1, FS_Interval
<1>3. {i \in DOMAIN world : world[i].key = k} \subseteq 1..Len(world)
      /\ Used(k) \subseteq 1..Len(approvals)
    BY <1>1 DEF Used
<1>4. IsFiniteSet({i \in DOMAIN world : world[i].key = k}) /\ IsFiniteSet(Used(k))
    BY <1>2, <1>3, FS_Subset
<1>5. Times(k) \in Nat /\ Cardinality(Used(k)) \in Nat
    BY <1>4, FS_CardinalityType DEF Times
<1>6. Allowed(k) = 1 + Cardinality(Used(k))
    BY DEF Allowed, Used
<1> QED BY <1>4, <1>5, <1>6

\* What consumes nothing allows nothing.
LEMMA AllowedSame ==
    ASSUME TypeInv, NoneConsumed, ApprovalsKept(approvals'), NEW k
    PROVE  Allowed(k)' = Allowed(k)
<1>1. Used(k)' = Used(k)
    BY DEF Used, NoneConsumed, ApprovalsKept
<1>2. Allowed(k) = 1 + Cardinality(Used(k)) /\ Allowed(k)' = 1 + Cardinality(Used(k)')
    BY DEF Allowed, Used
<1> QED BY <1>1, <1>2

\* Consuming an answer "perform it once more" allows its key one call more.
LEMMA AllowedConsume ==
    ASSUME TypeInv, NEW i \in DOMAIN approvals, approvals[i].state = "approved",
           ~approvals[i].consumed, approvals' = ConsumeApproval(approvals, i), NEW k
    PROVE  Allowed(k)' = IF approvals[i].reason = "effect_unknown" /\ approvals[i].key = k
                         THEN Allowed(k) + 1 ELSE Allowed(k)
<1> DEFINE row == [approvals[i] EXCEPT !.consumed = TRUE]
<1>1. approvals \in Seq(ApprovalRow) /\ approvals[i] \in ApprovalRow
    BY ApprovalType
<1>2. /\ row.key = approvals[i].key /\ row.reason = approvals[i].reason /\ row.consumed
      /\ approvals' = [approvals EXCEPT ![i] = row]
    BY <1>1 DEF ApprovalRow, ConsumeApproval
<1> HIDE DEF row
<1>3. /\ DOMAIN approvals' = DOMAIN approvals
      /\ \A j \in DOMAIN approvals : approvals'[j] = IF j = i THEN row ELSE approvals[j]
    BY <1>1, <1>2
<1>4. /\ Allowed(k) = 1 + Cardinality(Used(k)) /\ Allowed(k)' = 1 + Cardinality(Used(k)')
      /\ IsFiniteSet(Used(k)) /\ Cardinality(Used(k)) \in Nat
    BY CountTypes DEF Allowed, Used
<1>5. CASE approvals[i].reason = "effect_unknown" /\ approvals[i].key = k
  <2>1. Used(k)' = Used(k) \cup {i} /\ i \notin Used(k)
    BY <1>2, <1>3, <1>5 DEF Used
  <2>2. Cardinality(Used(k) \cup {i}) = Cardinality(Used(k)) + 1
    BY <1>4, <2>1, FS_AddElement
  <2>3. Allowed(k)' = 1 + (Cardinality(Used(k)) + 1)
    BY <1>4, <2>1, <2>2
  <2> QED BY <1>4, <1>5, <2>3
<1>6. CASE ~(approvals[i].reason = "effect_unknown" /\ approvals[i].key = k)
  <2>1. Used(k)' = Used(k)
    BY <1>2, <1>3, <1>6 DEF Used
  <2> QED BY <1>4, <1>6, <2>1
<1> QED BY <1>5, <1>6

\* A step that performs nothing and writes one row, or none.
LEMMA RepeatRow ==
    ASSUME TypeInv, OneDriver, RepeatInv, NEW d \in Drivers, Moves(d), UNCHANGED world,
           \A j \in Keys : Allowed(j)' >= Allowed(j), \A j \in Keys : Allowed(j)' \in Nat,
           NEW k \in Keys, NEW row, effects' = [effects EXCEPT ![k] = row],
           row.state # "none" => row.args \in ArgsOf[k],
           OwnArgs(k) /\ Free(row) => Times(k) < Allowed(k)',
           pc'[d] \notin {"perform", "settle"}
    PROVE  RepeatInv'
<1>1. effects'[k] = row /\ \A j \in Keys : j # k => effects'[j] = effects[j]
    BY DEF TypeInv, TypeOK, TablesOK
<1>2. \A j : Times(j)' = Times(j)
    BY DEF Times
<1>3. \A j \in Keys : Times(j) \in Nat /\ Allowed(j) \in Nat
    BY CountTypes
<1>4. KeyArgs'
    BY <1>1 DEF KeyArgs, RepeatInv
<1>5. ASSUME NEW j \in Keys, OwnArgs(j)
      PROVE  /\ Times(j)' <= Allowed(j)'
             /\ Free(effects'[j]) => Times(j)' < Allowed(j)'
  <2>1. Times(j) <= Allowed(j) /\ (Free(effects[j]) => Times(j) < Allowed(j))
    BY <1>5 DEF RepeatInv, NoSilentRepeat
  <2>2. Times(j) <= Allowed(j)' /\ (Free(effects[j]) => Times(j) < Allowed(j)')
    BY <1>3, <2>1
  <2>3. CASE j = k
    BY <1>1, <1>2, <1>5, <2>2, <2>3
  <2>4. CASE j # k
    BY <1>1, <1>2, <2>2, <2>4
  <2> QED BY <2>3, <2>4
<1>6. NoSilentRepeat'
    BY <1>5 DEF NoSilentRepeat, OwnArgs, Free, Answered, InDoubt
<1>7. \A e \in Drivers : AboutTo(e)'
  <2>1. \A e \in Drivers \ {d} : pc'[e] = "idle"
    BY Alone
  <2> QED BY <2>1 DEF AboutTo
<1> QED BY <1>4, <1>6, <1>7 DEF RepeatInv

LEMMA RepeatSame ==
    ASSUME TypeInv, OneDriver, RepeatInv, NEW d \in Drivers, Moves(d),
           UNCHANGED <<world, effects>>, NoneConsumed, ApprovalsKept(approvals'), AboutTo(d)'
    PROVE  RepeatInv'
<1>1. \A j : Times(j)' = Times(j) /\ Allowed(j)' = Allowed(j)
    BY AllowedSame DEF Times
<1>2. KeyArgs'
    BY DEF KeyArgs, RepeatInv
<1>3. NoSilentRepeat'
    BY <1>1 DEF NoSilentRepeat, OwnArgs, Free, Answered, InDoubt, RepeatInv
<1>4. \A e \in Drivers : AboutTo(e)'
  <2>1. \A e \in Drivers \ {d} : pc'[e] = "idle"
    BY Alone
  <2> QED BY <2>1 DEF AboutTo
<1> QED BY <1>2, <1>3, <1>4 DEF RepeatInv

\* What a step that consumes nothing needs to show of the row it writes.
LEMMA RepeatWrite ==
    ASSUME TypeInv, OneDriver, RepeatInv, NEW d \in Drivers, Moves(d), UNCHANGED world,
           NoneConsumed, ApprovalsKept(approvals'),
           NEW k \in Keys, NEW row, effects' = [effects EXCEPT ![k] = row],
           row.state # "none" => row.args \in ArgsOf[k],
           OwnArgs(k) /\ Free(row) => Times(k) < Allowed(k),
           pc'[d] \notin {"perform", "settle"}
    PROVE  RepeatInv'
<1>1. \A j \in Keys : Allowed(j)' = Allowed(j) /\ Allowed(j) \in Nat
    BY AllowedSame, CountTypes
<1>2. \A j \in Keys : Allowed(j)' >= Allowed(j) /\ Allowed(j)' \in Nat
    BY <1>1
<1>3. OwnArgs(k) /\ Free(row) => Times(k) < Allowed(k)'
    BY <1>1
<1> HIDE DEF Free, OwnArgs, Times, Allowed
<1> QED BY <1>2, <1>3, RepeatRow

LEMMA RepeatCalls ==
    ASSUME TypeInv, OneDriver, CallsInv, RepeatInv, NEW d \in Drivers,
           Settle(d) \/ ReopenFailed(d) \/ AgentCalls(d)
    PROVE  RepeatInv'
<1>1. /\ Moves(d) /\ UNCHANGED <<world, approvals>>
      /\ pc'[d] \notin {"perform", "settle"} /\ NoneConsumed /\ ApprovalsKept(approvals')
    BY CallMoves, CallGoes, SameNone DEF LeavesLease
<1>2. CASE Settle(d)
  <2> DEFINE call == cx[d].call
             k    == call.key
             row  == Settled(effects[k], call.verdict)
  <2>1. /\ k \in Keys /\ effects[k] \in EffectRow /\ effects[k].state # "none"
        /\ pc[d] = "settle"
    BY <1>2, InCallTypes DEF Settle, InCall
  <2>2. row.args = effects[k].args /\ effects[k].args \in ArgsOf[k]
    BY <2>1, SettledType DEF RepeatInv, KeyArgs
  <2>3. effects' = [effects EXCEPT ![k] = row]
    BY <1>2 DEF Settle
  <2>4. Free(row) => call.verdict = "absent"
    BY <2>1 DEF Settled, Free, Commit, MarkUnknown, EffectRow, InDoubt
  <2>5. call.verdict = "absent" => Times(k) < Allowed(k)
    <3>1. call.verdict = "absent" => Times(k) = 0
        BY <2>1 DEF RepeatInv, AboutTo
    <3>2. Allowed(k) \in Nat /\ Allowed(k) >= 1
        BY CountTypes
    <3> QED BY <3>1, <3>2
  <2> HIDE DEF row
  <2> QED BY <1>1, <2>1, <2>2, <2>3, <2>4, <2>5, RepeatWrite
<1>3. CASE ReopenFailed(d)
  <2> DEFINE call == cx[d].call
             k    == call.key
             row  == Reopen(effects[k])
  <2>1. /\ k \in Keys /\ effects[k] \in EffectRow /\ effects[k].state # "none"
        /\ pc[d] = "reopen"
    BY <1>3, InCallTypes DEF ReopenFailed, InCall
  <2>2. row.args = effects[k].args /\ effects[k].args \in ArgsOf[k]
    BY <2>1, EffectRowOps DEF RepeatInv, KeyArgs
  <2>3. effects' = [effects EXCEPT ![k] = row]
    BY <1>3 DEF ReopenFailed
  <2>4. Free(effects[k])
    BY <2>1 DEF CallsInv, CallAt, RowAt
  <2>5. OwnArgs(k) => Times(k) < Allowed(k)
    BY <2>1, <2>4 DEF RepeatInv, NoSilentRepeat
  <2> HIDE DEF row
  <2> QED BY <1>1, <2>1, <2>2, <2>3, <2>5, RepeatWrite
<1>4. CASE AgentCalls(d)
  <2> PICK k \in Keys : \E a \in ArgsOf[k] : effects' = [effects EXCEPT ![k] = Intend(effects[k], a)]
    BY <1>4 DEF AgentCalls
  <2> PICK a \in ArgsOf[k] : effects' = [effects EXCEPT ![k] = Intend(effects[k], a)]
    OBVIOUS
  <2> DEFINE row == Intend(effects[k], a)
  <2>1. effects[k] \in EffectRow /\ (effects[k].state # "none" => effects[k].args \in ArgsOf[k])
    BY DEF TypeInv, TypeOK, TablesOK, RepeatInv, KeyArgs
  <2>2. row.state # "none" => row.args \in ArgsOf[k]
    BY <2>1 DEF Intend
  <2>3. ASSUME OwnArgs(k), Free(row)
        PROVE  Times(k) < Allowed(k)
    <3>1. CASE effects[k].state = "none"
      <4>1. Free(effects[k])
        BY <3>1 DEF Free, InDoubt
      <4> QED BY <2>3, <4>1 DEF RepeatInv, NoSilentRepeat
    <3>2. CASE effects[k].state # "none"
      <4>1. \A b \in ArgsOf[k] : b = a
        BY <2>3 DEF OwnArgs
      <4>2. effects[k].args = a
        BY <2>1, <3>2, <4>1
      <4>3. row = effects[k]
        BY <3>2, <4>2 DEF Intend
      <4> QED BY <2>3, <4>3 DEF RepeatInv, NoSilentRepeat
    <3> QED BY <3>1, <3>2
  <2>4. effects' = [effects EXCEPT ![k] = row]
    OBVIOUS
  <2> HIDE DEF row
  <2> QED BY <1>1, <2>2, <2>3, <2>4, RepeatWrite
<1> QED BY <1>2, <1>3, <1>4

\* A refused call is not free; a call that passes is paid for.
LEMMA RepeatGate ==
    ASSUME TypeInv, OneDriver, CallsInv, RepeatInv, NEW d \in Drivers, Gate(d)
    PROVE  RepeatInv'
<1> DEFINE call == cx[d].call
<1>1. Moves(d) /\ UNCHANGED world /\ pc[d] = "gate"
    BY AttemptMoves DEF LeavesLease, Gate
<1> PICK k \in Keys : k = call.key
    BY <1>1, InCallTypes DEF InCall
<1>2. /\ k \in Keys /\ effects[k] \in EffectRow /\ effects[k].state # "none"
      /\ effects[k].args \in ArgsOf[k] /\ call.row = effects[k]
    BY <1>1, InCallTypes DEF InCall, RepeatInv, KeyArgs, CallsInv, CallAt
<1>3. CASE GateRefuses(d)
  <2>1. pc'[d] \notin {"perform", "settle"} /\ NoneConsumed /\ ApprovalsKept(approvals')
        /\ AboutTo(d)'
    BY <1>3 DEF GateRefuses, AboutTo
  <2>2. CASE UNCHANGED effects
    BY <1>1, <2>1, <2>2, RepeatSame
  <2>3. ASSUME NEW o \in {"skipped", "denied"},
               effects' = [effects EXCEPT ![k] = Fail(effects[k], o)]
        PROVE  RepeatInv'
    <3> DEFINE row == Fail(effects[k], o)
    <3>1. row.args = effects[k].args /\ ~Free(row)
        BY <1>2 DEF Fail, Free, Answered, EffectRow
    <3>2. effects' = [effects EXCEPT ![k] = row]
        BY <2>3
    <3> HIDE DEF row
    <3> QED BY <1>1, <1>2, <2>1, <3>1, <3>2, RepeatWrite
  <2> QED BY <1>3, <2>2, <2>3 DEF GateRefuses
<1>4. ASSUME NEW i, GatePasses(d, i) PROVE RepeatInv'
  <2>1. \A j : Allowed(j)' = IF approvals[i].reason = "effect_unknown" /\ approvals[i].key = j
                             THEN Allowed(j) + 1 ELSE Allowed(j)
    BY <1>4, AllowedConsume DEF GatePasses
  <2>2. \A j \in Keys : /\ Allowed(j)' >= Allowed(j) /\ Allowed(j)' \in Nat
                        /\ Allowed(j) \in Nat /\ Times(j) \in Nat
    <3> SUFFICES ASSUME NEW j \in Keys
                 PROVE  /\ Allowed(j)' >= Allowed(j) /\ Allowed(j)' \in Nat
                        /\ Allowed(j) \in Nat /\ Times(j) \in Nat
        OBVIOUS
    <3>1. Allowed(j) \in Nat /\ Times(j) \in Nat
        BY CountTypes
    <3>2. Allowed(j)' = Allowed(j) \/ Allowed(j)' = Allowed(j) + 1
        BY <2>1
    <3> HIDE DEF Allowed, Times
    <3> QED BY <3>1, <3>2
  <2> DEFINE row == IF call.row.state = "unknown" THEN Reopen(effects[k]) ELSE effects[k]
  <2>3. effects' = [effects EXCEPT ![k] = row]
    BY <1>2, <1>4 DEF GatePasses, TypeInv, TypeOK, TablesOK
  <2>4. row.args = effects[k].args
    BY <1>2, EffectRowOps
  <2>5. ASSUME OwnArgs(k), Free(row) PROVE Times(k) < Allowed(k)'
    <3>1. Times(k) <= Allowed(k) /\ (Free(effects[k]) => Times(k) < Allowed(k))
        BY <1>2, <2>5 DEF RepeatInv, NoSilentRepeat
    <3>2. CASE call.row.state = "unknown"
      <4>1. Allowed(k)' = Allowed(k) + 1
        BY <1>4, <2>1, <3>2 DEF GatePasses
      <4> QED BY <1>2, <2>2, <3>1, <4>1
    <3>3. CASE call.row.state # "unknown"
      <4>1. row = effects[k]
        BY <3>3
      <4>2. Free(effects[k])
        BY <2>5, <4>1
      <4>3. Times(k) < Allowed(k)
        BY <3>1, <4>2
      <4>4. /\ Allowed(k)' >= Allowed(k) /\ Allowed(k)' \in Nat
            /\ Allowed(k) \in Nat /\ Times(k) \in Nat
        BY <1>2, <2>2
      <4> HIDE DEF Allowed, Times
      <4> QED BY <4>3, <4>4
    <3> QED BY <3>2, <3>3
  <2>6. pc'[d] \notin {"perform", "settle"}
    BY <1>4 DEF GatePasses
  <2>7. row.state # "none" => row.args \in ArgsOf[k]
    BY <1>2, <2>4
  <2>8. \A j \in Keys : Allowed(j)' >= Allowed(j)
    BY <2>2
  <2>9. \A j \in Keys : Allowed(j)' \in Nat
    BY <2>2
  <2>10. k \in Keys /\ Moves(d) /\ UNCHANGED world
    BY <1>1, <1>2
  <2> HIDE DEF row, call
  <2> QED BY <2>3, <2>5, <2>6, <2>7, <2>8, <2>9, <2>10, RepeatRow
<1> QED BY <1>3, <1>4, GateSplit

\* The dispatch is marked on a row that is free, so the call may be performed.
LEMMA RepeatMark ==
    ASSUME TypeInv, OneDriver, CallsInv, RepeatInv, NEW d \in Drivers,
           MarkEffectDispatched(d)
    PROVE  RepeatInv'
<1>1. /\ Moves(d) /\ UNCHANGED <<world, approvals, cx>> /\ pc[d] = "mark"
      /\ pc'[d] = "perform"
    BY AttemptMoves DEF LeavesLease, MarkEffectDispatched, Goto, TypeInv, TypeOK
<1> PICK k \in Keys : k = cx[d].call.key
    BY <1>1, InCallTypes DEF InCall
<1> DEFINE row == MarkDispatched(effects[k])
<1>2. /\ effects[k] \in EffectRow /\ effects[k].state # "none"
      /\ effects[k].args \in ArgsOf[k] /\ Ready(effects[k])
    BY <1>1, InCallTypes DEF InCall, RepeatInv, KeyArgs, CallsInv, CallAt, RowAt
<1>3. row.args = effects[k].args /\ row.state # "none" /\ ~Free(row)
    BY <1>2 DEF Ready, MarkDispatched, Free, InDoubt, EffectRow
<1>4. effects'[k] = row /\ \A j \in Keys : j # k => effects'[j] = effects[j]
    BY DEF MarkEffectDispatched, TypeInv, TypeOK, TablesOK
<1>5. \A j : Times(j)' = Times(j) /\ Allowed(j)' = Allowed(j)
    BY <1>1, SameNone, AllowedSame DEF Times
<1>6. OwnArgs(k) => Times(k) < Allowed(k)
    BY <1>2 DEF RepeatInv, NoSilentRepeat, Free, Ready, InDoubt
<1> HIDE DEF row
<1>7. KeyArgs'
    BY <1>2, <1>3, <1>4 DEF RepeatInv, KeyArgs
<1>8. NoSilentRepeat'
  <2>1. ASSUME NEW j \in Keys, OwnArgs(j)
        PROVE  Times(j)' <= Allowed(j)' /\ (Free(effects'[j]) => Times(j)' < Allowed(j)')
    BY <1>3, <1>4, <1>5, <2>1 DEF RepeatInv, NoSilentRepeat
  <2> QED BY <2>1 DEF NoSilentRepeat, OwnArgs, Free, Answered, InDoubt
<1>9. ASSUME NEW e \in Drivers PROVE AboutTo(e)'
  <2>1. CASE e = d
    <3>1. OwnArgs(k) => Times(k)' < Allowed(k)'
        BY <1>5, <1>6
    <3>2. cx'[d].call.key = k
        BY <1>1
    <3> QED BY <1>1, <2>1, <3>1, <3>2 DEF AboutTo, OwnArgs, Times, Allowed
  <2>2. CASE e # d
    BY <1>1, <2>2, Alone DEF AboutTo
  <2> QED BY <2>1, <2>2
<1> QED BY <1>7, <1>8, <1>9 DEF RepeatInv

\* What dispatch writes: a committed or unknown row is not free, and a call that
\* failed plainly took no effect.
LEMMA RepeatAfter ==
    ASSUME TypeInv, OneDriver, CallsInv, RepeatInv, NEW d \in Drivers,
           CommitEffect(d) \/ PerformFails(d) \/ PerformOutcomeUnknown(d)
    PROVE  RepeatInv'
<1>1. /\ Moves(d) /\ UNCHANGED <<world, approvals>> /\ pc[d] \in {"perform", "performed"}
      /\ pc'[d] = "step"
    BY AttemptMoves DEF LeavesLease, CommitEffect, PerformFails, PerformOutcomeUnknown,
       AfterPerform, Goto, TypeInv, TypeOK
<1>2. NoneConsumed /\ ApprovalsKept(approvals') /\ pc'[d] \notin {"perform", "settle"}
    BY <1>1, SameNone
<1> PICK k \in Keys : k = cx[d].call.key
    BY <1>1, InCallTypes DEF InCall
<1>3. effects[k] \in EffectRow /\ effects[k].state # "none" /\ effects[k].args \in ArgsOf[k]
    BY <1>1, InCallTypes DEF InCall, RepeatInv, KeyArgs
<1>4. ASSUME NEW row, row.args = effects[k].args,
             effects' = [effects EXCEPT ![k] = row],
             OwnArgs(k) /\ Free(row) => Times(k) < Allowed(k)
      PROVE  RepeatInv'
    BY <1>1, <1>2, <1>3, <1>4, RepeatWrite
<1>5. CASE CommitEffect(d)
  <2> DEFINE row == Commit(effects[k])
  <2>1. row.args = effects[k].args /\ ~Free(row)
    BY <1>3 DEF Commit, Free, EffectRow
  <2>2. effects' = [effects EXCEPT ![k] = row]
    BY <1>5 DEF CommitEffect, AfterPerform
  <2> HIDE DEF row
  <2> QED BY <1>4, <2>1, <2>2
<1>6. CASE PerformFails(d)
  <2> DEFINE row == Fail(effects[k], "failed")
  <2>1. row.args = effects[k].args
    BY <1>3 DEF Fail, EffectRow
  <2>2. effects' = [effects EXCEPT ![k] = row]
    BY <1>6 DEF PerformFails, AfterPerform
  <2>3. OwnArgs(k) => Times(k) < Allowed(k)
    BY <1>6 DEF PerformFails, RepeatInv, AboutTo
  <2> HIDE DEF row
  <2> QED BY <1>4, <2>1, <2>2, <2>3
<1>7. CASE PerformOutcomeUnknown(d)
  <2> DEFINE row == MarkUnknown(effects[k])
  <2>1. row.args = effects[k].args /\ ~Free(row)
    BY <1>3 DEF MarkUnknown, Free, EffectRow
  <2>2. effects' = [effects EXCEPT ![k] = row]
    BY <1>7 DEF PerformOutcomeUnknown, AfterPerform
  <2> HIDE DEF row
  <2> QED BY <1>4, <2>1, <2>2
<1> QED BY <1>5, <1>6, <1>7

\* An effect whose approval expired is not free.
LEMMA RepeatExpire ==
    ASSUME TypeInv, OneDriver, RepeatInv, NEW d \in Drivers, Expire(d)
    PROVE  RepeatInv'
<1>1. /\ Moves(d) /\ UNCHANGED world /\ pc[d] = "expire"
    BY DriveMoves DEF LeavesLease, Expire
<1>2. \E l \in {"release", "finalize"} : pc' = [pc EXCEPT ![d] = l]
    BY DEF Expire, Goto
<1>3. pc'[d] \notin {"perform", "settle"} /\ AboutTo(d)'
    BY <1>2 DEF AboutTo, TypeInv, TypeOK
<1>4. NoneConsumed /\ ApprovalsKept(approvals')
    BY DriveNone DEF DriveSteps, Expire, Gate
<1>5. CASE UNCHANGED effects
    BY <1>1, <1>3, <1>4, <1>5, RepeatSame
<1>6. CASE cx[d].ask # 0 /\ effects' = [effects EXCEPT ![approvals[cx[d].ask].key] = Fail(@, "expired")]
  <2>1. cx[d].ask \in DOMAIN approvals
    BY <1>1, <1>6 DEF TypeInv, Known, KnownIn
  <2> PICK k \in Keys : k = approvals[cx[d].ask].key
    BY <2>1, ApprovalType
  <2> DEFINE row == Fail(effects[k], "expired")
  <2>2. effects[k] \in EffectRow
    BY DEF TypeInv, TypeOK, TablesOK
  <2>3. effects[k].state # "none" => effects[k].args \in ArgsOf[k]
    BY DEF RepeatInv, KeyArgs
  <2>4. effects[k].state # "none"
    BY <2>1 DEF TypeInv, KnownRows
  <2>5. row.args = effects[k].args /\ ~Free(row)
    BY <2>2 DEF Fail, Free, Answered, EffectRow
  <2>6. effects' = [effects EXCEPT ![k] = row]
    BY <1>6
  <2> HIDE DEF row
  <2> QED BY <1>1, <1>3, <1>4, <2>3, <2>4, <2>5, <2>6, RepeatWrite
<1>7. \/ UNCHANGED effects
      \/ cx[d].ask # 0 /\ effects' = [effects EXCEPT ![approvals[cx[d].ask].key] = Fail(@, "expired")]
    BY Zenon DEF Expire
<1> QED BY <1>5, <1>6, <1>7

\* A look-up that says "absent" looked at the world.
LEMMA RepeatLook ==
    ASSUME TypeInv, OneDriver, RepeatInv, NEW d \in Drivers, LookUp(d)
    PROVE  RepeatInv'
<1>1. /\ Moves(d) /\ UNCHANGED <<world, effects, approvals>> /\ pc[d] = "look"
      /\ pc'[d] = "settle"
    BY DriveMoves DEF LeavesLease, LookUp, Goto, TypeInv, TypeOK
<1>c. cx \in [Drivers -> Context] /\ cx[d] \in Context /\ cx[d].call \in Call
    BY DEF TypeInv, TypeOK, Context
<1> PICK k : k = cx[d].call.key
    OBVIOUS
<1> PICK v \in VerdictsOn(k) : cx' = [cx EXCEPT ![d].call.verdict = v]
    BY DEF LookUp
<1> DEFINE call == [cx[d].call EXCEPT !.verdict = v]
           c == [cx[d] EXCEPT !.call = call]
<1>2. cx' = [cx EXCEPT ![d] = c] /\ call.verdict = v /\ call.key = k
    BY <1>c DEF Call
<1> HIDE DEF call
<1>3. c.call = call
    BY <1>c DEF Context
<1> HIDE DEF c
<1>4. cx'[d].call.verdict = v /\ cx'[d].call.key = k
    BY <1>c, <1>2, <1>3
<1>5. v = "absent" => Times(k)' = 0
  <2>1. v = "absent" => ~Performed(k)
    BY DEF VerdictsOn
  <2>2. ~Performed(k) => {i \in DOMAIN world : world[i].key = k} = {}
    BY DEF Performed
  <2>3. Cardinality({}) = 0
    BY FS_EmptySet
  <2> QED BY <1>1, <2>1, <2>2, <2>3 DEF Times
<1>6. AboutTo(d)'
    BY <1>1, <1>4, <1>5 DEF AboutTo, Times
<1> QED BY <1>1, <1>6, SameNone, RepeatSame

\* The call takes effect once, as it may.
LEMMA PerformCounts ==
    ASSUME TypeInv, NEW d \in Drivers, Perform(d), NEW k
    PROVE  Times(k)' = IF cx[d].call.key = k THEN Times(k) + 1 ELSE Times(k)
<1> DEFINE call == cx[d].call
           new  == [key |-> call.key, args |-> call.args, approval |-> call.approval,
                    late |-> call.late]
           w    == Append(world, new)
           At(s) == {i \in DOMAIN s : s[i].key = k}
<1>1. world \in Seq(Performance) /\ world' = w /\ pc[d] = "perform"
    BY DEF Perform, TypeInv, TypeOK, TablesOK
<1>2. new.key = call.key /\ new \in Performance
    BY <1>1, InCallTypes DEF InCall, Call, Performance
<1> HIDE DEF new
<1>3. /\ w[Len(world) + 1] = new /\ Len(world) \in Nat /\ DOMAIN world = 1..Len(world)
      /\ DOMAIN w = 1..(Len(world) + 1)
      /\ \A i \in DOMAIN world : w[i] = world[i]
    BY <1>1, <1>2, AppendDomain
<1> HIDE DEF w
<1>4. IsFiniteSet(At(world)) /\ Cardinality(At(world)) \in Nat
    BY CountTypes, FS_CardinalityType
<1>5. Times(k) = Cardinality(At(world)) /\ Times(k)' = Cardinality(At(w))
    BY <1>1 DEF Times
<1>6. CASE call.key = k
  <2>1. At(w) = At(world) \cup {Len(world) + 1} /\ Len(world) + 1 \notin At(world)
    BY <1>2, <1>3, <1>6
  <2>2. Cardinality(At(world) \cup {Len(world) + 1}) = Cardinality(At(world)) + 1
    BY <1>4, <2>1, FS_AddElement
  <2>3. Cardinality(At(w)) = Cardinality(At(world)) + 1
    BY <2>1, <2>2
  <2> QED BY <1>5, <1>6, <2>3
<1>7. CASE call.key # k
  <2>1. At(w) = At(world)
    BY <1>2, <1>3, <1>7
  <2> QED BY <1>5, <1>7, <2>1
<1> QED BY <1>6, <1>7

LEMMA RepeatPerform ==
    ASSUME TypeInv, OneDriver, CallsInv, RepeatInv, NEW d \in Drivers, Perform(d)
    PROVE  RepeatInv'
<1>1. /\ Moves(d) /\ UNCHANGED <<effects, approvals>> /\ pc[d] = "perform"
      /\ pc'[d] = "performed"
    BY AttemptMoves DEF LeavesLease, Perform, Goto, TypeInv, TypeOK
<1> PICK k \in Keys : k = cx[d].call.key
    BY <1>1, InCallTypes DEF InCall
<1>2. ~Free(effects[k])
  <2>1. InDoubt(effects[k])
    BY <1>1 DEF CallsInv, CallAt, RowAt
  <2> QED BY <2>1 DEF InDoubt, Free
<1>3. OwnArgs(k) => Times(k) < Allowed(k)
    BY <1>1 DEF RepeatInv, AboutTo
<1>4. \A j : Allowed(j)' = Allowed(j)
    BY <1>1, SameNone, AllowedSame
<1>5. \A j : Times(j)' = IF k = j THEN Times(j) + 1 ELSE Times(j)
    BY PerformCounts
<1>6. KeyArgs'
    BY <1>1 DEF RepeatInv, KeyArgs
<1>7. NoSilentRepeat'
  <2>1. ASSUME NEW j \in Keys, OwnArgs(j)
        PROVE  Times(j)' <= Allowed(j)' /\ (Free(effects[j]) => Times(j)' < Allowed(j)')
    <3>1. Times(j) \in Nat /\ Allowed(j) \in Nat
        BY CountTypes
    <3>2. Times(j) <= Allowed(j) /\ (Free(effects[j]) => Times(j) < Allowed(j))
        BY <2>1 DEF RepeatInv, NoSilentRepeat
    <3>3. CASE j = k
      <4>1. Times(j)' = Times(j) + 1 /\ Allowed(j)' = Allowed(j) /\ Times(j) < Allowed(j)
            /\ ~Free(effects[j])
        BY <1>2, <1>3, <1>4, <1>5, <2>1, <3>3
      <4> HIDE DEF Times, Allowed, Free
      <4> QED BY <3>1, <4>1
    <3>4. CASE j # k
        BY <1>4, <1>5, <3>2, <3>4
    <3> QED BY <3>3, <3>4
  <2> QED BY <1>1, <2>1 DEF NoSilentRepeat, OwnArgs, Free, Answered, InDoubt
<1>8. \A e \in Drivers : AboutTo(e)'
    BY <1>1, Alone DEF AboutTo
<1> QED BY <1>6, <1>7, <1>8 DEF RepeatInv

\* The other steps of a driver write no effect and perform nothing.
LEMMA RepeatOther ==
    ASSUME TypeInv, OneDriver, RepeatInv, NEW d \in Drivers,
           \/ ReleaseLease(d) \/ ReadRun(d) \/ Recover(d) \/ ReconcileNext(d) \/ Ensure(d)
           \/ WakeUp(d) \/ StartAttempt(d) \/ Step(d) \/ AgentSays(d) \/ AgentReads(d)
           \/ AgentFinishes(d) \/ MayDispatch(d) \/ AttemptFails(d) \/ CloseAttempt(d)
           \/ ScheduleRetry(d) \/ Park(d) \/ Finalize(d) \/ Crash(d)
    PROVE  RepeatInv'
<1>1. Moves(d)
    BY StepMoves DEF DriveSteps
<1>2. CASE \/ ReleaseLease(d) \/ ReadRun(d) \/ Recover(d) \/ ReconcileNext(d) \/ Ensure(d)
           \/ WakeUp(d) \/ StartAttempt(d) \/ Step(d) \/ AgentSays(d) \/ AgentReads(d)
  <2>1. UNCHANGED <<world, effects>>
    BY <1>2 DEF ReleaseLease, ReadRun, Recover, ReconcileNext, Ensure, WakeUp,
       StartAttempt, Step, AgentSays, AgentReads
  <2>2. \E l : l \notin {"perform", "settle"} /\ pc' = [pc EXCEPT ![d] = l]
    BY <1>2 DEF ReleaseLease, ReadRun, Recover, ReconcileNext, Ensure, WakeUp,
       StartAttempt, Step, AgentSays, AgentReads, Goto
  <2>3. AboutTo(d)'
    BY <2>2 DEF AboutTo, TypeInv, TypeOK
  <2>4. ~Gate(d)
    BY <1>2 DEF ReleaseLease, ReadRun, Recover, ReconcileNext, Ensure, WakeUp,
       StartAttempt, Step, AgentSays, AgentReads, Gate
  <2>5. NoneConsumed /\ ApprovalsKept(approvals')
    BY <1>2, <2>4, DriveNone DEF DriveSteps
  <2> QED BY <1>1, <2>1, <2>3, <2>5, RepeatSame
<1>3. CASE \/ AgentFinishes(d) \/ MayDispatch(d) \/ AttemptFails(d) \/ CloseAttempt(d)
           \/ ScheduleRetry(d) \/ Park(d) \/ Finalize(d) \/ Crash(d)
  <2>1. UNCHANGED <<world, effects, approvals>>
    BY <1>3 DEF AgentFinishes, MayDispatch, AttemptFails, EndWithError, CloseAttempt,
       ScheduleRetry, Park, Finalize, Crash
  <2>2. \E l : l \notin {"perform", "settle"} /\ pc' = [pc EXCEPT ![d] = l]
    BY <1>3 DEF AgentFinishes, MayDispatch, AttemptFails, EndWithError, EndWith,
       CloseAttempt, ScheduleRetry, Park, Finalize, Crash, Goto
  <2>3. AboutTo(d)'
    BY <2>2 DEF AboutTo, TypeInv, TypeOK
  <2> QED BY <1>1, <2>1, <2>3, SameNone, RepeatSame
<1> QED BY <1>2, <1>3

LEMMA RepeatStep ==
    ASSUME TypeInv, OneDriver, CallsInv, RepeatInv, [Next]_vars
    PROVE  RepeatInv'
<1>1. ASSUME UNCHANGED <<world, effects>>, NoneConsumed, ApprovalsKept(approvals'),
             \A e \in Drivers : AboutTo(e)'
      PROVE  RepeatInv'
  <2>1. \A j : Times(j)' = Times(j) /\ Allowed(j)' = Allowed(j)
    BY <1>1, AllowedSame DEF Times
  <2>2. KeyArgs'
    BY <1>1 DEF KeyArgs, RepeatInv
  <2>3. NoSilentRepeat'
    BY <1>1, <2>1 DEF NoSilentRepeat, OwnArgs, Free, Answered, InDoubt, RepeatInv
  <2> QED BY <1>1, <2>2, <2>3 DEF RepeatInv
<1>2. ASSUME NEW d \in Drivers, AcquireLease(d) PROVE RepeatInv'
  <2>1. /\ \A e \in Drivers : pc'[e] \in {"idle", "loop"}
        /\ UNCHANGED <<world, effects, approvals>>
    BY <1>2, AcquireAlone
  <2>2. \A e \in Drivers : AboutTo(e)'
    BY <2>1 DEF AboutTo
  <2> QED BY <1>1, <2>1, <2>2, SameNone
<1>3. ASSUME NEW d \in Drivers, DriveSteps(d) \/ Crash(d) PROVE RepeatInv'
  <2>1. CASE Settle(d) \/ ReopenFailed(d) \/ AgentCalls(d) \/ Gate(d)
    BY <2>1, RepeatCalls, RepeatGate
  <2>2. CASE \/ MarkEffectDispatched(d) \/ CommitEffect(d) \/ PerformFails(d)
             \/ PerformOutcomeUnknown(d) \/ Expire(d) \/ LookUp(d) \/ Perform(d)
    BY <2>2, RepeatMark, RepeatAfter, RepeatExpire, RepeatLook, RepeatPerform
  <2>3. CASE \/ ReleaseLease(d) \/ ReadRun(d) \/ Recover(d) \/ ReconcileNext(d) \/ Ensure(d)
             \/ WakeUp(d) \/ StartAttempt(d) \/ Step(d) \/ AgentSays(d) \/ AgentReads(d)
             \/ AgentFinishes(d) \/ MayDispatch(d) \/ AttemptFails(d) \/ CloseAttempt(d)
             \/ ScheduleRetry(d) \/ Park(d) \/ Finalize(d) \/ Crash(d)
    BY <2>3, RepeatOther
  <2> QED BY <1>3, <2>1, <2>2, <2>3 DEF DriveSteps
<1>4. ASSUME Environment \/ (\E d \in Drivers : RenewLease(d)) \/ UNCHANGED vars
      PROVE  RepeatInv'
  <2>1. UNCHANGED <<pc, cx, effects, world>> /\ NoneConsumed /\ ApprovalsKept(approvals')
    BY <1>4, OutsideMoves, OutsideNone
  <2>2. \A j : Times(j)' = Times(j) /\ Allowed(j)' = Allowed(j)
    BY <2>1, AllowedSame DEF Times
  <2>3. ASSUME NEW e \in Drivers PROVE AboutTo(e)'
    <3>1. AboutTo(e) /\ pc'[e] = pc[e] /\ cx'[e] = cx[e]
        BY <2>1 DEF RepeatInv
    <3> QED BY <2>2, <3>1 DEF AboutTo, OwnArgs
  <2> QED BY <1>1, <2>1, <2>3
<1> QED BY <1>2, <1>3, <1>4 DEF Next, Finished

-----------------------------------------------------------------------------
(* An attempt starts with nothing left to ask *)

NothingToAsk ==
    /\ PendingApprovals(approvals) = {}
    /\ \A k \in Keys : effects[k].state = "unknown" => Closed(k) # {}

AskedInv == \A d \in Drivers : pc[d] = "start" => NothingToAsk

\* The run waits for nothing only when no approval is pending.
LEMMA NoQuestions ==
    ASSUME TypeInv, approvals' \in Seq(ApprovalRow), 0 \in Questions(approvals')
    PROVE  PendingApprovals(approvals') = {}
<1>1. DOMAIN approvals' \subseteq Nat /\ 0 \notin DOMAIN approvals'
    BY LenProperties
<1>2. PendingApprovals(approvals') \subseteq DOMAIN approvals'
    BY DEF PendingApprovals
<1>3. PendingApprovalForRun(approvals') = 0
    BY <1>1, <1>2 DEF Questions
<1>4. ASSUME PendingApprovals(approvals') # {} PROVE FALSE
  <2>1. \E x \in PendingApprovals(approvals') : \A y \in PendingApprovals(approvals') : x <= y
    BY <1>1, <1>2, <1>4, SmallestIn
  <2>2. PendingApprovalForRun(approvals') \in PendingApprovals(approvals')
    BY <1>4, <2>1 DEF PendingApprovalForRun
  <2> QED BY <1>1, <1>2, <1>3, <2>2
<1> QED BY <1>4

LEMMA AskedEnsure ==
    ASSUME TypeInv, NEW d \in Drivers, Ensure(d), pc'[d] = "start"
    PROVE  NothingToAsk'
<1>1. 0 \in Questions(approvals') /\ UNCHANGED effects
  <2>1. pc \in [Drivers -> Labels]
    BY DEF TypeInv, TypeOK
  <2>2. \A l : pc' = [pc EXCEPT ![d] = l] => l = "start"
    BY <2>1
  <2> QED BY <2>2 DEF Ensure, Goto
<1>2. /\ ApprovalsKept(approvals')
      /\ \A i \in DOMAIN approvals : approvals'[i] = approvals[i]
      /\ \A i \in DOMAIN approvals' : i \notin DOMAIN approvals => approvals'[i].state = "pending"
      /\ Unasked # {} => \E i \in DOMAIN approvals' : i \notin DOMAIN approvals
    BY EnsureAsks
<1>3. PendingApprovals(approvals') = {}
    BY <1>1, <1>2, NoQuestions DEF ApprovalsKept
<1>4. Unasked = {}
    BY <1>2, <1>3 DEF PendingApprovals
<1>5. ASSUME NEW k \in Keys, effects[k].state = "unknown"
      PROVE  Closed(k)' # {}
  <2> DEFINE i == FindApproval(approvals, k, effects[k].args)
  <2>1. i # 0 /\ Live(approvals[i], "effect_unknown")
    BY <1>4, <1>5 DEF Unasked
  <2>2. i \in DOMAIN approvals /\ approvals[i].key = k /\ approvals[i].args = effects[k].args
    BY <2>1, FindApprovalType
  <2> PICK n : n = i
    OBVIOUS
  <2>3. n \in DOMAIN approvals' /\ approvals'[n] = approvals[n]
    BY <1>2, <2>2 DEF ApprovalsKept
  <2>4. approvals'[n].state # "pending"
    BY <1>3, <2>3 DEF PendingApprovals
  <2>5. approvals'[n].reason = "effect_unknown" /\ ~approvals'[n].consumed /\ approvals'[n].key = k
        /\ approvals'[n].args = effects'[k].args
    BY <1>1, <2>1, <2>2, <2>3 DEF Live
  <2>6. n \in Closed(k)'
    BY <2>3, <2>4, <2>5 DEF Closed
  <2> QED BY <2>6
<1> QED BY <1>1, <1>3, <1>5 DEF NothingToAsk

\* Only ensure finds that an attempt may start.
LEMMA OnlyEnsureStarts ==
    ASSUME NEW d \in Drivers, TypeInv, DriveSteps(d) \/ Crash(d), ~Ensure(d)
    PROVE  pc'[d] # "start"
<1>1. CASE Settle(d) \/ ReopenFailed(d) \/ AgentCalls(d)
    BY <1>1, CallGoes
<1>2. CASE \/ Step(d) \/ AgentSays(d) \/ AgentReads(d) \/ Gate(d) \/ MayDispatch(d)
           \/ MarkEffectDispatched(d) \/ Perform(d) \/ CommitEffect(d)
           \/ PerformFails(d) \/ PerformOutcomeUnknown(d)
    BY <1>2, AttemptGoes
<1>3. CASE \/ ReleaseLease(d) \/ Recover(d) \/ ReconcileNext(d) \/ LookUp(d) \/ WakeUp(d)
           \/ StartAttempt(d) \/ Crash(d)
    BY <1>3, DriveGoes
<1>4. CASE \/ ReadRun(d) \/ AgentFinishes(d) \/ AttemptFails(d) \/ CloseAttempt(d)
           \/ ScheduleRetry(d) \/ Park(d) \/ Expire(d) \/ Finalize(d)
  <2>1. \E l : l # "start" /\ pc' = [pc EXCEPT ![d] = l]
    BY <1>4 DEF ReadRun, AgentFinishes, AttemptFails, EndWithError, CloseAttempt,
       ScheduleRetry, Park, Expire, Finalize, Goto
  <2> QED BY <2>1 DEF TypeInv, TypeOK
<1> QED BY <1>1, <1>2, <1>3, <1>4 DEF DriveSteps

LEMMA AskedStep ==
    ASSUME TypeInv, OneDriver, AskedInv, [Next]_vars
    PROVE  AskedInv'
<1>1. ASSUME NEW d \in Drivers, AcquireLease(d) PROVE AskedInv'
  <2>1. \A e \in Drivers : pc'[e] # "start"
    BY <1>1, AcquireAlone
  <2> QED BY <2>1 DEF AskedInv
<1>2. ASSUME NEW d \in Drivers, DriveSteps(d) \/ Crash(d) PROVE AskedInv'
  <2>1. \A e \in Drivers \ {d} : pc'[e] = "idle"
    BY <1>2, StepMoves, Alone
  <2>2. pc'[d] = "start" => NothingToAsk'
    BY <1>2, OnlyEnsureStarts, AskedEnsure
  <2> QED BY <2>1, <2>2 DEF AskedInv
<1>3. ASSUME Environment \/ (\E d \in Drivers : RenewLease(d)) \/ UNCHANGED vars
      PROVE  AskedInv'
  <2>1. UNCHANGED <<pc, effects>> /\ ApprovalsKept(approvals')
    BY <1>3, OutsideMoves, OutsideNone
  <2>2. ASSUME NothingToAsk PROVE NothingToAsk'
    <3>1. \A i \in DOMAIN approvals : approvals[i].state # "pending"
        BY <2>2 DEF NothingToAsk, PendingApprovals
    <3>2. /\ DOMAIN approvals' = DOMAIN approvals
          /\ \A i \in DOMAIN approvals :
                /\ approvals'[i].state = approvals[i].state
                /\ approvals'[i].consumed = approvals[i].consumed
      <4>1. CASE UNCHANGED approvals
        BY <4>1
      <4>2. ASSUME NEW i \in DOMAIN approvals, approvals' = [approvals EXCEPT ![i].due = TRUE]
            PROVE  /\ DOMAIN approvals' = DOMAIN approvals
                   /\ \A j \in DOMAIN approvals :
                         /\ approvals'[j].state = approvals[j].state
                         /\ approvals'[j].consumed = approvals[j].consumed
        <5> DEFINE row == [approvals[i] EXCEPT !.due = TRUE]
        <5>1. row.state = approvals[i].state /\ row.consumed = approvals[i].consumed
            BY ApprovalType DEF ApprovalRow
        <5>2. approvals' = [approvals EXCEPT ![i] = row]
            BY <4>2
        <5> HIDE DEF row
        <5> QED BY <5>1, <5>2, ApprovalType
      <4>3. \/ UNCHANGED approvals
            \/ \E i \in DOMAIN approvals : approvals' = [approvals EXCEPT ![i].due = TRUE]
        BY <1>3, <3>1 DEF Environment, RequestCancel, BackoffElapses, LeaseLapses,
           RenewLease, vars, ApprovalTimeout, DecideApproval
      <4> QED BY <4>1, <4>2, <4>3
    <3>3. PendingApprovals(approvals') = {}
        BY <3>1, <3>2 DEF PendingApprovals
    <3>4. \A k \in Keys : Closed(k) \subseteq Closed(k)'
        BY <2>1, <3>2 DEF Closed, ApprovalsKept
    <3> QED BY <2>1, <2>2, <3>3, <3>4 DEF NothingToAsk
  <2> QED BY <2>1, <2>2 DEF AskedInv
<1> QED BY <1>1, <1>2, <1>3 DEF Next, Finished

\* Only StartAttempt inserts an attempt.
LEMMA AttemptsGrow ==
    ASSUME TypeInv, [Next]_vars, Len(attempts') > Len(attempts)
    PROVE  \E d \in Drivers : StartAttempt(d)
<1>1. attempts \in Seq(AttemptRow) /\ Len(attempts) \in Nat
    BY DEF TypeInv, TypeOK, TablesOK
<1>2. ASSUME NEW n, NEW row, attempts' = [attempts EXCEPT ![n] = row] PROVE FALSE
    BY <1>1, <1>2
<1>3. ~UNCHANGED attempts
    BY <1>1
<1>4. ASSUME NEW d \in Drivers, DriveSteps(d) \/ Crash(d) \/ AcquireLease(d)
      PROVE  StartAttempt(d)
  <2>1. CASE AgentFinishes(d) \/ CloseAttempt(d) \/ Recover(d)
    BY <1>2, <2>1 DEF AgentFinishes, CloseAttempt, Recover, EndAttempt
  <2>4. ASSUME NEW kind, NEW retryable, EndWithError(d, kind, retryable) PROVE FALSE
    BY <1>2, <2>4 DEF EndWithError, EndAttempt
  <2>5. CASE AttemptFails(d)
    BY <2>4, <2>5, ZenonT(20) DEF AttemptFails
  <2>2. CASE \/ ReleaseLease(d) \/ WakeUp(d) \/ Crash(d) \/ ScheduleRetry(d) \/ Park(d)
             \/ Expire(d) \/ Finalize(d) \/ ReadRun(d) \/ Ensure(d) \/ ReconcileNext(d)
             \/ LookUp(d) \/ Settle(d) \/ ReopenFailed(d) \/ AgentCalls(d)
             \/ AcquireLease(d)
    BY <1>3, <2>2 DEF ReleaseLease, WakeUp, Crash, ScheduleRetry, Park, Expire, Finalize,
       ReadRun, Ensure, ReconcileNext, LookUp, Settle, ReopenFailed, AgentCalls,
       AcquireLease
  <2>3. CASE \/ Step(d) \/ AgentSays(d) \/ AgentReads(d) \/ Gate(d) \/ MayDispatch(d)
             \/ MarkEffectDispatched(d) \/ Perform(d) \/ CommitEffect(d)
             \/ PerformFails(d) \/ PerformOutcomeUnknown(d)
    BY <1>3, <2>3, AttemptGoes
  <2> QED BY <1>4, <2>1, <2>2, <2>3, <2>5 DEF DriveSteps
<1>5. ~(Environment \/ (\E d \in Drivers : RenewLease(d)) \/ UNCHANGED vars)
    BY <1>3, OutsideMoves
<1> QED BY <1>4, <1>5 DEF Next, Finished

-----------------------------------------------------------------------------
(* The quiet world *)

QuietInv ==
    OneDriver /\ SealedInv /\ AttemptsInv /\ CallsInv /\ PaidInv /\ RepeatInv /\ AskedInv

LEMMA QuietInit == Init => QuietInv
<1> SUFFICES ASSUME Init PROVE QuietInv
    OBVIOUS
<1>1. \A d \in Drivers : pc[d] = "idle"
    BY DEF Init
<1>2. OneDriver /\ CallsInv /\ AskedInv
    BY <1>1 DEF OneDriver, CallsInv, CallAt, RowAt, InCall, AskedInv
<1>3. SealedInv
    BY <1>1 DEF Init, SealedInv, SealedIsFinal
<1>4. AttemptsInv
  <2>1. Counted(attempts) = {} /\ RunningOpen
    BY DEF Init, Counted, RunningOpen
  <2>2. Cardinality(Counted(attempts)) <= MaxAttempts
    BY <2>1, FS_EmptySet, BoundsAssumption
  <2> QED BY <1>1, <2>1, <2>2 DEF AttemptsInv, InAttempt, InCall
<1>5. PaidInv
    BY <1>1 DEF Init, PaidInv, Pays, InFlight
<1>6. RepeatInv
  <2>1. KeyArgs
    BY DEF Init, KeyArgs, NoEffect
  <2>2. \A k : Times(k) = 0 /\ Allowed(k) = 1
    <3>1. \A k : {i \in DOMAIN world : world[i].key = k} = {} /\ Used(k) = {}
        BY DEF Init, Used
    <3>2. Cardinality({}) = 0
        BY FS_EmptySet
    <3> QED BY <3>1, <3>2 DEF Times, Allowed, Used
  <2>3. NoSilentRepeat
    BY <2>2 DEF NoSilentRepeat
  <2>4. \A d \in Drivers : AboutTo(d)
    BY <1>1 DEF AboutTo
  <2> QED BY <2>1, <2>3, <2>4 DEF RepeatInv
<1> QED BY <1>2, <1>3, <1>4, <1>5, <1>6 DEF QuietInv

\* As long as no lease lapses under a live driver, every step keeps it.
LEMMA QuietKept ==
    ASSUME TypeInv, SingleUseInv, FinishInv, Quiet => QuietInv, [Next]_vars, Quiet'
    PROVE  Quiet /\ QuietInv /\ QuietInv'
<1>1. Quiet /\ QuietInv
    BY QuietBefore
<1>2. OneDriver' /\ SealedInv'
    BY <1>1, OneDriverStep, SealedStep DEF QuietInv
<1>3. AttemptsInv' /\ CallsInv'
    BY <1>1, AttemptsStep, CallsStep DEF QuietInv
<1>4. PaidInv' /\ RepeatInv' /\ AskedInv'
    BY <1>1, PaidStep, RepeatStep, AskedStep DEF QuietInv
<1> QED BY <1>1, <1>2, <1>3, <1>4 DEF QuietInv

LEMMA QuietInvariant == Spec => [](TypeInv /\ SingleUseInv /\ FinishInv /\ (Quiet => QuietInv))
<1>1. Init => TypeInv /\ SingleUseInv /\ FinishInv /\ (Quiet => QuietInv)
    BY TypeInit, SingleUseInit, FinishInit, QuietInit
<1>2. TypeInv /\ SingleUseInv /\ FinishInv /\ (Quiet => QuietInv) /\ [Next]_vars =>
        (TypeInv /\ SingleUseInv /\ FinishInv /\ (Quiet => QuietInv))'
    BY TypeStep, SingleUseStep, FinishStep, QuietKept
<1> QED BY <1>1, <1>2, PTL DEF Spec

\* The lease: while no heartbeat has come too late, one process drives the run and
\* it is the holder, whatever processes die and take over.
THEOREM OneDriverQuiet == Spec => [](faults.lapses = 0 => OneDriver)
<1>1. Quiet /\ QuietInv => OneDriver
    BY DEF QuietInv
<1> QED BY <1>1, QuietInvariant, PTL DEF Quiet

\* G9: nothing changes a finished run, its attempts and its effects once they are
\* sealed.
THEOREM SealHolds == Spec => [](faults.lapses = 0 => SealedIsFinal)
<1>1. QuietInv => SealedIsFinal
    BY DEF QuietInv, SealedInv
<1> QED BY <1>1, QuietInvariant, PTL DEF Quiet

\* G5: deaths, interruptions and retries start no more attempts than
\* max_attempts, not counting those that ended in an approval wait.
THEOREM AttemptsBounded == Spec => [](faults.lapses = 0 => BoundedAttempts)
<1>1. QuietInv => BoundedAttempts
    BY DEF QuietInv, AttemptsInv, BoundedAttempts, Counted
<1> QED BY <1>1, QuietInvariant, PTL DEF Quiet

\* G7: a gated call that took effect carried the args its approval was granted
\* for.
THEOREM ArgsBound == Spec => [](faults.lapses = 0 => ApprovalBindsArgs)
<1>1. SingleUseInv /\ QuietInv => ApprovalBindsArgs
    BY DEF QuietInv, PaidInv, SingleUseInv, SpentInWorld, ApprovalBindsArgs
<1> QED BY <1>1, QuietInvariant, PTL DEF Quiet

\* G3 and G4: no external call is repeated but on an answer "perform it once
\* more" consumed for it, and the ledger lets none pass that took effect.
THEOREM NeverRepeated == Spec => [](faults.lapses = 0 => NoSilentRepeat)
<1>1. QuietInv => NoSilentRepeat
    BY DEF QuietInv, RepeatInv
<1> QED BY <1>1, QuietInvariant, PTL DEF Quiet

\* G4: an attempt starts with no approval pending, and with a closed question
\* for every unknown outcome that no earlier repetition used up.
THEOREM AskedFirst == Spec /\ [](faults.lapses = 0) => AskedBeforeStart
<1>1. ASSUME TypeInv, Quiet => QuietInv, Quiet, [Next]_vars, Len(attempts') > Len(attempts)
      PROVE  /\ PendingApprovals(approvals) = {}
             /\ \A k \in Keys : effects[k].state = "unknown" => Closed(k) # {}
  <2>1. PICK d \in Drivers : StartAttempt(d)
    BY <1>1, AttemptsGrow
  <2> QED BY <1>1, <2>1 DEF QuietInv, AskedInv, NothingToAsk, StartAttempt
<1>2. TypeInv /\ (Quiet => QuietInv) /\ Quiet /\ [Next]_vars =>
        [Len(attempts') > Len(attempts) =>
            /\ PendingApprovals(approvals) = {}
            /\ \A k \in Keys : effects[k].state = "unknown" => Closed(k) # {}]_vars
    BY <1>1
<1> QED BY <1>2, QuietInvariant, PTL DEF Spec, AskedBeforeStart, Quiet

-----------------------------------------------------------------------------
(* The run keeps its promise *)

Promised == {k \in Keys : OwnArgs(k)}

\* What the promise sees of a run.
Outcome == IF run.sealed THEN run.state ELSE "active"
PerformedCount == [k \in Promised |-> Times(k)]
AllowedCount == [k \in Promised |-> Allowed(k)]

\* What a sealed run allows changes nothing the promise sees.
LEMMA SealedStutters ==
    ASSUME TypeInv, SingleUseInv, OneDriver, SealedInv, [Next]_vars, run.sealed
    PROVE  /\ run'.sealed /\ run'.state = run.state /\ UNCHANGED world
           /\ NoneConsumed /\ ApprovalsKept(approvals')
<1>1. ASSUME NEW d \in Drivers PROVE ~AcquireLease(d)
    BY DEF AcquireLease, ActiveStates, TerminalStates, SealedInv, SealedIsFinal
<1>2. ASSUME NEW d \in Drivers, DriveSteps(d) \/ Crash(d)
      PROVE  UNCHANGED <<run, world, approvals>>
  <2>1. ReleaseLease(d) \/ Crash(d)
    BY <1>2, OnTheWayOut DEF SealedInv
  <2> QED BY <2>1 DEF ReleaseLease, Crash
<1>3. ASSUME Environment \/ (\E d \in Drivers : RenewLease(d)) \/ UNCHANGED vars
      PROVE  /\ run'.sealed /\ run'.state = run.state /\ UNCHANGED world
             /\ NoneConsumed /\ ApprovalsKept(approvals')
  <2>1. run'.sealed = run.sealed /\ run'.state = run.state
    BY <1>3 DEF Environment, RequestCancel, BackoffElapses, LeaseLapses, ApprovalTimeout,
       DecideApproval, RenewLease, vars, TypeInv, TypeOK, TablesOK, RunRow
  <2> QED BY <1>3, <2>1, OutsideMoves, OutsideNone
<1> QED BY <1>1, <1>2, <1>3, SameNone DEF Next, Finished

\* A step that performs and consumes nothing counts nothing.
LEMMA SameCounts ==
    ASSUME TypeInv, UNCHANGED world, NoneConsumed, ApprovalsKept(approvals')
    PROVE  PerformedCount' = PerformedCount /\ AllowedCount' = AllowedCount
<1>1. \A k : Times(k)' = Times(k) /\ Allowed(k)' = Allowed(k)
    BY AllowedSame DEF Times
<1>2. Promised' = Promised
    BY DEF Promised, OwnArgs
<1> QED BY <1>1, <1>2 DEF PerformedCount, AllowedCount

\* Only finalizeRunSync changes what the promise sees of the outcome.
LEMMA SameOutcome ==
    ASSUME TypeInv, ~run.sealed, run'.sealed = run.sealed
    PROVE  Outcome = "active" /\ Outcome' = Outcome
    BY DEF Outcome

\* What the promise allows a step to do.
PromisedStep ==
    \/ /\ Outcome = "active" /\ Outcome' \in TerminalStates
       /\ UNCHANGED <<PerformedCount, AllowedCount>>
    \/ \E k \in Promised :
          /\ Outcome = "active" /\ PerformedCount[k] < AllowedCount[k]
          /\ PerformedCount' = [PerformedCount EXCEPT ![k] = PerformedCount[k] + 1]
          /\ UNCHANGED <<Outcome, AllowedCount>>
    \/ \E k \in Promised :
          /\ Outcome = "active"
          /\ AllowedCount' = [AllowedCount EXCEPT ![k] = AllowedCount[k] + 1]
          /\ UNCHANGED <<Outcome, PerformedCount>>
    \/ UNCHANGED <<Outcome, PerformedCount, AllowedCount>>

\* A call that takes effect was allowed.
LEMMA PerformPromised ==
    ASSUME TypeInv, OneDriver, CallsInv, RepeatInv, ~run.sealed,
           NEW d \in Drivers, Perform(d)
    PROVE  PromisedStep
<1>1. pc[d] = "perform" /\ UNCHANGED <<run, approvals>>
    BY DEF Perform
<1> PICK k \in Keys : k = cx[d].call.key
    BY <1>1, InCallTypes DEF InCall
<1>2. \A j : Times(j)' = IF k = j THEN Times(j) + 1 ELSE Times(j)
    BY PerformCounts
<1>3. \A j : Allowed(j)' = Allowed(j)
    BY <1>1, SameNone, AllowedSame
<1>4. Outcome = "active" /\ Outcome' = Outcome /\ Promised' = Promised
    BY <1>1 DEF Outcome, Promised, OwnArgs
<1>5. AllowedCount' = AllowedCount
    BY <1>3, <1>4 DEF AllowedCount
<1>6. PerformedCount' = [j \in Promised |-> IF k = j THEN Times(j) + 1 ELSE Times(j)]
    BY <1>2, <1>4 DEF PerformedCount
<1>7. CASE k \in Promised
  <2>1. Times(k) < Allowed(k)
    BY <1>1, <1>7 DEF RepeatInv, AboutTo, Promised
  <2>2. PerformedCount[k] < AllowedCount[k]
    BY <1>7, <2>1 DEF PerformedCount, AllowedCount
  <2>3. PerformedCount' = [PerformedCount EXCEPT ![k] = PerformedCount[k] + 1]
    BY <1>6, <1>7 DEF PerformedCount
  <2> QED BY <1>4, <1>5, <1>7, <2>2, <2>3 DEF PromisedStep
<1>8. CASE k \notin Promised
  <2>1. PerformedCount' = PerformedCount
    BY <1>6, <1>8 DEF PerformedCount
  <2> QED BY <1>4, <1>5, <2>1 DEF PromisedStep
<1> QED BY <1>7, <1>8

\* An answer "perform it once more" that is consumed allows its call once more.
LEMMA GatePromised ==
    ASSUME TypeInv, OneDriver, ~run.sealed, NEW d \in Drivers, Gate(d)
    PROVE  PromisedStep
<1>1. UNCHANGED <<run, world>>
    BY DEF Gate
<1>2. Outcome = "active" /\ Outcome' = Outcome /\ Promised' = Promised
    BY <1>1 DEF Outcome, Promised, OwnArgs
<1>3. CASE GateRefuses(d)
  <2>1. PerformedCount' = PerformedCount /\ AllowedCount' = AllowedCount
    BY <1>1, <1>3, SameCounts DEF GateRefuses
  <2> QED BY <1>2, <2>1 DEF PromisedStep
<1>4. ASSUME NEW i, GatePasses(d, i) PROVE PromisedStep
  <2> PICK k \in Keys : k = approvals[i].key
    BY <1>4, ApprovalType DEF GatePasses
  <2>1. \A j : Allowed(j)' = IF approvals[i].reason = "effect_unknown" /\ k = j
                             THEN Allowed(j) + 1 ELSE Allowed(j)
    BY <1>4, AllowedConsume DEF GatePasses
  <2>2. PerformedCount' = PerformedCount
    BY <1>1, <1>2 DEF PerformedCount, Times
  <2>3. CASE approvals[i].reason = "effect_unknown" /\ k \in Promised
    <3>1. AllowedCount' = [j \in Promised |-> IF k = j THEN Allowed(j) + 1 ELSE Allowed(j)]
        BY <1>2, <2>1, <2>3 DEF AllowedCount
    <3>2. AllowedCount' = [AllowedCount EXCEPT ![k] = AllowedCount[k] + 1]
        BY <2>3, <3>1 DEF AllowedCount
    <3> QED BY <1>2, <2>2, <2>3, <3>2 DEF PromisedStep
  <2>4. CASE ~(approvals[i].reason = "effect_unknown" /\ k \in Promised)
    <3>1. AllowedCount' = AllowedCount
        BY <1>2, <2>1, <2>4 DEF AllowedCount
    <3> QED BY <1>2, <2>2, <3>1 DEF PromisedStep
  <2> QED BY <2>3, <2>4
<1> QED BY <1>3, <1>4, GateSplit

\* Every step of a quiet run is a step of the promise or a stutter.
LEMMA PromiseStep ==
    ASSUME TypeInv, SingleUseInv, FinishInv, QuietInv, [Next]_vars
    PROVE  PromisedStep
<1>i. OneDriver /\ SealedInv /\ CallsInv /\ RepeatInv
    BY DEF QuietInv
<1>1. CASE run.sealed
  <2>1. /\ run'.sealed /\ run'.state = run.state /\ UNCHANGED world
        /\ NoneConsumed /\ ApprovalsKept(approvals')
    BY <1>i, <1>1, SealedStutters
  <2>2. Outcome' = Outcome
    BY <1>1, <2>1 DEF Outcome
  <2> QED BY <2>1, <2>2, SameCounts DEF PromisedStep
<1>2. CASE ~run.sealed
  <2>1. ASSUME run'.sealed = run.sealed, UNCHANGED world, NoneConsumed,
               ApprovalsKept(approvals')
        PROVE  PromisedStep
    BY <1>2, <2>1, SameOutcome, SameCounts DEF PromisedStep
  <2>2. ASSUME NEW d \in Drivers, DriveSteps(d) \/ Crash(d) \/ AcquireLease(d)
        PROVE  PromisedStep
    <3>1. CASE Finalize(d)
      <4>1. /\ run'.sealed /\ run'.state \in TerminalStates
            /\ UNCHANGED <<approvals, world>>
        BY <1>i, <3>1, FinalizeSeals
      <4>2. Outcome = "active" /\ Outcome' \in TerminalStates
        BY <1>2, <4>1 DEF Outcome
      <4> QED BY <4>1, <4>2, SameNone, SameCounts DEF PromisedStep
    <3>2. CASE Perform(d) \/ Gate(d)
        BY <1>i, <1>2, <3>2, PerformPromised, GatePromised
    <3>3. CASE ~Finalize(d) /\ ~Perform(d) /\ ~Gate(d)
      <4>1. run'.sealed = run.sealed
        BY <2>2, <3>3, OnlyFinalizeSeals
      <4>2. UNCHANGED world
        BY <2>2, <3>3, UseStep DEF UseKept
      <4>3. NoneConsumed /\ ApprovalsKept(approvals')
        BY <2>2, <3>3, DriveNone
      <4> QED BY <2>1, <4>1, <4>2, <4>3
    <3> QED BY <3>1, <3>2, <3>3
  <2>3. ASSUME Environment \/ (\E d \in Drivers : RenewLease(d)) \/ UNCHANGED vars
        PROVE  PromisedStep
    <3>1. run'.sealed = run.sealed
        BY <2>3 DEF Environment, RequestCancel, BackoffElapses, LeaseLapses,
           ApprovalTimeout, DecideApproval, RenewLease, vars, TypeInv, TypeOK, TablesOK,
           RunRow
    <3> QED BY <2>1, <2>3, <3>1, OutsideMoves, OutsideNone
  <2> QED BY <2>2, <2>3 DEF Next, Finished
<1> QED BY <1>1, <1>2

\* The run implements AgentJobPromise in every behaviour in which no lease lapses
\* under a live driver: calls that take effect are allowed ones, answers allow one
\* more each, and the run finishes once.
THEOREM PromiseKept == Spec /\ [](faults.lapses = 0) => KeepsPromise
<1>1. Init => Promise!Init
  <2> SUFFICES ASSUME Init PROVE Promise!Init
    OBVIOUS
  <2>1. ~run.sealed
    BY DEF Init
  <2>2. \A k : {i \in DOMAIN world : world[i].key = k} = {} /\ Used(k) = {}
    BY DEF Init, Used
  <2>3. \A k : Times(k) = 0 /\ Allowed(k) = 1
    BY <2>2, FS_EmptySet DEF Times, Allowed, Used
  <2> QED BY <2>1, <2>3 DEF Promise!Init
<1>2. TypeInv /\ SingleUseInv /\ FinishInv /\ QuietInv /\ [Next]_vars => [Promise!Next]_(Promise!vars)
  <2> SUFFICES ASSUME TypeInv, SingleUseInv, FinishInv, QuietInv, [Next]_vars
               PROVE  [Promise!Next]_(Promise!vars)
    OBVIOUS
  <2>1. PromisedStep
    BY PromiseStep
  <2> QED BY <2>1 DEF PromisedStep, Outcome, PerformedCount, AllowedCount, Promised,
       TerminalStates, Promise!Next, Promise!vars, Promise!Finish, Promise!Perform,
       Promise!AllowOnceMore, Promise!Outcomes
<1> QED BY <1>1, <1>2, QuietInvariant, PTL DEF Spec, KeepsPromise, Promise!Spec, Quiet
=============================================================================
