------------------------ MODULE AgentJobRun_proofs ------------------------
(***************************************************************************)
(* Proofs about AgentJobRun, for every set of drivers, keys, args and      *)
(* failures, and for any number of calls, deaths and lapsed leases.        *)
(***************************************************************************)
EXTENDS AgentJobRun, AgentJobLedger_proofs

-----------------------------------------------------------------------------
(* The inductive invariant: types *)

InCall == {"look", "settle", "reopen", "gate", "check", "mark", "perform",
           "performed"}

\* Rows: an effect that was intended has args, and approvals are about effects
\* that were intended.
KnownRows ==
    /\ \A k \in Keys : effects[k].state # "none" => effects[k].args \in Args
    /\ \A i \in DOMAIN approvals : effects[approvals[i].key].state # "none"

\* A driver at label l with the local state c: what it holds names rows that
\* exist in the tables ef (effects) and ap (approvals).
KnownIn(ef, ap, l, c) ==
    /\ \A k \in c.todo : ef[k].state # "none"
    /\ l \in InCall =>
          /\ c.call.key \in Keys
          /\ ef[c.call.key].state # "none"
          /\ l \notin {"look", "settle"} => c.call.from = "agent"
          /\ c.call.from = "agent" => c.call.args \in Args
    /\ l = "gate" => c.call.row.args \in Args
    /\ l = "park" \/ (l = "ended" /\ c.out = "park") => c.ask \in DOMAIN ap
    /\ l = "expire" \/ (l = "ended" /\ c.out = "expired") =>
          c.ask = 0 \/ c.ask \in DOMAIN ap

Known(l, c) == KnownIn(effects, approvals, l, c)

TypeInv == TypeOK /\ KnownRows /\ \A d \in Drivers : Known(pc[d], cx[d])

-----------------------------------------------------------------------------
(* The inductive invariant: single use *)

\* An approval that was granted and paid for a call.
Spent(i, k) ==
    /\ i \in DOMAIN approvals
    /\ approvals[i].key = k /\ approvals[i].state = "approved"
    /\ approvals[i].consumed

InFlight(d) == pc[d] \in {"check", "mark", "perform"}
Pays(d) == InFlight(d) /\ cx[d].call.approval # 0

\* What a driver in flight brings has been consumed for its key, and for nothing
\* that took effect or is in flight elsewhere.
SpentInFlight ==
    \A d \in Drivers :
        /\ pc[d] \in {"look", "settle", "reopen", "gate"} => cx[d].call.approval = 0
        /\ InFlight(d) /\ cx[d].call.key \in Gated => cx[d].call.approval # 0
        /\ Pays(d) =>
            /\ Spent(cx[d].call.approval, cx[d].call.key)
            /\ \A i \in DOMAIN world : world[i].approval # cx[d].call.approval
            /\ \A e \in Drivers :
                  Pays(e) /\ cx[e].call.approval = cx[d].call.approval => e = d

SpentInWorld ==
    \A i \in DOMAIN world :
        /\ world[i].key \in Gated => world[i].approval # 0
        /\ world[i].approval # 0 =>
            /\ Spent(world[i].approval, world[i].key)
            /\ \A j \in DOMAIN world :
                  world[j].approval = world[i].approval => i = j

SingleUseInv == SpentInFlight /\ SpentInWorld
-----------------------------------------------------------------------------
(* Lemmas about data *)

\* executeToolCall has an answer for every row.
LEMMA DisposeType ==
    ASSUME NEW k \in Keys, NEW row \in EffectRow
    PROVE  /\ Dispose(k, row) \in {"step", "look", "ended", "reopen", "gate", "check"}
           /\ Dispose(k, row) = "check" => k \notin Gated
    BY DEF Dispose, EffectRow, EffectStates, InDoubt, Answered

\* reconcileEffect writes a row that keeps its type and its args, whatever the verdict.
LEMMA SettledType ==
    ASSUME NEW row \in EffectRow, NEW v
    PROVE  /\ Settled(row, v) \in EffectRow
           /\ Settled(row, v).args = row.args /\ Settled(row, v).state # "none"
<1>1. \/ Settled(row, v) = Commit(row)
      \/ Settled(row, v) = Fail(row, "absent")
      \/ Settled(row, v) = MarkUnknown(row)
    BY DEF Settled
<1>2. "absent" \in Outcomes
    BY DEF Outcomes
<1> QED BY <1>1, <1>2, EffectRowOps

\* The rows a run starts from have their types.
LEMMA RowTypes ==
    /\ NoEffect \in EffectRow /\ NoCall \in Call /\ NoContext \in Context
    /\ 0 \in 0..(Providers - 1)
<1>1. NoEffect \in EffectRow
    BY DEF NoEffect, EffectRow, Outcomes
<1>2. NoCall \in Call
    BY <1>1 DEF NoCall, Call, Verdicts
<1>3. 0 \in 0..(Providers - 1) /\ 0 \in 0..MaxSteps
    BY BoundsAssumption
<1>4. NoContext \in Context
    BY <1>2, <1>3 DEF NoContext, Context, RunStates, ActiveStates, RunReasons, EndReasons
<1> QED BY <1>1, <1>2, <1>3, <1>4

\* Rows only come, and what was intended stays intended.
RowsGrow ==
    /\ \A k \in Keys : effects[k].state # "none" => effects'[k].state # "none"
    /\ DOMAIN approvals \subseteq DOMAIN approvals'

\* A pending run with empty tables satisfies the invariant.
LEMMA TypeInit == Init => TypeInv
<1> SUFFICES ASSUME Init PROVE TypeInv
    OBVIOUS
<1>1. TypeOK
    BY RowTypes, BoundsAssumption DEF Init, TypeOK, TablesOK, RunRow, RunStates,
       ActiveStates, RunReasons, EndReasons, Labels
<1>2. KnownRows
    BY DEF Init, KnownRows, NoEffect
<1>3. \A d \in Drivers : Known(pc[d], cx[d])
    BY DEF Init, Known, KnownIn, InCall, NoContext
<1> QED BY <1>1, <1>2, <1>3 DEF TypeInv

-----------------------------------------------------------------------------
(* Types: the shape of a driver's step *)

\* A step takes driver d to label l with the local state c, keeps the types and
\* lets the rows grow.
StepTo(d, l, c) ==
    /\ l \in Labels /\ c \in Context
    /\ pc' = [pc EXCEPT ![d] = l] /\ cx' = [cx EXCEPT ![d] = c]
    /\ TablesOK' /\ KnownRows' /\ RowsGrow /\ KnownIn(effects', approvals', l, c)

\* A driver's step described by StepTo keeps the invariant: the other drivers hold
\* rows that still exist.
LEMMA StepKeepsTypes ==
    ASSUME NEW d \in Drivers, NEW l, NEW c, TypeInv, StepTo(d, l, c)
    PROVE  TypeInv'
<1>1. pc' \in [Drivers -> Labels] /\ pc'[d] = l
    BY DEF StepTo, TypeInv, TypeOK
<1>2. cx' \in [Drivers -> Context] /\ cx'[d] = c
    BY DEF StepTo, TypeInv, TypeOK
<1>3. ASSUME NEW e \in Drivers PROVE Known(pc[e], cx[e])'
  <2>1. CASE e = d
    BY <1>1, <1>2, <2>1 DEF StepTo, Known
  <2>2. CASE e # d
    <3>1. pc'[e] = pc[e] /\ cx'[e] = cx[e] /\ cx[e].todo \subseteq Keys
        BY <2>2 DEF StepTo, TypeInv, TypeOK, Context
    <3>2. Known(pc[e], cx[e])
        BY DEF TypeInv
    <3> QED BY <3>1, <3>2 DEF StepTo, RowsGrow, Known, KnownIn
  <2> QED BY <2>1, <2>2
<1> QED BY <1>1, <1>2, <1>3 DEF StepTo, TypeInv, TypeOK

\* Most steps leave effects and approvals as they are.
LEMMA QuietStep ==
    ASSUME NEW d \in Drivers, NEW l \in Labels, NEW c \in Context, TypeInv,
           pc' = [pc EXCEPT ![d] = l], cx' = [cx EXCEPT ![d] = c],
           UNCHANGED <<effects, approvals>>, TablesOK', Known(l, c)
    PROVE  TypeInv'
<1>1. StepTo(d, l, c)
    BY DEF StepTo, TypeInv, KnownRows, RowsGrow, Known, KnownIn
<1> QED BY <1>1, StepKeepsTypes

\* The local states a driver leaves a phase with.
LEMMA Contexts ==
    /\ NoContext \in Context /\ NoContext.todo = {}
    /\ \A i \in Nat : Asking(i) \in Context /\ Asking(i).todo = {} /\ Asking(i).ask = i
    /\ \A s \in RunStates, r \in RunReasons :
          Ending(Fin(s, r)) \in Context /\ Ending(Fin(s, r)).todo = {}
<1>1. NoContext \in Context /\ NoContext.todo = {}
    BY RowTypes DEF NoContext
<1>2. ASSUME NEW i \in Nat
      PROVE  Asking(i) \in Context /\ Asking(i).todo = {} /\ Asking(i).ask = i
    BY <1>1 DEF Asking, Context
<1>3. ASSUME NEW s \in RunStates, NEW r \in RunReasons
      PROVE  Ending(Fin(s, r)) \in Context /\ Ending(Fin(s, r)).todo = {}
    BY <1>1, RowTypes DEF Ending, Fin, Context
<1> QED BY <1>1, <1>2, <1>3

\* Nothing but a driver's place changed: the tables keep their types.
LEMMA TablesKept ==
    ASSUME TablesOK, UNCHANGED <<run, lease, attempts, effects, approvals, notes,
                                 audit, world, calls, faults>>
    PROVE  TablesOK'
    BY DEF TablesOK

\* A driver that goes on with what it has and is not in a call.
LEMMA StayTypes ==
    ASSUME NEW d \in Drivers, TypeInv, NEW l \in Labels,
           l \notin InCall \cup {"ended", "park", "expire"},
           pc' = [pc EXCEPT ![d] = l], UNCHANGED cx,
           UNCHANGED <<effects, approvals>>, TablesOK'
    PROVE  TypeInv'
<1>1. cx' = [cx EXCEPT ![d] = cx[d]] /\ cx[d] \in Context /\ Known(pc[d], cx[d])
    BY DEF TypeInv, TypeOK
<1>2. Known(l, cx[d])
    BY <1>1 DEF Known, KnownIn, InCall
<1> QED BY <1>1, <1>2, QuietStep

\* A driver that forgets all but what its next phase needs.
Leaving == {"idle", "loop", "sleep", "release", "finalize", "retry"}

\* A driver that holds nothing more may go to any label that asks for nothing.
LEMMA LeavesTypes ==
    ASSUME NEW d \in Drivers, TypeInv, NEW l \in Leaving, NEW c \in Context,
           c.todo = {},
           pc' = [pc EXCEPT ![d] = l], cx' = [cx EXCEPT ![d] = c],
           UNCHANGED <<effects, approvals>>, TablesOK'
    PROVE  TypeInv'
<1>1. Known(l, c) /\ l \in Labels
    BY DEF Leaving, Known, KnownIn, InCall, Labels
<1> QED BY <1>1, QuietStep

\* A recorded cancel ends the attempt.
LEMMA CancelledTypes ==
    ASSUME NEW d \in Drivers, TypeInv, pc' = [pc EXCEPT ![d] = "ended"],
           cx' = [cx EXCEPT ![d].out = "cancelled"],
           UNCHANGED <<effects, approvals>>, TablesOK'
    PROVE  TypeInv'
<1> DEFINE c == [cx[d] EXCEPT !.out = "cancelled"]
<1>1. cx' = [cx EXCEPT ![d] = c] /\ cx[d] \in Context /\ Known(pc[d], cx[d])
    BY DEF TypeInv, TypeOK
<1>2. c \in Context /\ c.todo = cx[d].todo /\ c.out = "cancelled"
    BY <1>1 DEF Context
<1> HIDE DEF c
<1>3. Known("ended", c) /\ "ended" \in Labels
    BY <1>1, <1>2 DEF Known, KnownIn, InCall, Labels
<1> QED BY <1>1, <1>2, <1>3, QuietStep

\* approvalGate or ensureMayDispatch ends the attempt.
LEMMA EndWithTypes ==
    ASSUME NEW d \in Drivers, TypeInv, NEW out \in {"park", "expired", "cancelled"},
           NEW i \in Nat, EndWith(d, out, i),
           out = "park" => i \in DOMAIN approvals',
           out = "expired" => i = 0 \/ i \in DOMAIN approvals',
           TablesOK', KnownRows', RowsGrow
    PROVE  TypeInv'
<1> DEFINE c == [cx[d] EXCEPT !.out = out, !.ask = i, !.call = NoCall]
<1>1. pc' = [pc EXCEPT ![d] = "ended"] /\ cx' = [cx EXCEPT ![d] = c]
    BY DEF EndWith, Goto
<1>2. cx[d] \in Context /\ \A j \in cx[d].todo : effects'[j].state # "none"
    BY DEF TypeInv, TypeOK, Known, KnownIn, RowsGrow, Context
<1>3. c \in Context /\ c.todo = cx[d].todo /\ c.out = out /\ c.ask = i
    BY <1>2, RowTypes DEF Context
<1> HIDE DEF c
<1>4. KnownIn(effects', approvals', "ended", c) /\ "ended" \in Labels
    BY <1>2, <1>3 DEF KnownIn, InCall, Labels
<1> QED BY <1>1, <1>3, <1>4, StepKeepsTypes DEF StepTo

-----------------------------------------------------------------------------
(* Types: the actions *)

\* acquireLeaseSync changes the lease only.
LEMMA AcquireLeaseTypes ==
    ASSUME NEW d \in Drivers, TypeInv, AcquireLease(d) PROVE TypeInv'
<1>1. pc' = [pc EXCEPT ![d] = "loop"] /\ cx' = [cx EXCEPT ![d] = cx[d]]
    BY DEF AcquireLease, Goto, TypeInv, TypeOK
<1>2. TablesOK'
    BY DEF AcquireLease, TypeInv, TypeOK, TablesOK
<1>3. cx[d] \in Context /\ Known("loop", cx[d])
    BY DEF TypeInv, TypeOK, Known, KnownIn, InCall
<1> QED BY <1>1, <1>2, <1>3, QuietStep DEF AcquireLease, Labels

\* releaseLeaseSync changes the lease only.
LEMMA ReleaseLeaseTypes ==
    ASSUME NEW d \in Drivers, TypeInv, ReleaseLease(d) PROVE TypeInv'
<1>1. pc' = [pc EXCEPT ![d] = "idle"] /\ cx' = [cx EXCEPT ![d] = cx[d]]
    BY DEF ReleaseLease, Goto, TypeInv, TypeOK
<1>2. TablesOK'
    BY DEF ReleaseLease, TypeInv, TypeOK, TablesOK
<1>3. cx[d] \in Context /\ Known("idle", cx[d])
    BY DEF TypeInv, TypeOK, Known, KnownIn, InCall
<1> QED BY <1>1, <1>2, <1>3, QuietStep DEF ReleaseLease, Labels

\* A driver that dies holds nothing.
LEMMA CrashTypes ==
    ASSUME NEW d \in Drivers, TypeInv, Crash(d) PROVE TypeInv'
<1>1. pc' = [pc EXCEPT ![d] = "idle"] /\ cx' = [cx EXCEPT ![d] = NoContext]
    BY DEF Crash, Goto
<1>2. faults' \in [crashes : 0..MaxCrashes, lapses : 0..MaxLapses]
  <2>1. faults \in [crashes : 0..MaxCrashes, lapses : 0..MaxLapses]
    BY DEF TypeInv, TypeOK, TablesOK
  <2>2. faults.crashes + 1 \in 0..MaxCrashes
    BY <2>1, BoundsAssumption DEF Crash
  <2>3. faults' = [faults EXCEPT !.crashes = faults.crashes + 1]
    BY DEF Crash
  <2> QED BY <2>1, <2>2, <2>3
<1>4. TablesOK'
    BY <1>2 DEF Crash, TypeInv, TypeOK, TablesOK
<1>3. Known("idle", NoContext)
    BY Contexts DEF Known, KnownIn, InCall
<1> QED BY <1>1, <1>3, <1>4, Contexts, QuietStep DEF Crash, Labels

\* The top of the loop of driveLeased: the run and the attempts that were read have
\* their types.
LEMMA ReadRunTypes ==
    ASSUME NEW d \in Drivers, TypeInv, ReadRun(d) PROVE TypeInv'
<1>t. TablesOK' /\ UNCHANGED <<effects, approvals>>
    BY DEF ReadRun, TypeInv, TypeOK, TablesOK
<1>c. cx[d] \in Context /\ run \in RunRow /\ Len(attempts) \in Nat /\ Known(pc[d], cx[d])
    BY DEF TypeInv, TypeOK, TablesOK
<1>1. CASE pc' = [pc EXCEPT ![d] = "release"] /\ UNCHANGED cx
  <2>1. cx' = [cx EXCEPT ![d] = cx[d]] /\ Known("release", cx[d])
    BY <1>1, <1>c DEF TypeInv, TypeOK, Known, KnownIn, InCall
  <2> QED BY <1>t, <1>c, <1>1, <2>1, QuietStep DEF Labels
<1>2. CASE /\ pc' = [pc EXCEPT ![d] = "finalize"]
           /\ cx' = [cx EXCEPT ![d] = Ending(Fin("cancelled", "cancel_requested"))]
  <2>1. "cancelled" \in RunStates /\ "cancel_requested" \in RunReasons
    BY DEF RunStates, TerminalStates, RunReasons
  <2> DEFINE c == Ending(Fin("cancelled", "cancel_requested"))
  <2>2. c \in Context /\ Known("finalize", c)
    BY <2>1, Contexts DEF Known, KnownIn, InCall
  <2> QED BY <1>t, <1>2, <2>2, QuietStep DEF Labels
<1>3. ASSUME NEW l \in {"recover", "ensure"}, pc' = [pc EXCEPT ![d] = l],
             cx' = [cx EXCEPT ![d] =
                      [cx[d] EXCEPT !.run = [state |-> run.state, provider |-> run.provider],
                                    !.rows = Len(attempts)]]
      PROVE  TypeInv'
  <2> DEFINE r == [state |-> run.state, provider |-> run.provider]
             c == [cx[d] EXCEPT !.run = r, !.rows = Len(attempts)]
  <2>1. cx' = [cx EXCEPT ![d] = c]
    BY <1>3
  <2>2. c \in Context /\ c.todo = cx[d].todo
    BY <1>c DEF Context, RunRow
  <2>3. Known(l, c)
    BY <1>c, <2>2 DEF Known, KnownIn, InCall
  <2>4. l \in Labels
    BY DEF Labels
  <2> HIDE DEF c
  <2> QED BY <1>t, <1>3, <2>1, <2>2, <2>3, <2>4, QuietStep
<1> QED BY <1>1, <1>2, <1>3 DEF ReadRun, Goto

\* recover() marks an attempt and lists effects that were intended.
LEMMA RecoverTypes ==
    ASSUME NEW d \in Drivers, TypeInv, Recover(d) PROVE TypeInv'
<1> DEFINE n == cx[d].rows
           todo == {k \in Keys : InDoubt(effects[k])}
           c == [cx[d] EXCEPT !.todo = todo]
<1>c. cx[d] \in Context /\ attempts \in Seq(AttemptRow)
    BY DEF TypeInv, TypeOK, TablesOK
<1>1. attempts' \in Seq(AttemptRow)
  <2> PICK p \in Points :
        attempts' = [attempts EXCEPT ![n] = InterruptedAt(attempts[n], p)]
    BY DEF Recover
  <2>1. ASSUME n \in DOMAIN attempts PROVE InterruptedAt(attempts[n], p) \in AttemptRow
    <3>1. attempts[n] \in AttemptRow
        BY <1>c, <2>1, ElementOfSeq, LenProperties
    <3> QED BY <3>1 DEF InterruptedAt, AttemptRow, EndReasons
  <2> QED BY <1>c, <2>1, ExceptInSeq
<1>2. TablesOK'
    BY <1>1 DEF Recover, TypeInv, TypeOK, TablesOK
<1>3. pc' = [pc EXCEPT ![d] = "reconcile"] /\ cx' = [cx EXCEPT ![d] = c]
    BY DEF Recover, Goto
<1>4. c \in Context /\ Known("reconcile", c)
    BY <1>c DEF Context, Known, KnownIn, InCall, InDoubt
<1> QED BY <1>2, <1>3, <1>4, QuietStep DEF Recover, Labels

\* The next effect to look up is one that recovery listed.
LEMMA ReconcileNextTypes ==
    ASSUME NEW d \in Drivers, TypeInv, ReconcileNext(d) PROVE TypeInv'
<1>t. TablesOK' /\ UNCHANGED <<effects, approvals>>
  <2>1. UNCHANGED <<run, lease, attempts, effects, approvals, notes, audit, world,
                    calls, faults>>
    BY DEF ReconcileNext
  <2> QED BY <2>1, TablesKept DEF TypeInv, TypeOK
<1>c. cx[d] \in Context /\ Known(pc[d], cx[d])
    BY DEF TypeInv, TypeOK
<1>1. CASE pc' = [pc EXCEPT ![d] = "ensure"] /\ UNCHANGED cx
  <2>1. cx' = [cx EXCEPT ![d] = cx[d]] /\ Known("ensure", cx[d])
    BY <1>1, <1>c DEF TypeInv, TypeOK, Known, KnownIn, InCall
  <2> QED BY <1>t, <1>c, <1>1, <2>1, QuietStep DEF Labels
<1>2. ASSUME NEW k \in cx[d].todo, pc' = [pc EXCEPT ![d] = "look"],
             cx' = [cx EXCEPT ![d] = LookingUp(cx[d], k)]
      PROVE  TypeInv'
  <2> DEFINE call == [NoCall EXCEPT !.from = "recovery", !.key = k]
             c == [cx[d] EXCEPT !.todo = cx[d].todo \ {k}, !.call = call]
  <2>1. cx' = [cx EXCEPT ![d] = c]
    BY <1>2 DEF LookingUp
  <2>2. k \in Keys /\ effects[k].state # "none"
    BY <1>c DEF Context, Known, KnownIn
  <2>3. call \in Call /\ call.from = "recovery" /\ call.key = k
    BY <2>2, RowTypes DEF Call, NoCall
  <2> HIDE DEF call
  <2>4. c \in Context /\ c.todo \subseteq cx[d].todo /\ c.call = call
    BY <1>c, <2>3 DEF Context
  <2>5. Known("look", c)
    BY <1>c, <2>2, <2>3, <2>4 DEF Known, KnownIn, InCall
  <2> QED BY <1>t, <1>2, <2>1, <2>4, <2>5, QuietStep DEF Labels
<1>3. \/ pc' = [pc EXCEPT ![d] = "ensure"] /\ UNCHANGED cx
      \/ \E k \in cx[d].todo :
            /\ pc' = [pc EXCEPT ![d] = "look"]
            /\ cx' = [cx EXCEPT ![d] = LookingUp(cx[d], k)]
    BY DEF ReconcileNext, Goto
<1> QED BY <1>1, <1>2, <1>3

\* A look-up keeps the call and adds a verdict.
LEMMA LookUpTypes ==
    ASSUME NEW d \in Drivers, TypeInv, LookUp(d) PROVE TypeInv'
<1>t. TablesOK' /\ UNCHANGED <<effects, approvals>>
    BY DEF LookUp, TypeInv, TypeOK, TablesOK
<1>c. cx[d] \in Context /\ Known(pc[d], cx[d]) /\ pc[d] = "look"
    BY DEF TypeInv, TypeOK, LookUp
<1> PICK v \in Verdicts : cx' = [cx EXCEPT ![d].call.verdict = v]
    BY DEF LookUp, VerdictsOn, Verdicts
<1> DEFINE call == [cx[d].call EXCEPT !.verdict = v]
           c == [cx[d] EXCEPT !.call = call]
<1>1. cx' = [cx EXCEPT ![d] = c]
    OBVIOUS
<1>2. call \in Call /\ call.from = cx[d].call.from /\ call.key = cx[d].call.key
      /\ call.args = cx[d].call.args
    BY <1>c DEF Context, Call
<1> HIDE DEF call
<1>3. c \in Context /\ c.todo = cx[d].todo /\ c.call = call
    BY <1>c, <1>2 DEF Context
<1>4. Known("settle", c)
    BY <1>c, <1>2, <1>3 DEF Known, KnownIn, InCall
<1> QED BY <1>t, <1>1, <1>3, <1>4, QuietStep DEF LookUp, Goto, Labels

\* The end of a backoff moves the driver only.
LEMMA WakeUpTypes ==
    ASSUME NEW d \in Drivers, TypeInv, WakeUp(d) PROVE TypeInv'
<1>1. pc' = [pc EXCEPT ![d] = "loop"] /\ cx' = [cx EXCEPT ![d] = cx[d]]
    BY DEF WakeUp, Goto, TypeInv, TypeOK
<1>2. TablesOK'
    BY DEF WakeUp, TypeInv, TypeOK, TablesOK
<1>3. cx[d] \in Context /\ Known("loop", cx[d])
    BY DEF TypeInv, TypeOK, Known, KnownIn, InCall
<1> QED BY <1>1, <1>2, <1>3, QuietStep DEF WakeUp, Labels

\* One effect row changes, and no other table than `calls`.
LEMMA EffectTables ==
    ASSUME TypeInv, NEW k \in Keys, NEW row \in EffectRow,
           row.state # "none", row.args \in Args,
           effects' = [effects EXCEPT ![k] = row], calls' \in 0..MaxCalls,
           UNCHANGED <<run, lease, attempts, approvals, notes, audit, world, faults>>
    PROVE  TablesOK' /\ KnownRows' /\ RowsGrow /\ effects'[k].state # "none"
<1>1. TablesOK'
    BY DEF TypeInv, TypeOK, TablesOK
<1>2. effects \in [Keys -> EffectRow]
    BY DEF TypeInv, TypeOK, TablesOK
<1>3. \A j \in Keys : effects'[j] = IF j = k THEN row ELSE effects[j]
    BY <1>2
<1>4. \A i \in DOMAIN approvals : approvals[i].key \in Keys
  <2> TAKE i \in DOMAIN approvals
  <2>1. approvals \in Seq(ApprovalRow)
    BY DEF TypeInv, TypeOK, TablesOK
  <2>2. approvals[i] \in ApprovalRow
    BY <2>1, LenProperties, ElementOfSeq
  <2> QED BY <2>2 DEF ApprovalRow
<1>5. KnownRows'
    BY <1>3, <1>4 DEF TypeInv, KnownRows
<1>6. RowsGrow
    BY <1>3 DEF RowsGrow
<1> QED BY <1>1, <1>3, <1>5, <1>6

\* The same when the row keeps its args.
LEMMA SettledTables ==
    ASSUME TypeInv, NEW k \in Keys, NEW row \in EffectRow, effects[k].state # "none",
           row.state # "none", row.args = effects[k].args,
           effects' = [effects EXCEPT ![k] = row],
           UNCHANGED <<run, lease, attempts, approvals, notes, audit, world, calls, faults>>
    PROVE  TablesOK' /\ KnownRows' /\ RowsGrow /\ effects'[k].state # "none"
<1>1. row.args \in Args
    BY DEF TypeInv, KnownRows
<1>2. calls' \in 0..MaxCalls
    BY DEF TypeInv, TypeOK, TablesOK
<1> QED BY <1>1, <1>2, EffectTables

\* Follow leads a call of the agent to a label it is known at.
LEMMA FollowTypes ==
    ASSUME NEW d \in Drivers, TypeInv, NEW k \in Keys, NEW row \in EffectRow,
           NEW call \in Call, Follow(d, k, row, call),
           call.key = k, call.from = "agent", call.args \in Args, row.args \in Args,
           pc[d] # "ended", TablesOK', KnownRows', RowsGrow, effects'[k].state # "none"
    PROVE  TypeInv'
<1> DEFINE next == Dispose(k, row)
<1>c. cx[d] \in Context
    BY DEF TypeInv, TypeOK
<1>t. \A j \in cx[d].todo : effects'[j].state # "none"
    BY <1>c DEF TypeInv, Known, KnownIn, RowsGrow, Context
<1>n. /\ next \in {"step", "look", "ended", "reopen", "gate", "check"} /\ next \in Labels
      /\ pc' = [pc EXCEPT ![d] = next]
    BY DisposeType DEF Follow, Goto, Labels
<1> HIDE DEF next
<1>1. CASE next = "step"
  <2> DEFINE c == [cx[d] EXCEPT !.call = NoCall]
  <2>1. cx' = [cx EXCEPT ![d] = c]
    BY <1>1 DEF Follow, next
  <2>2. c \in Context /\ c.todo = cx[d].todo
    BY <1>c, RowTypes DEF Context
  <2> HIDE DEF c
  <2>3. KnownIn(effects', approvals', "step", c)
    BY <2>2, <1>t DEF Known, KnownIn, InCall
  <2> QED BY <1>1, <1>n, <2>1, <2>2, <2>3, StepKeepsTypes DEF StepTo
<1>2. CASE next = "ended"
  <2> DEFINE c == [cx[d] EXCEPT !.call = NoCall, !.out = "expired", !.ask = 0]
  <2>1. cx' = [cx EXCEPT ![d] = c]
    BY <1>2 DEF Follow, next
  <2>2. c \in Context /\ c.todo = cx[d].todo /\ c.ask = 0 /\ c.out = "expired"
    BY <1>c, RowTypes DEF Context
  <2> HIDE DEF c
  <2>3. KnownIn(effects', approvals', "ended", c)
    BY <2>2, <1>t DEF Known, KnownIn, InCall
  <2> QED BY <1>2, <1>n, <2>1, <2>2, <2>3, StepKeepsTypes DEF StepTo
<1>3. CASE next \in {"look", "reopen", "gate", "check"}
  <2> DEFINE now == [call EXCEPT !.row = row]
             c == [cx[d] EXCEPT !.call = now]
  <2>1. cx' = [cx EXCEPT ![d] = c]
    BY <1>3 DEF Follow, next
  <2>2. now \in Call /\ now.key = k /\ now.from = "agent" /\ now.args \in Args
        /\ now.row = row
    BY DEF Call
  <2> HIDE DEF now
  <2>3. c \in Context /\ c.todo = cx[d].todo /\ c.call = now
    BY <1>c, <2>2 DEF Context
  <2> HIDE DEF c
  <2>4. KnownIn(effects', approvals', next, c)
    BY <1>3, <1>t, <2>2, <2>3 DEF Known, KnownIn, InCall
  <2> QED BY <1>3, <1>n, <2>1, <2>3, <2>4, StepKeepsTypes DEF StepTo
<1> QED BY <1>1, <1>2, <1>3, <1>n

\* A call that is over, one way or the other.
LEMMA CallEndsTypes ==
    ASSUME NEW d \in Drivers, NEW l \in {"step", "reconcile"}, TypeInv,
           pc' = [pc EXCEPT ![d] = l], cx' = [cx EXCEPT ![d].call = NoCall],
           TablesOK', KnownRows', RowsGrow
    PROVE  TypeInv'
<1> DEFINE c == [cx[d] EXCEPT !.call = NoCall]
<1>c. cx[d] \in Context
    BY DEF TypeInv, TypeOK
<1>t. \A j \in cx[d].todo : effects'[j].state # "none"
    BY <1>c DEF TypeInv, Known, KnownIn, RowsGrow, Context
<1>1. cx' = [cx EXCEPT ![d] = c]
    OBVIOUS
<1>2. c \in Context /\ c.todo = cx[d].todo
    BY <1>c, RowTypes DEF Context
<1> HIDE DEF c
<1>3. KnownIn(effects', approvals', l, c) /\ l \in Labels
    BY <1>2, <1>t DEF KnownIn, InCall, Labels
<1> QED BY <1>1, <1>2, <1>3, StepKeepsTypes DEF StepTo

\* What is known of a driver that executes a call.
LEMMA InCallTypes ==
    ASSUME NEW d \in Drivers, TypeInv, pc[d] \in InCall
    PROVE  LET call == cx[d].call
           IN  /\ cx[d] \in Context /\ call \in Call /\ call.key \in Keys
               /\ effects[call.key] \in EffectRow /\ effects[call.key].state # "none"
               /\ effects[call.key].args \in Args
               /\ pc[d] \notin {"look", "settle"} => call.from = "agent"
               /\ call.from = "agent" => call.args \in Args
<1>1. cx[d] \in Context /\ Known(pc[d], cx[d]) /\ effects \in [Keys -> EffectRow]
    BY DEF TypeInv, TypeOK, TablesOK
<1>2. cx[d].call \in Call
    BY <1>1 DEF Context
<1> QED BY <1>1, <1>2 DEF TypeInv, KnownRows, Known, KnownIn

\* reconcileEffect settles one row, for recovery or for a call of the agent.
LEMMA SettleTypes ==
    ASSUME NEW d \in Drivers, TypeInv, Settle(d) PROVE TypeInv'
<1> DEFINE call == cx[d].call
           row == Settled(effects[call.key], call.verdict)
<1>1. pc[d] = "settle" /\ pc[d] \in InCall
    BY DEF Settle, InCall
<1>2. /\ call \in Call /\ call.key \in Keys /\ effects[call.key] \in EffectRow
      /\ effects[call.key].state # "none" /\ effects[call.key].args \in Args
      /\ call.from = "agent" => call.args \in Args
    BY <1>1, InCallTypes
<1>3. row \in EffectRow /\ row.state # "none" /\ row.args = effects[call.key].args
    BY <1>2, SettledType
<1>4. /\ effects' = [effects EXCEPT ![call.key] = row]
      /\ UNCHANGED <<run, lease, attempts, approvals, notes, audit, world, calls, faults>>
    BY DEF Settle
<1>5. \/ /\ pc' = [pc EXCEPT ![d] = "reconcile"]
         /\ cx' = [cx EXCEPT ![d].call = NoCall]
      \/ call.from = "agent" /\ Follow(d, call.key, row, call)
    BY DEF Settle, Goto
<1> HIDE DEF call, row
<1>6. TablesOK' /\ KnownRows' /\ RowsGrow /\ effects'[call.key].state # "none"
    BY <1>2, <1>3, <1>4, SettledTables
<1> QED BY <1>1, <1>2, <1>3, <1>5, <1>6, FollowTypes, CallEndsTypes

\* executeToolCall opens a failed row again before it performs the call.
LEMMA ReopenFailedTypes ==
    ASSUME NEW d \in Drivers, TypeInv, ReopenFailed(d) PROVE TypeInv'
<1> DEFINE call == cx[d].call
           row == Reopen(effects[call.key])
<1>1. pc[d] = "reopen" /\ pc[d] \in InCall
    BY DEF ReopenFailed, InCall
<1>2. /\ call \in Call /\ call.key \in Keys /\ effects[call.key] \in EffectRow
      /\ effects[call.key].state # "none" /\ effects[call.key].args \in Args
      /\ call.from = "agent" /\ call.args \in Args
    BY <1>1, InCallTypes
<1>3. row \in EffectRow /\ row.state # "none" /\ row.args = effects[call.key].args
    BY <1>2, EffectRowOps
<1>4. /\ effects' = [effects EXCEPT ![call.key] = row]
      /\ UNCHANGED <<run, lease, attempts, approvals, notes, audit, world, calls, faults>>
      /\ Follow(d, call.key, row, call)
    BY DEF ReopenFailed
<1> HIDE DEF call, row
<1>5. TablesOK' /\ KnownRows' /\ RowsGrow /\ effects'[call.key].state # "none"
    BY <1>2, <1>3, <1>4, SettledTables
<1> QED BY <1>1, <1>2, <1>3, <1>4, <1>5, FollowTypes

\* executeToolCall writes the intent: from here on the key has a row with args.
LEMMA AgentCallsTypes ==
    ASSUME NEW d \in Drivers, TypeInv, AgentCalls(d) PROVE TypeInv'
<1> PICK k \in Keys : \E a \in ArgsOf[k] :
        /\ effects' = [effects EXCEPT ![k] = Intend(effects[k], a)]
        /\ Follow(d, k, Intend(effects[k], a), Requested(k, a))
    BY DEF AgentCalls
<1> PICK a \in ArgsOf[k] :
        /\ effects' = [effects EXCEPT ![k] = Intend(effects[k], a)]
        /\ Follow(d, k, Intend(effects[k], a), Requested(k, a))
    OBVIOUS
<1> DEFINE row == Intend(effects[k], a)
           call == Requested(k, a)
<1>1. a \in Args
    BY KeysAssumption
<1>2. effects[k] \in EffectRow /\ (effects[k].state # "none" => effects[k].args \in Args)
      /\ run.cancel \in BOOLEAN
    BY DEF TypeInv, TypeOK, TablesOK, KnownRows, RunRow
<1>3. row \in EffectRow /\ row.state # "none" /\ row.args \in Args
    BY <1>1, <1>2, IntendType
<1>4. call \in Call /\ call.key = k /\ call.from = "agent" /\ call.args \in Args
    BY <1>1, <1>2, RowTypes DEF Requested, Call, NoCall
<1>5. /\ UNCHANGED <<run, lease, attempts, approvals, notes, audit, world, faults>>
      /\ calls' \in 0..MaxCalls /\ pc[d] = "agent"
    BY BoundsAssumption DEF AgentCalls, TypeInv, TypeOK, TablesOK
<1>6. Follow(d, k, row, call) /\ effects' = [effects EXCEPT ![k] = row]
    OBVIOUS
<1> HIDE DEF row, call
<1>7. TablesOK' /\ KnownRows' /\ RowsGrow /\ effects'[k].state # "none"
    BY <1>3, <1>5, <1>6, EffectTables
<1> QED BY <1>3, <1>4, <1>5, <1>6, <1>7, FollowTypes

\* The top of the step loop counts the step or ends the attempt.
LEMMA StepTypes ==
    ASSUME NEW d \in Drivers, TypeInv, Step(d) PROVE TypeInv'
<1>t. TablesOK' /\ UNCHANGED <<effects, approvals>>
    BY TablesKept DEF Step, TypeInv, TypeOK
<1>c. cx[d] \in Context /\ Known(pc[d], cx[d]) /\ cx[d].steps \in 0..MaxSteps
    BY DEF TypeInv, TypeOK, Context
<1>1. CASE pc' = [pc EXCEPT ![d] = "ended"] /\ cx' = [cx EXCEPT ![d].out = "cancelled"]
    BY <1>t, <1>1, CancelledTypes
<1>2. CASE /\ cx[d].steps < MaxSteps
           /\ pc' = [pc EXCEPT ![d] = "agent"] /\ cx' = [cx EXCEPT ![d].steps = @ + 1]
  <2> DEFINE c == [cx[d] EXCEPT !.steps = cx[d].steps + 1]
  <2>1. cx' = [cx EXCEPT ![d] = c]
    BY <1>2
  <2>2. cx[d].steps + 1 \in 0..MaxSteps
    BY <1>c, <1>2, BoundsAssumption
  <2>3. c \in Context /\ c.todo = cx[d].todo
    BY <1>c, <2>2 DEF Context
  <2> HIDE DEF c
  <2>4. Known("agent", c) /\ "agent" \in Labels
    BY <1>c, <2>3 DEF Known, KnownIn, InCall, Labels
  <2> QED BY <1>t, <1>2, <2>1, <2>3, <2>4, QuietStep
<1> QED BY <1>1, <1>2 DEF Step, Goto

\* An answer without a side effect moves the driver only.
LEMMA AgentSaysTypes ==
    ASSUME NEW d \in Drivers, TypeInv, AgentSays(d) PROVE TypeInv'
<1>t. TablesOK' /\ UNCHANGED <<effects, approvals>>
    BY TablesKept DEF AgentSays, TypeInv, TypeOK
<1>1. pc' = [pc EXCEPT ![d] = "step"] /\ UNCHANGED cx
    BY DEF AgentSays, Goto
<1> QED BY <1>t, <1>1, StayTypes DEF Labels, InCall

\* A read-only tool asks for the cancel and the lease, no more.
LEMMA AgentReadsTypes ==
    ASSUME NEW d \in Drivers, TypeInv, AgentReads(d) PROVE TypeInv'
<1>t. TablesOK' /\ UNCHANGED <<effects, approvals>>
    BY TablesKept DEF AgentReads, TypeInv, TypeOK
<1>1. CASE pc' = [pc EXCEPT ![d] = "ended"] /\ cx' = [cx EXCEPT ![d].out = "cancelled"]
    BY <1>t, <1>1, CancelledTypes
<1>2. CASE pc' = [pc EXCEPT ![d] = "step"] /\ UNCHANGED cx
    BY <1>t, <1>2, StayTypes DEF Labels, InCall
<1>3. CASE pc' = [pc EXCEPT ![d] = "idle"] /\ cx' = [cx EXCEPT ![d] = NoContext]
    BY <1>t, <1>3, LeavesTypes, Contexts DEF Leaving
<1> QED BY <1>1, <1>2, <1>3 DEF AgentReads, Goto

\* The args hash and ensureMayDispatch are reads.
LEMMA MayDispatchTypes ==
    ASSUME NEW d \in Drivers, TypeInv, MayDispatch(d) PROVE TypeInv'
<1>t. TablesOK' /\ UNCHANGED <<effects, approvals>>
    BY TablesKept DEF MayDispatch, TypeInv, TypeOK
<1>c. cx[d] \in Context /\ Known(pc[d], cx[d]) /\ pc[d] = "check"
    BY DEF TypeInv, TypeOK, MayDispatch
<1>1. CASE pc' = [pc EXCEPT ![d] = "step"] /\ cx' = [cx EXCEPT ![d].call = NoCall]
    BY <1>t, <1>1, CallEndsTypes DEF TypeInv, KnownRows, RowsGrow
<1>2. CASE EndWith(d, "cancelled", 0)
    BY <1>t, <1>2, EndWithTypes DEF TypeInv, KnownRows, RowsGrow
<1>3. CASE pc' = [pc EXCEPT ![d] = "idle"] /\ cx' = [cx EXCEPT ![d] = NoContext]
    BY <1>t, <1>3, LeavesTypes, Contexts DEF Leaving
<1>4. CASE pc' = [pc EXCEPT ![d] = "mark"] /\ UNCHANGED cx
  <2>1. cx' = [cx EXCEPT ![d] = cx[d]]
    BY <1>4 DEF TypeInv, TypeOK
  <2>2. Known("mark", cx[d]) /\ "mark" \in Labels
    BY <1>c DEF Known, KnownIn, InCall, Labels
  <2> QED BY <1>t, <1>c, <1>4, <2>1, <2>2, QuietStep
<1> QED BY <1>1, <1>2, <1>3, <1>4 DEF MayDispatch, Goto

\* startAttempt appends a running attempt, or fails on its primary key.
LEMMA StartAttemptTypes ==
    ASSUME NEW d \in Drivers, TypeInv, StartAttempt(d) PROVE TypeInv'
<1> DEFINE row == [state |-> "running", endReason |-> "none", point |-> NoPoint]
<1>c. /\ cx[d] \in Context /\ Known(pc[d], cx[d]) /\ attempts \in Seq(AttemptRow)
      /\ Len(attempts) \in Nat
    BY DEF TypeInv, TypeOK, TablesOK
<1>u. UNCHANGED <<effects, approvals>>
    BY DEF StartAttempt
<1>1. CASE /\ pc' = [pc EXCEPT ![d] = "release"] /\ cx' = [cx EXCEPT ![d] = NoContext]
           /\ UNCHANGED <<run, attempts>>
  <2>1. TablesOK'
    BY <1>1, TablesKept DEF StartAttempt, TypeInv, TypeOK
  <2> QED BY <1>u, <1>1, <2>1, LeavesTypes, Contexts DEF Leaving
<1>2. CASE /\ attempts' = Append(attempts, row)
           /\ run' = [run EXCEPT !.state = "running", !.reason = "none", !.backoff = FALSE]
           /\ cx' = [cx EXCEPT ![d] = [cx[d] EXCEPT !.rows = Len(attempts) + 1, !.steps = 0]]
           /\ pc' = [pc EXCEPT ![d] = "step"]
  <2> DEFINE c == [cx[d] EXCEPT !.rows = Len(attempts) + 1, !.steps = 0]
  <2>1. row \in AttemptRow
    BY DEF AttemptRow, EndReasons
  <2>2. attempts' \in Seq(AttemptRow)
    BY <1>c, <1>2, <2>1, AppendProperties
  <2>3. run' \in RunRow
    BY <1>2 DEF TypeInv, TypeOK, TablesOK, RunRow, RunStates, ActiveStates, RunReasons,
       EndReasons
  <2>4. TablesOK'
    BY <2>2, <2>3 DEF StartAttempt, TypeInv, TypeOK, TablesOK
  <2>5. cx' = [cx EXCEPT ![d] = c]
    BY <1>2
  <2>6. c \in Context /\ c.todo = cx[d].todo
    <3>1. Len(attempts) + 1 \in Nat /\ 0 \in 0..MaxSteps
        BY <1>c, BoundsAssumption
    <3> QED BY <1>c, <3>1 DEF Context
  <2> HIDE DEF c
  <2>7. Known("step", c) /\ "step" \in Labels
    BY <1>c, <2>6 DEF Known, KnownIn, InCall, Labels
  <2> QED BY <1>u, <1>2, <2>4, <2>5, <2>6, <2>7, QuietStep
<1> QED BY <1>1, <1>2 DEF StartAttempt, Goto

\* markDispatchedSync changes the row of the call.
LEMMA MarkEffectDispatchedTypes ==
    ASSUME NEW d \in Drivers, TypeInv, MarkEffectDispatched(d) PROVE TypeInv'
<1> DEFINE k == cx[d].call.key
           row == MarkDispatched(effects[k])
<1>1. pc[d] = "mark" /\ pc[d] \in InCall
    BY DEF MarkEffectDispatched, InCall
<1>2. cx[d] \in Context /\ k \in Keys /\ effects[k] \in EffectRow /\ effects[k].state # "none"
    BY <1>1, InCallTypes
<1>3. row \in EffectRow /\ row.state # "none" /\ row.args = effects[k].args
    BY <1>2, EffectRowOps
<1>4. /\ effects' = [effects EXCEPT ![k] = row]
      /\ UNCHANGED <<run, lease, attempts, approvals, notes, audit, world, calls, faults>>
      /\ pc' = [pc EXCEPT ![d] = "perform"] /\ UNCHANGED cx
    BY DEF MarkEffectDispatched, Goto
<1> HIDE DEF row
<1>5. TablesOK' /\ KnownRows' /\ RowsGrow /\ effects'[k].state # "none"
    BY <1>2, <1>3, <1>4, SettledTables
<1>6. KnownIn(effects', approvals', "perform", cx[d]) /\ "perform" \in Labels
    BY <1>1, <1>2, <1>4, <1>5 DEF TypeInv, Known, KnownIn, InCall, Labels, RowsGrow, Context
<1>7. cx' = [cx EXCEPT ![d] = cx[d]]
    BY <1>4 DEF TypeInv, TypeOK
<1> QED BY <1>2, <1>4, <1>5, <1>6, <1>7, StepKeepsTypes DEF StepTo

\* perform() appends one call of a known key to the world.
LEMMA PerformTypes ==
    ASSUME NEW d \in Drivers, TypeInv, Perform(d) PROVE TypeInv'
<1> DEFINE call == cx[d].call
           done == [key |-> call.key, args |-> call.args, approval |-> call.approval,
                    late |-> call.late]
<1>1. pc[d] = "perform" /\ pc[d] \in InCall /\ "performed" \in Labels
    BY DEF Perform, InCall, Labels
<1>2. /\ cx[d] \in Context /\ call \in Call /\ call.key \in Keys /\ call.args \in Args
      /\ Known(pc[d], cx[d])
    BY <1>1, InCallTypes DEF TypeInv
<1>3. done \in Performance
    BY <1>2 DEF Call, Performance
<1>4. world' = Append(world, done)
    BY DEF Perform
<1> HIDE DEF done
<1>5. world' \in Seq(Performance)
    BY <1>3, <1>4, AppendProperties DEF TypeInv, TypeOK, TablesOK
<1>6. TablesOK'
    BY <1>5 DEF Perform, TypeInv, TypeOK, TablesOK
<1>7. pc' = [pc EXCEPT ![d] = "performed"] /\ cx' = [cx EXCEPT ![d] = cx[d]]
      /\ UNCHANGED <<effects, approvals>>
    BY DEF Perform, Goto, TypeInv, TypeOK
<1>8. Known("performed", cx[d])
    BY <1>1, <1>2 DEF Known, KnownIn, InCall
<1> QED BY <1>1, <1>2, <1>6, <1>7, <1>8, QuietStep

\* What dispatch writes after perform() keeps the row's type.
LEMMA AfterPerformTypes ==
    ASSUME NEW d \in Drivers, TypeInv, NEW row \in EffectRow, pc[d] \in InCall,
           row.state # "none", row.args = effects[cx[d].call.key].args,
           AfterPerform(d, row)
    PROVE  TypeInv'
<1> DEFINE k == cx[d].call.key
<1>1. k \in Keys /\ effects[k].state # "none"
    BY InCallTypes
<1>2. TablesOK' /\ KnownRows' /\ RowsGrow
    BY <1>1, SettledTables DEF AfterPerform
<1> QED BY <1>2, CallEndsTypes DEF AfterPerform, Goto

\* perform() returned: the row is committed.
LEMMA CommitEffectTypes ==
    ASSUME NEW d \in Drivers, TypeInv, CommitEffect(d) PROVE TypeInv'
<1>1. pc[d] \in InCall
    BY DEF CommitEffect, InCall
<1>2. effects[cx[d].call.key] \in EffectRow
    BY <1>1, InCallTypes
<1> QED BY <1>1, <1>2, EffectRowOps, AfterPerformTypes DEF CommitEffect

\* perform() threw: the row fails.
LEMMA PerformFailsTypes ==
    ASSUME NEW d \in Drivers, TypeInv, PerformFails(d) PROVE TypeInv'
<1>1. pc[d] \in InCall /\ "failed" \in Outcomes
    BY DEF PerformFails, InCall, Outcomes
<1>2. effects[cx[d].call.key] \in EffectRow
    BY <1>1, InCallTypes
<1> QED BY <1>1, <1>2, EffectRowOps, AfterPerformTypes DEF PerformFails

\* perform() threw without knowing: the row is unknown.
LEMMA PerformOutcomeUnknownTypes ==
    ASSUME NEW d \in Drivers, TypeInv, PerformOutcomeUnknown(d) PROVE TypeInv'
<1>1. pc[d] \in InCall
    BY DEF PerformOutcomeUnknown, InCall
<1>2. effects[cx[d].call.key] \in EffectRow
    BY <1>1, InCallTypes
<1> QED BY <1>1, <1>2, EffectRowOps, AfterPerformTypes DEF PerformOutcomeUnknown

\* The end of an attempt keeps the rows of attempts, also for a number no row has.
LEMMA EndAttemptType ==
    ASSUME NEW n, NEW state \in {"timed_out", "failed", "completed"},
           NEW reason \in EndReasons, TypeInv, EndAttempt(n, state, reason)
    PROVE  attempts' \in Seq(AttemptRow)
<1> DEFINE row == [attempts[n] EXCEPT !.state = state, !.endReason = reason]
<1>1. attempts \in Seq(AttemptRow)
    BY DEF TypeInv, TypeOK, TablesOK
<1>2. attempts' = [attempts EXCEPT ![n] = row]
    BY DEF EndAttempt
<1>3. ASSUME n \in DOMAIN attempts PROVE row \in AttemptRow
  <2>1. attempts[n] \in AttemptRow
    BY <1>1, <1>3, ElementOfSeq, LenProperties
  <2> QED BY <2>1 DEF AttemptRow
<1> HIDE DEF row
<1> QED BY <1>1, <1>2, <1>3, ExceptInSeq

\* A step that changes attempts and a driver keeps the other tables.
LEMMA AttemptsOnly ==
    ASSUME TypeInv, attempts' \in Seq(AttemptRow),
           UNCHANGED <<run, lease, effects, approvals, notes, audit, world, calls, faults>>
    PROVE  TablesOK'
    BY DEF TypeInv, TypeOK, TablesOK

\* The final output completes the attempt.
LEMMA AgentFinishesTypes ==
    ASSUME NEW d \in Drivers, TypeInv, AgentFinishes(d) PROVE TypeInv'
<1>1. attempts' \in Seq(AttemptRow)
    BY EndAttemptType DEF AgentFinishes, EndReasons
<1>2. TablesOK' /\ UNCHANGED <<effects, approvals>>
    BY <1>1, AttemptsOnly DEF AgentFinishes
<1>3. PICK fin \in {Fin("succeeded", "none"), Fin("failed", "output_invalid")} :
        cx' = [cx EXCEPT ![d] = Ending(fin)]
    BY DEF AgentFinishes
<1>4. Ending(fin) \in Context /\ Ending(fin).todo = {}
  <2>1. /\ "succeeded" \in RunStates /\ "none" \in RunReasons
        /\ "failed" \in RunStates /\ "output_invalid" \in RunReasons
    BY DEF RunStates, TerminalStates, RunReasons, EndReasons
  <2> QED BY <2>1, Contexts
<1>5. pc' = [pc EXCEPT ![d] = "finalize"]
    BY DEF AgentFinishes, Goto
<1> QED BY <1>2, <1>3, <1>4, <1>5, LeavesTypes DEF Leaving

\* The failures the tool loop reports have a reason of their own.
LEMMA EndReasonType ==
    ASSUME NEW kind \in ErrorKinds
    PROVE  EndReasonOf(kind) \in EndReasons /\ EndReasonOf(kind) \in RunReasons
    BY DEF EndReasonOf, ErrorKinds, EndReasons, RunReasons

\* An error ends the attempt and picks a provider that the chain has.
LEMMA EndWithErrorTypes ==
    ASSUME NEW d \in Drivers, TypeInv, NEW kind \in ErrorKinds, NEW retryable \in BOOLEAN,
           EndWithError(d, kind, retryable)
    PROVE  TypeInv'
<1> DEFINE n        == cx[d].rows
           reason   == EndReasonOf(kind)
           provider == cx[d].run.provider
           next     == IF HasFallback(kind, provider) THEN provider + 1 ELSE provider
           fin      == [state |-> "retrying", reason |-> reason, provider |-> next]
           again    == [NoContext EXCEPT !.rows = n, !.fin = fin]
<1>c. cx[d] \in Context /\ n \in Nat /\ provider \in 0..(Providers - 1)
    BY DEF TypeInv, TypeOK, Context
<1>r. reason \in EndReasons /\ reason \in RunReasons /\ "failed" \in RunStates
      /\ "max_attempts_exhausted" \in RunReasons /\ "retrying" \in RunStates
    BY EndReasonType DEF RunStates, TerminalStates, ActiveStates, RunReasons
<1>1. EndAttempt(n, IF kind = "timeout" THEN "timed_out" ELSE "failed", reason)
    BY DEF EndWithError
<1>2. attempts' \in Seq(AttemptRow)
    BY <1>1, <1>r, EndAttemptType
<1>3. TablesOK' /\ UNCHANGED <<effects, approvals>>
    BY <1>2, AttemptsOnly DEF EndWithError
<1>4. next \in 0..(Providers - 1)
    BY <1>c, BoundsAssumption DEF HasFallback
<1>5. again \in Context /\ again.todo = {}
  <2> HIDE DEF n, reason, next
  <2>1. fin \in [state : RunStates, reason : RunReasons, provider : 0..(Providers - 1)]
    BY <1>r, <1>4
  <2> HIDE DEF fin
  <2> QED BY <1>c, <2>1, Contexts DEF Context
<1>6. \/ /\ pc' = [pc EXCEPT ![d] = "retry"] /\ cx' = [cx EXCEPT ![d] = again]
      \/ /\ pc' = [pc EXCEPT ![d] = "finalize"]
         /\ \E why \in {reason, "max_attempts_exhausted"} :
               cx' = [cx EXCEPT ![d] = Ending(Fin("failed", why))]
    BY DEF EndWithError, Goto
<1> HIDE DEF again, reason
<1>7. CASE pc' = [pc EXCEPT ![d] = "retry"] /\ cx' = [cx EXCEPT ![d] = again]
    BY <1>3, <1>5, <1>7, LeavesTypes DEF Leaving
<1>8. ASSUME NEW why \in {reason, "max_attempts_exhausted"},
             pc' = [pc EXCEPT ![d] = "finalize"],
             cx' = [cx EXCEPT ![d] = Ending(Fin("failed", why))]
      PROVE  TypeInv'
  <2>1. Ending(Fin("failed", why)) \in Context /\ Ending(Fin("failed", why)).todo = {}
    BY <1>r, Contexts
  <2> QED BY <1>3, <1>8, <2>1, LeavesTypes DEF Leaving
<1> QED BY <1>6, <1>7, <1>8

\* Each way an attempt fails is an end with an error.
LEMMA AttemptFailsTypes ==
    ASSUME NEW d \in Drivers, TypeInv, AttemptFails(d) PROVE TypeInv'
<1>1. \A f \in Failures : f.kind \in ErrorKinds /\ f.retryable \in BOOLEAN
    BY FailuresAssumption
<1>2. "task" \in ErrorKinds
    BY DEF ErrorKinds
<1>3. \/ \E f \in Failures : EndWithError(d, f.kind, f.retryable)
      \/ EndWithError(d, "task", FALSE)
    BY DEF AttemptFails
<1> QED BY <1>1, <1>2, <1>3, EndWithErrorTypes

\* Park, expiry and cancel close the attempt and keep what is asked.
LEMMA CloseAttemptTypes ==
    ASSUME NEW d \in Drivers, TypeInv, CloseAttempt(d) PROVE TypeInv'
<1>c. /\ cx[d] \in Context /\ cx[d].ask \in Nat /\ Known(pc[d], cx[d]) /\ pc[d] = "ended"
    BY DEF TypeInv, TypeOK, Context, CloseAttempt
<1>1. attempts' \in Seq(AttemptRow)
    BY EndAttemptType DEF CloseAttempt, EndReasons
<1>2. TablesOK' /\ UNCHANGED <<effects, approvals>>
    BY <1>1, AttemptsOnly DEF CloseAttempt
<1>3. ASSUME NEW l \in {"park", "expire"}, l = "park" => cx[d].out = "park",
             l = "expire" => cx[d].out = "expired",
             pc' = [pc EXCEPT ![d] = l], cx' = [cx EXCEPT ![d] = Asking(cx[d].ask)]
      PROVE  TypeInv'
  <2> DEFINE c == Asking(cx[d].ask)
  <2>1. c \in Context /\ c.todo = {} /\ c.ask = cx[d].ask
    BY <1>c, Contexts
  <2> HIDE DEF c
  <2>2. Known(l, c) /\ l \in Labels
    BY <1>c, <1>3, <2>1 DEF Known, KnownIn, InCall, Labels
  <2>3. cx' = [cx EXCEPT ![d] = c]
    BY <1>3 DEF c
  <2> QED BY <1>2, <1>3, <2>1, <2>2, <2>3, QuietStep
<1>4. CASE /\ pc' = [pc EXCEPT ![d] = "finalize"]
           /\ cx' = [cx EXCEPT ![d] = Ending(Fin("cancelled", "cancel_requested"))]
  <2>1. "cancelled" \in RunStates /\ "cancel_requested" \in RunReasons
    BY DEF RunStates, TerminalStates, RunReasons
  <2> QED BY <1>2, <1>4, <2>1, Contexts, LeavesTypes DEF Leaving
<1> QED BY <1>3, <1>4 DEF CloseAttempt, Goto

\* scheduleRetry writes a reason and a provider of the chain.
LEMMA ScheduleRetryTypes ==
    ASSUME NEW d \in Drivers, TypeInv, ScheduleRetry(d) PROVE TypeInv'
<1>1. cx[d].rows \in Nat /\ cx[d].fin.reason \in RunReasons
      /\ cx[d].fin.provider \in 0..(Providers - 1)
    BY DEF TypeInv, TypeOK, Context
<1>2. run' \in RunRow
    BY <1>1 DEF ScheduleRetry, TypeInv, TypeOK, TablesOK, RunRow, RunStates, ActiveStates
<1>3. notes' \subseteq Note
    BY <1>1 DEF ScheduleRetry, TypeInv, TypeOK, TablesOK, Note, RunStates, ActiveStates
<1>4. TablesOK'
    BY <1>2, <1>3 DEF ScheduleRetry, TypeInv, TypeOK, TablesOK
<1> QED BY <1>4, Contexts, LeavesTypes DEF ScheduleRetry, Goto, Leaving

\* parkForApproval reads an approval that exists.
LEMMA ParkTypes ==
    ASSUME NEW d \in Drivers, TypeInv, Park(d) PROVE TypeInv'
<1>1. cx[d].ask \in Nat /\ cx[d].ask \in DOMAIN approvals
    BY DEF TypeInv, TypeOK, Context, Park, Known, KnownIn
<1>2. approvals[cx[d].ask].reason \in RunReasons
  <2>1. approvals \in Seq(ApprovalRow)
    BY DEF TypeInv, TypeOK, TablesOK
  <2>2. approvals[cx[d].ask] \in ApprovalRow
    BY <1>1, <2>1, ElementOfSeq, LenProperties
  <2> QED BY <2>2 DEF ApprovalRow, RunReasons
<1>3. run' \in RunRow
    BY <1>2 DEF Park, TypeInv, TypeOK, TablesOK, RunRow, RunStates, ActiveStates
<1>4. notes' \subseteq Note
    BY <1>1 DEF Park, TypeInv, TypeOK, TablesOK, Note
<1>5. TablesOK'
    BY <1>3, <1>4 DEF Park, TypeInv, TypeOK, TablesOK
<1> QED BY <1>5, Contexts, LeavesTypes DEF Park, Goto, Leaving

\* finalizeRunSync seals the tables as they are, once.
LEMMA FinalizeTypes ==
    ASSUME NEW d \in Drivers, TypeInv, Finalize(d) PROVE TypeInv'
<1> DEFINE fin == cx[d].fin
           record == [state |-> fin.state, reason |-> fin.reason, attempts |-> attempts,
                      effects |-> effects, approvals |-> approvals]
<1>1. fin.state \in RunStates /\ fin.reason \in RunReasons
    BY DEF TypeInv, TypeOK, Context
<1>2. record \in AuditRecord
    BY <1>1 DEF TypeInv, TypeOK, TablesOK, AuditRecord
<1>3. UNCHANGED run \/ run' = [run EXCEPT !.state = fin.state, !.reason = fin.reason,
                                          !.backoff = FALSE, !.sealed = TRUE]
    BY DEF Finalize
<1>4. run' \in RunRow
    BY <1>1, <1>3 DEF TypeInv, TypeOK, TablesOK, RunRow
<1>5. notes' \subseteq Note
    BY <1>1 DEF Finalize, TypeInv, TypeOK, TablesOK, Note
<1>6. UNCHANGED audit \/ audit' = <<record>>
    BY DEF Finalize
<1> HIDE DEF record
<1>7. audit' \in Seq(AuditRecord)
  <2>1. <<record>> \in Seq(AuditRecord)
    BY <1>2
  <2> HIDE DEF record
  <2> QED BY <1>6, <2>1 DEF TypeInv, TypeOK, TablesOK
<1>8. TablesOK'
    BY <1>4, <1>5, <1>7 DEF Finalize, TypeInv, TypeOK, TablesOK
<1> QED BY <1>8, Contexts, LeavesTypes DEF Finalize, Goto, Leaving

-----------------------------------------------------------------------------
(* The table of approvals *)

\* What every statement on approvals keeps: rows stay, their keys stay, and what
\* was granted and consumed stays so.
ApprovalsKept(aps) ==
    /\ aps \in Seq(ApprovalRow) /\ DOMAIN approvals \subseteq DOMAIN aps
    /\ \A i \in DOMAIN approvals :
          /\ aps[i].key = approvals[i].key /\ aps[i].args = approvals[i].args
          /\ aps[i].reason = approvals[i].reason
          /\ approvals[i].state = "approved" => aps[i].state = "approved"
          /\ approvals[i].consumed => aps[i].consumed

\* The approvals are a sequence of rows about known keys.
LEMMA ApprovalType ==
    ASSUME TypeInv
    PROVE  /\ approvals \in Seq(ApprovalRow) /\ Len(approvals) \in Nat
           /\ DOMAIN approvals = 1..Len(approvals)
           /\ \A i \in DOMAIN approvals :
                 /\ i \in Nat /\ i # 0 /\ approvals[i] \in ApprovalRow
                 /\ approvals[i].key \in Keys
<1>1. approvals \in Seq(ApprovalRow)
    BY DEF TypeInv, TypeOK, TablesOK
<1>2. Len(approvals) \in Nat /\ DOMAIN approvals = 1..Len(approvals)
    BY <1>1, LenProperties
<1>3. \A i \in DOMAIN approvals : approvals[i] \in ApprovalRow
    BY <1>1, <1>2, ElementOfSeq
<1>4. \A i \in DOMAIN approvals : approvals[i].key \in Keys
    BY <1>3 DEF ApprovalRow
<1> QED BY <1>1, <1>2, <1>3, <1>4

\* A change of one row that keeps its key, its approval and its consumption.
LEMMA RowUpdateKept ==
    ASSUME TypeInv, NEW i \in DOMAIN approvals, NEW row \in ApprovalRow,
           row.key = approvals[i].key, row.args = approvals[i].args,
           row.reason = approvals[i].reason,
           approvals[i].state = "approved" => row.state = "approved",
           approvals[i].consumed => row.consumed
    PROVE  /\ ApprovalsKept([approvals EXCEPT ![i] = row])
           /\ DOMAIN [approvals EXCEPT ![i] = row] = DOMAIN approvals
    BY ApprovalType, ExceptInSeq DEF ApprovalsKept

\* expireApprovalSync takes back no decision and no consumption.
LEMMA ExpireKept ==
    ASSUME TypeInv, NEW i \in DOMAIN approvals
    PROVE  /\ ApprovalsKept(ExpireApproval(approvals, i))
           /\ DOMAIN ExpireApproval(approvals, i) = DOMAIN approvals
<1>1. approvals \in Seq(ApprovalRow) /\ approvals[i] \in ApprovalRow
    BY ApprovalType
<1>2. CASE approvals[i].state = "pending"
  <2> DEFINE row == [approvals[i] EXCEPT !.state = "expired"]
  <2>1. /\ row \in ApprovalRow /\ row.key = approvals[i].key
        /\ row.args = approvals[i].args /\ row.reason = approvals[i].reason
        /\ row.consumed = approvals[i].consumed
    BY <1>1 DEF ApprovalRow, ApprovalStates
  <2>2. ExpireApproval(approvals, i) = [approvals EXCEPT ![i] = row]
    BY <1>2 DEF ExpireApproval
  <2> HIDE DEF row
  <2> QED BY <1>2, <2>1, <2>2, RowUpdateKept
<1>3. CASE approvals[i].state # "pending"
    BY <1>1, <1>3 DEF ExpireApproval, ApprovalsKept
<1> QED BY <1>2, <1>3

\* consumeApprovalSync keeps every row and consumes an approved one.
LEMMA ConsumeKept ==
    ASSUME TypeInv, NEW i \in DOMAIN approvals
    PROVE  /\ ApprovalsKept(ConsumeApproval(approvals, i))
           /\ DOMAIN ConsumeApproval(approvals, i) = DOMAIN approvals
           /\ approvals[i].state = "approved" =>
                /\ ConsumeApproval(approvals, i)[i].state = "approved"
                /\ ConsumeApproval(approvals, i)[i].consumed
<1>1. approvals \in Seq(ApprovalRow) /\ approvals[i] \in ApprovalRow
    BY ApprovalType
<1>2. CASE approvals[i].state = "approved" /\ ~approvals[i].consumed
  <2> DEFINE row == [approvals[i] EXCEPT !.consumed = TRUE]
  <2>1. /\ row \in ApprovalRow /\ row.key = approvals[i].key /\ row.consumed
        /\ row.args = approvals[i].args /\ row.reason = approvals[i].reason
        /\ row.state = approvals[i].state
    BY <1>1 DEF ApprovalRow
  <2>2. ConsumeApproval(approvals, i) = [approvals EXCEPT ![i] = row]
    BY <1>2 DEF ConsumeApproval
  <2> HIDE DEF row
  <2>3. [approvals EXCEPT ![i] = row][i] = row
    BY <1>1
  <2> QED BY <1>2, <2>1, <2>2, <2>3, RowUpdateKept
<1>3. CASE ~(approvals[i].state = "approved" /\ ~approvals[i].consumed)
    BY <1>1, <1>3 DEF ConsumeApproval, ApprovalsKept
<1> QED BY <1>2, <1>3

\* An appended row.
LEMMA CreateKept ==
    ASSUME TypeInv, NEW k \in Keys, NEW a \in Args, NEW reason \in GateReasons
    PROVE  LET aps == CreateApproval(approvals, k, a, reason)
           IN  /\ ApprovalsKept(aps) /\ Len(approvals) + 1 \in DOMAIN aps
               /\ \A i \in DOMAIN aps : i \notin DOMAIN approvals => aps[i].key = k
<1> DEFINE row == [key |-> k, args |-> a, reason |-> reason, state |-> "pending",
                   due |-> FALSE, consumed |-> FALSE]
           aps == Append(approvals, row)
<1>1. approvals \in Seq(ApprovalRow) /\ Len(approvals) \in Nat
      /\ DOMAIN approvals = 1..Len(approvals)
    BY ApprovalType
<1>2. row \in ApprovalRow /\ row.key = k
    BY DEF ApprovalRow, ApprovalStates
<1>3. aps = CreateApproval(approvals, k, a, reason)
    BY DEF CreateApproval
<1> HIDE DEF row
<1>4. /\ aps \in Seq(ApprovalRow) /\ Len(aps) = Len(approvals) + 1
      /\ \A i \in 1..Len(approvals) : aps[i] = approvals[i]
      /\ aps[Len(approvals) + 1] = row
    BY <1>1, <1>2, AppendProperties
<1>5. DOMAIN aps = 1..(Len(approvals) + 1)
    BY <1>4, LenProperties
<1> HIDE DEF aps
<1>6. ApprovalsKept(aps)
    BY <1>1, <1>4, <1>5 DEF ApprovalsKept
<1> QED BY <1>1, <1>2, <1>3, <1>4, <1>5, <1>6

\* findApprovalSync returns a row of its key, or none.
LEMMA FindApprovalType ==
    ASSUME TypeInv, NEW k, NEW a, FindApproval(approvals, k, a) # 0
    PROVE  /\ FindApproval(approvals, k, a) \in DOMAIN approvals
           /\ approvals[FindApproval(approvals, k, a)].key = k
           /\ approvals[FindApproval(approvals, k, a)].args = a
<1> DEFINE rows == MatchingApprovals(approvals, k, a)
<1>1. rows \in SUBSET (1..Len(approvals)) /\ Len(approvals) \in Nat
    BY ApprovalType DEF MatchingApprovals
<1>2. rows # {}
    BY DEF FindApproval
<1>3. \E i \in rows : \A j \in rows : j <= i
    BY <1>1, <1>2, LargestIn
<1>4. FindApproval(approvals, k, a) \in rows
    BY <1>2, <1>3 DEF FindApproval
<1> QED BY <1>4 DEF MatchingApprovals

\* The tables when effects and approvals change together.
LEMMA LedgerTables ==
    ASSUME TypeInv, effects' \in [Keys -> EffectRow], ApprovalsKept(approvals'),
           \A k \in Keys : effects[k].state # "none" => effects'[k].state # "none",
           \A k \in Keys : effects'[k].state # "none" => effects'[k].args \in Args,
           \A i \in DOMAIN approvals' :
              i \notin DOMAIN approvals => effects'[approvals'[i].key].state # "none",
           notes' \subseteq Note,
           UNCHANGED <<run, lease, attempts, audit, world, calls, faults>>
    PROVE  TablesOK' /\ KnownRows' /\ RowsGrow
<1>1. TablesOK'
    BY DEF TypeInv, TypeOK, TablesOK, ApprovalsKept
<1>2. \A i \in DOMAIN approvals' : effects'[approvals'[i].key].state # "none"
  <2> TAKE i \in DOMAIN approvals'
  <2>1. CASE i \in DOMAIN approvals
    BY <2>1, ApprovalType DEF TypeInv, KnownRows, ApprovalsKept
  <2> QED BY <2>1
<1> QED BY <1>1, <1>2 DEF KnownRows, RowsGrow, ApprovalsKept

\* One row of each.
LEMMA LedgerRow ==
    ASSUME TypeInv, NEW k \in Keys, NEW row \in EffectRow, effects[k].state # "none",
           row.state # "none", row.args = effects[k].args,
           effects' = [effects EXCEPT ![k] = row], ApprovalsKept(approvals'),
           DOMAIN approvals' = DOMAIN approvals, notes' \subseteq Note,
           UNCHANGED <<run, lease, attempts, audit, world, calls, faults>>
    PROVE  TablesOK' /\ KnownRows' /\ RowsGrow
<1>1. effects \in [Keys -> EffectRow] /\ effects[k].args \in Args
      /\ \A j \in Keys : effects[j].state # "none" => effects[j].args \in Args
    BY DEF TypeInv, TypeOK, TablesOK, KnownRows
<1>2. \A j \in Keys : effects'[j] = IF j = k THEN row ELSE effects[j]
    BY <1>1
<1> QED BY <1>1, <1>2, LedgerTables

-----------------------------------------------------------------------------
(* Types: the actions on approvals, and the other processes *)

\* expire() without an approval throws; with one, its row and effect exist.
LEMMA ExpireTypes ==
    ASSUME NEW d \in Drivers, TypeInv, Expire(d) PROVE TypeInv'
<1> DEFINE i   == cx[d].ask
           k   == approvals[i].key
           row == Fail(effects[k], "expired")
           c   == Ending(Fin("failed", "approval_expired"))
<1>c. i \in Nat /\ (i = 0 \/ i \in DOMAIN approvals)
    BY DEF TypeInv, TypeOK, Context, Expire, Known, KnownIn
<1>1. CASE /\ pc' = [pc EXCEPT ![d] = "release"] /\ cx' = [cx EXCEPT ![d] = NoContext]
           /\ UNCHANGED <<effects, approvals, notes>>
  <2>1. TablesOK'
    BY <1>1, TablesKept DEF Expire, TypeInv, TypeOK
  <2> QED BY <1>1, <2>1, Contexts, LeavesTypes DEF Leaving
<1>2. CASE /\ i # 0 /\ approvals' = ExpireApproval(approvals, i)
           /\ effects' = [effects EXCEPT ![k] = row]
           /\ notes' = notes \cup {[event |-> "approval_expired", id |-> i]}
           /\ cx' = [cx EXCEPT ![d] = c] /\ pc' = [pc EXCEPT ![d] = "finalize"]
  <2>1. i \in DOMAIN approvals
    BY <1>c, <1>2
  <2>2. k \in Keys /\ effects[k] \in EffectRow /\ effects[k].state # "none"
    BY <2>1, ApprovalType DEF TypeInv, TypeOK, TablesOK, KnownRows
  <2>3. row \in EffectRow /\ row.state # "none" /\ row.args = effects[k].args
    BY <2>2, EffectRowOps DEF Outcomes
  <2>4. notes' \subseteq Note
    BY <1>c, <1>2 DEF TypeInv, TypeOK, TablesOK, Note
  <2>5. ApprovalsKept(approvals') /\ DOMAIN approvals' = DOMAIN approvals
    BY <1>2, <2>1, ExpireKept
  <2>6. "failed" \in RunStates /\ "approval_expired" \in RunReasons
    BY DEF RunStates, TerminalStates, RunReasons
  <2>7. c \in Context /\ c.todo = {}
    BY <2>6, Contexts
  <2>8. UNCHANGED <<run, lease, attempts, audit, world, calls, faults>>
    BY DEF Expire
  <2> HIDE DEF c, row, k, i
  <2>9. TablesOK' /\ KnownRows' /\ RowsGrow
    BY <1>2, <2>2, <2>3, <2>4, <2>5, <2>8, LedgerRow
  <2>10. KnownIn(effects', approvals', "finalize", c) /\ "finalize" \in Labels
    BY <2>7 DEF KnownIn, InCall, Labels
  <2> QED BY <1>2, <2>7, <2>9, <2>10, StepKeepsTypes DEF StepTo
<1> QED BY <1>1, <1>2 DEF Expire, Goto

\* approvalGate finds a row of the call's key, or creates one.
LEMMA GateTypes ==
    ASSUME NEW d \in Drivers, TypeInv, Gate(d) PROVE TypeInv'
<1> DEFINE call   == cx[d].call
           k      == call.key
           reason == IF call.row.state = "unknown" THEN "effect_unknown"
                     ELSE "approval_required"
           i      == FindApproval(approvals, k, call.row.args)
<1>c. /\ pc[d] = "gate" /\ pc[d] \in InCall
      /\ UNCHANGED <<run, lease, attempts, notes, audit, world, calls, faults>>
    BY DEF Gate, InCall
<1>k. /\ cx[d] \in Context /\ call \in Call /\ k \in Keys /\ effects[k] \in EffectRow
      /\ effects[k].state # "none" /\ effects[k].args \in Args
      /\ call.row.args \in Args /\ reason \in GateReasons
      /\ call.from = "agent" /\ call.args \in Args
    BY <1>c, InCallTypes DEF TypeInv, Known, KnownIn, GateReasons
<1>i. i # 0 => i \in DOMAIN approvals /\ i \in Nat
    BY FindApprovalType, ApprovalType
<1>n. notes' \subseteq Note /\ effects = [effects EXCEPT ![k] = effects[k]]
      /\ ApprovalsKept(approvals)
    BY <1>c, ApprovalType DEF TypeInv, TypeOK, TablesOK, ApprovalsKept
<1>z. 0 \in Nat /\ Len(approvals) + 1 \in Nat
    BY ApprovalType
<1>1. CASE /\ i # 0 /\ approvals' = ExpireApproval(approvals, i)
           /\ EndWith(d, "expired", i) /\ UNCHANGED effects
  <2>1. ApprovalsKept(approvals') /\ DOMAIN approvals' = DOMAIN approvals
    BY <1>1, <1>i, ExpireKept
  <2>2. TablesOK' /\ KnownRows' /\ RowsGrow
    BY <1>c, <1>k, <1>n, <1>1, <2>1, LedgerRow
  <2> QED BY <1>1, <1>i, <2>1, <2>2, EndWithTypes
<1>2. CASE /\ i # 0 /\ UNCHANGED <<approvals, effects>>
           /\ EndWith(d, "park", i) \/ EndWith(d, "expired", i)
  <2>1. TablesOK' /\ KnownRows' /\ RowsGrow
    BY <1>c, <1>2, TablesKept DEF TypeInv, TypeOK, KnownRows, RowsGrow
  <2> QED BY <1>2, <1>i, <2>1, EndWithTypes
<1>3. CASE /\ i # 0 /\ approvals[i].state = "approved"
           /\ approvals' = ConsumeApproval(approvals, i)
           /\ effects' = IF reason = "effect_unknown"
                         THEN [effects EXCEPT ![k] = Reopen(effects[k])] ELSE effects
           /\ cx' = [cx EXCEPT ![d].call.approval = i]
           /\ pc' = [pc EXCEPT ![d] = "check"]
  <2> DEFINE row == IF reason = "effect_unknown" THEN Reopen(effects[k]) ELSE effects[k]
             now == [call EXCEPT !.approval = i]
             c   == [cx[d] EXCEPT !.call = now]
  <2>1. ApprovalsKept(approvals') /\ DOMAIN approvals' = DOMAIN approvals
    BY <1>3, <1>i, ConsumeKept
  <2>2. row \in EffectRow /\ row.state # "none" /\ row.args = effects[k].args
    BY <1>k, EffectRowOps
  <2>3. effects' = [effects EXCEPT ![k] = row]
    BY <1>3, <1>n
  <2>4. TablesOK' /\ KnownRows' /\ RowsGrow
    BY <1>c, <1>k, <1>n, <2>1, <2>2, <2>3, LedgerRow
  <2>5. now \in Call /\ now.key = k /\ now.from = "agent" /\ now.args \in Args
    BY <1>k, <1>i, <1>3 DEF Call
  <2>6. cx' = [cx EXCEPT ![d] = c]
    BY <1>3
  <2> HIDE DEF now
  <2>7. c \in Context /\ c.todo = cx[d].todo /\ c.call = now
    BY <1>k, <2>5 DEF Context
  <2> HIDE DEF c
  <2>8. KnownIn(effects', approvals', "check", c) /\ "check" \in Labels
    BY <1>k, <2>4, <2>5, <2>7 DEF TypeInv, Known, KnownIn, InCall, Labels, RowsGrow, Context
  <2> QED BY <1>3, <2>4, <2>6, <2>7, <2>8, StepKeepsTypes DEF StepTo
<1>4. CASE /\ \E o \in {"skipped", "denied"} :
                effects' = [effects EXCEPT ![k] = Fail(effects[k], o)]
           /\ cx' = [cx EXCEPT ![d].call = NoCall] /\ pc' = [pc EXCEPT ![d] = "step"]
           /\ UNCHANGED approvals
  <2> PICK o \in {"skipped", "denied"} :
        effects' = [effects EXCEPT ![k] = Fail(effects[k], o)]
    BY <1>4
  <2> DEFINE row == Fail(effects[k], o)
  <2>1. row \in EffectRow /\ row.state # "none" /\ row.args = effects[k].args
    BY <1>k, EffectRowOps DEF Outcomes
  <2>2. effects' = [effects EXCEPT ![k] = row]
    OBVIOUS
  <2> HIDE DEF row
  <2>3. TablesOK' /\ KnownRows' /\ RowsGrow
    BY <1>c, <1>k, <1>4, <2>1, <2>2, SettledTables
  <2> QED BY <1>4, <2>3, CallEndsTypes
<1>5. CASE /\ approvals' = CreateApproval(approvals, k, call.row.args, reason)
           /\ EndWith(d, "park", Len(approvals) + 1) /\ UNCHANGED effects
  <2>1. /\ ApprovalsKept(approvals') /\ Len(approvals) + 1 \in DOMAIN approvals'
        /\ \A j \in DOMAIN approvals' : j \notin DOMAIN approvals => approvals'[j].key = k
    BY <1>k, <1>5, CreateKept
  <2>2. effects' \in [Keys -> EffectRow]
        /\ \A j \in Keys : effects'[j].state # "none" => effects'[j].args \in Args
    BY <1>5 DEF TypeInv, TypeOK, TablesOK, KnownRows
  <2>4. /\ \A j \in Keys : effects[j].state # "none" => effects'[j].state # "none"
        /\ \A j \in DOMAIN approvals' :
              j \notin DOMAIN approvals => effects'[approvals'[j].key].state # "none"
    BY <1>5, <1>k, <2>1
  <2>3. TablesOK' /\ KnownRows' /\ RowsGrow
    BY <1>c, <1>n, <2>1, <2>2, <2>4, LedgerTables
  <2> QED BY <1>5, <1>z, <2>1, <2>3, EndWithTypes
<1> QED BY <1>1, <1>2, <1>3, <1>4, <1>5 DEF Gate, Goto

\* The questions Ensure appends: one row per unasked effect.
LEMMA QuestionsKept ==
    ASSUME TypeInv, NEW order \in SetToSeqs(Unasked)
    PROVE  LET new == [i \in 1..Len(order) |->
                         [key |-> order[i], args |-> effects[order[i]].args,
                          reason |-> "effect_unknown", state |-> "pending",
                          due |-> FALSE, consumed |-> FALSE]]
           IN  /\ ApprovalsKept(approvals \o new)
               /\ \A i \in DOMAIN approvals : (approvals \o new)[i] = approvals[i]
               /\ \A i \in DOMAIN (approvals \o new) : i \notin DOMAIN approvals =>
                     /\ effects[(approvals \o new)[i].key].state # "none"
                     /\ (approvals \o new)[i].state = "pending"
                     /\ ~(approvals \o new)[i].consumed
               /\ Unasked # {} =>
                     \E i \in DOMAIN (approvals \o new) : i \notin DOMAIN approvals
<1> DEFINE row(k) == [key |-> k, args |-> effects[k].args,
                      reason |-> "effect_unknown", state |-> "pending",
                      due |-> FALSE, consumed |-> FALSE]
           new == [i \in 1..Len(order) |-> row(order[i])]
           aps == approvals \o new
<1>1. Unasked \subseteq Keys /\ \A k \in Unasked : effects[k].state = "unknown"
    BY DEF Unasked
<1>2. Cardinality(Unasked) \in Nat
    BY <1>1, KeysAssumption, FS_Subset, FS_CardinalityType
<1>3. order \in [1..Cardinality(Unasked) -> Unasked]
    BY DEF SetToSeqs
<1>4. Len(order) = Cardinality(Unasked) /\ \A i \in 1..Len(order) : order[i] \in Unasked
    BY <1>2, <1>3
<1>5. \A k \in Unasked : /\ row(k) \in ApprovalRow /\ row(k).key = k
                          /\ row(k).state = "pending" /\ ~row(k).consumed
    BY <1>1 DEF TypeInv, KnownRows, ApprovalRow, ApprovalStates, GateReasons
<1>a. approvals \in Seq(ApprovalRow) /\ Len(approvals) \in Nat
      /\ DOMAIN approvals = 1..Len(approvals)
    BY ApprovalType
<1> HIDE DEF row
<1>6. new \in [1..Len(order) -> ApprovalRow] /\ Len(order) \in Nat
    BY <1>2, <1>4, <1>5
<1>7. new \in Seq(ApprovalRow) /\ Len(new) = Len(order)
    BY <1>6, SeqDef
<1>8. \A i \in 1..Len(new) : /\ effects[new[i].key].state # "none"
                              /\ new[i].state = "pending" /\ ~new[i].consumed
    BY <1>1, <1>4, <1>5, <1>7
<1> HIDE DEF new
<1>9. /\ aps \in Seq(ApprovalRow) /\ Len(aps) = Len(approvals) + Len(new)
      /\ \A i \in 1..(Len(approvals) + Len(new)) :
            aps[i] = IF i <= Len(approvals) THEN approvals[i] ELSE new[i - Len(approvals)]
    BY <1>a, <1>7, ConcatProperties
<1>10. DOMAIN aps = 1..(Len(approvals) + Len(new)) /\ Len(new) \in Nat
    BY <1>7, <1>9, LenProperties
<1> HIDE DEF aps
<1>11. ApprovalsKept(aps)
    BY <1>a, <1>9, <1>10 DEF ApprovalsKept
<1>12. ASSUME NEW i \in DOMAIN aps, i \notin DOMAIN approvals
       PROVE  /\ effects[aps[i].key].state # "none"
              /\ aps[i].state = "pending" /\ ~aps[i].consumed
  <2> DEFINE j == i - Len(approvals)
  <2>1. j \in 1..Len(new) /\ aps[i] = new[j]
    BY <1>6, <1>7, <1>9, <1>10, <1>12, <1>a
  <2> QED BY <1>8, <2>1
<1>13. ASSUME Unasked # {}
       PROVE  \E i \in DOMAIN aps : i \notin DOMAIN approvals
  <2>1. Len(order) # 0
    BY <1>1, <1>4, <1>13, KeysAssumption, FS_Subset, FS_EmptySet
  <2>2. Len(approvals) + 1 \in DOMAIN aps /\ Len(approvals) + 1 \notin DOMAIN approvals
    BY <1>a, <1>6, <1>7, <1>10, <2>1
  <2> QED BY <2>2
<1>14. \A i \in DOMAIN approvals : aps[i] = approvals[i]
    BY <1>a, <1>9, <1>10
<1> QED BY <1>11, <1>12, <1>13, <1>14 DEF aps, new, row

\* Asking about unknown effects changes no row, and adds a pending one for every
\* effect no person has been asked about.
LEMMA EnsureAsks ==
    ASSUME NEW d \in Drivers, TypeInv, Ensure(d)
    PROVE  /\ ApprovalsKept(approvals')
           /\ \A i \in DOMAIN approvals : approvals'[i] = approvals[i]
           /\ \A i \in DOMAIN approvals' : i \notin DOMAIN approvals =>
                 /\ effects[approvals'[i].key].state # "none"
                 /\ approvals'[i].state = "pending" /\ ~approvals'[i].consumed
           /\ Unasked # {} => \E i \in DOMAIN approvals' : i \notin DOMAIN approvals
<1> PICK order \in SetToSeqs(Unasked) :
      approvals' = approvals \o
         [i \in 1..Len(order) |->
             [key |-> order[i], args |-> effects[order[i]].args,
              reason |-> "effect_unknown", state |-> "pending",
              due |-> FALSE, consumed |-> FALSE]]
    BY DEF Ensure
<1> QED BY QuestionsKept

\* What Ensure may wait for is a row of the table.
LEMMA QuestionsType ==
    ASSUME NEW aps, aps \in Seq(ApprovalRow), NEW i \in Questions(aps), i # 0
    PROVE  i \in DOMAIN aps /\ i \in Nat
<1>1. DOMAIN aps \subseteq Nat
    BY LenProperties
<1>2. PendingApprovals(aps) \subseteq DOMAIN aps
    BY DEF PendingApprovals
<1>3. ASSUME PendingApprovalForRun(aps) # 0
      PROVE  PendingApprovalForRun(aps) \in PendingApprovals(aps)
  <2>1. PendingApprovals(aps) # {}
    BY <1>3 DEF PendingApprovalForRun
  <2>2. \E x \in PendingApprovals(aps) : \A y \in PendingApprovals(aps) : x <= y
    BY <1>1, <1>2, <2>1, SmallestIn
  <2> QED BY <2>1, <2>2 DEF PendingApprovalForRun
<1>4. i \in PendingApprovals(aps) \/ i = PendingApprovalForRun(aps)
    BY DEF Questions
<1> QED BY <1>1, <1>2, <1>3, <1>4

\* Asking about unknown effects adds rows about effects that exist, and what the
\* driver parks on is one of the rows.
LEMMA EnsureTypes ==
    ASSUME NEW d \in Drivers, TypeInv, Ensure(d) PROVE TypeInv'
<1>c. /\ cx[d] \in Context /\ Known(pc[d], cx[d]) /\ Len(attempts) \in Nat
      /\ UNCHANGED <<run, lease, attempts, effects, notes, audit, world, calls, faults>>
    BY DEF TypeInv, TypeOK, TablesOK, Ensure
<1>1. /\ ApprovalsKept(approvals')
      /\ \A i \in DOMAIN approvals' : i \notin DOMAIN approvals =>
            effects[approvals'[i].key].state # "none"
    BY EnsureAsks
<1>2. TablesOK' /\ KnownRows' /\ RowsGrow
  <2>1. /\ effects' \in [Keys -> EffectRow] /\ notes' \subseteq Note
        /\ \A k \in Keys : effects[k].state # "none" => effects'[k].state # "none"
        /\ \A k \in Keys : effects'[k].state # "none" => effects'[k].args \in Args
        /\ \A i \in DOMAIN approvals' :
              i \notin DOMAIN approvals => effects'[approvals'[i].key].state # "none"
    BY <1>c, <1>1 DEF TypeInv, TypeOK, TablesOK, KnownRows
  <2> QED BY <1>c, <1>1, <2>1, LedgerTables
<1>3. ASSUME NEW i, i \in Questions(approvals'), i # 0, NEW l \in {"expire", "park"},
             pc' = [pc EXCEPT ![d] = l], cx' = [cx EXCEPT ![d] = Asking(i)]
      PROVE  TypeInv'
  <2>1. i \in DOMAIN approvals' /\ i \in Nat
    BY <1>1, <1>3, QuestionsType DEF ApprovalsKept
  <2> DEFINE c == Asking(i)
  <2>2. c \in Context /\ c.todo = {} /\ c.ask = i
    BY <2>1, Contexts
  <2> HIDE DEF c
  <2>3. KnownIn(effects', approvals', l, c) /\ l \in Labels
    BY <2>1, <2>2 DEF KnownIn, InCall, Labels
  <2>4. cx' = [cx EXCEPT ![d] = c]
    BY <1>3 DEF c
  <2> QED BY <1>2, <1>3, <2>2, <2>3, <2>4, StepKeepsTypes DEF StepTo
<1>4. ASSUME NEW l \in Leaving, NEW c \in Context, c.todo = {},
             pc' = [pc EXCEPT ![d] = l], cx' = [cx EXCEPT ![d] = c]
      PROVE  TypeInv'
  <2>1. KnownIn(effects', approvals', l, c) /\ l \in Labels
    BY <1>4 DEF KnownIn, InCall, Labels, Leaving
  <2> QED BY <1>2, <1>4, <2>1, StepKeepsTypes DEF StepTo
<1>5. CASE /\ \E next \in {"sleep", "release"} : pc' = [pc EXCEPT ![d] = next]
           /\ cx' = [cx EXCEPT ![d] = NoContext]
    BY <1>4, <1>5, Contexts DEF Leaving
<1>6. CASE /\ pc' = [pc EXCEPT ![d] = "finalize"]
           /\ cx' = [cx EXCEPT ![d] = Ending(Fin("failed", ExhaustedReason(attempts)))]
  <2>1. "failed" \in RunStates /\ ExhaustedReason(attempts) \in RunReasons
    BY DEF RunStates, TerminalStates, ExhaustedReason, RunReasons
  <2> QED BY <1>4, <1>6, <2>1, Contexts DEF Leaving
<1>7. CASE pc' = [pc EXCEPT ![d] = "start"] /\ cx' = [cx EXCEPT ![d].rows = Len(attempts)]
  <2> DEFINE c == [cx[d] EXCEPT !.rows = Len(attempts)]
  <2>1. cx' = [cx EXCEPT ![d] = c]
    BY <1>7
  <2>2. c \in Context /\ c.todo = cx[d].todo
    BY <1>c DEF Context
  <2> HIDE DEF c
  <2>3. KnownIn(effects', approvals', "start", c) /\ "start" \in Labels
    BY <1>c, <2>2 DEF Known, KnownIn, InCall, Labels
  <2> QED BY <1>2, <1>7, <2>1, <2>2, <2>3, StepKeepsTypes DEF StepTo
<1> QED BY <1>3, <1>5, <1>6, <1>7 DEF Ensure, Goto

\* A process that drives nothing leaves the drivers where they are.
LEMMA OutsideTypes ==
    ASSUME TypeInv, TablesOK', UNCHANGED <<pc, cx, effects>>,
           DOMAIN approvals' = DOMAIN approvals,
           \A i \in DOMAIN approvals : approvals'[i].key = approvals[i].key
    PROVE  TypeInv'
<1>1. KnownRows'
    BY DEF TypeInv, KnownRows
<1>2. \A d \in Drivers : Known(pc[d], cx[d])'
    BY DEF TypeInv, Known, KnownIn
<1> QED BY <1>1, <1>2 DEF TypeInv, TypeOK

\* A step that changes the run row only.
LEMMA RunOnlyTypes ==
    ASSUME TypeInv, run' \in RunRow,
           UNCHANGED <<lease, attempts, effects, approvals, notes, audit, world, pc, cx,
                       calls, faults>>
    PROVE  TypeInv'
<1>1. TablesOK'
    BY DEF TypeInv, TypeOK, TablesOK
<1> QED BY <1>1, OutsideTypes

\* The heartbeat and its lapse change the lease only.
LEMMA LeaseTypes ==
    ASSUME TypeInv, LeaseLapses \/ \E d \in Drivers : RenewLease(d) PROVE TypeInv'
<1>1. lease \in [holder : Drivers \cup {NoDriver}, live : BOOLEAN]
      /\ faults \in [crashes : 0..MaxCrashes, lapses : 0..MaxLapses]
    BY DEF TypeInv, TypeOK, TablesOK
<1>2. lease' \in [holder : Drivers \cup {NoDriver}, live : BOOLEAN]
    BY <1>1 DEF LeaseLapses, RenewLease
<1>3. faults' \in [crashes : 0..MaxCrashes, lapses : 0..MaxLapses]
  <2>1. CASE LeaseLapses
    <3>1. faults.lapses + 1 \in 0..MaxLapses
        BY <1>1, <2>1, BoundsAssumption DEF LeaseLapses
    <3>2. faults' = [faults EXCEPT !.lapses = faults.lapses + 1]
        BY <2>1 DEF LeaseLapses
    <3> QED BY <1>1, <3>1, <3>2
  <2>2. CASE \E d \in Drivers : RenewLease(d)
    BY <1>1, <2>2 DEF RenewLease
  <2> QED BY <2>1, <2>2
<1>4. TablesOK'
    BY <1>2, <1>3 DEF LeaseLapses, RenewLease, TypeInv, TypeOK, TablesOK
<1>5. UNCHANGED <<pc, cx, effects, approvals>>
    BY DEF LeaseLapses, RenewLease
<1> QED BY <1>4, <1>5, OutsideTypes

\* A decision, or an expiry that comes due, changes one row.
LEMMA ApprovalStepKept ==
    ASSUME TypeInv, NEW i \in DOMAIN approvals,
           \/ ApprovalTimeout(i)
           \/ \E decision \in {"approved", "denied"} : DecideApproval(i, decision)
    PROVE  ApprovalsKept(approvals') /\ DOMAIN approvals' = DOMAIN approvals
<1>1. approvals[i] \in ApprovalRow
    BY ApprovalType
<1>2. CASE ApprovalTimeout(i)
  <2> DEFINE row == [approvals[i] EXCEPT !.due = TRUE]
  <2>1. /\ row \in ApprovalRow /\ row.key = approvals[i].key
        /\ row.args = approvals[i].args /\ row.reason = approvals[i].reason
        /\ row.state = approvals[i].state /\ row.consumed = approvals[i].consumed
    BY <1>1 DEF ApprovalRow
  <2>2. approvals' = [approvals EXCEPT ![i] = row]
    BY <1>2 DEF ApprovalTimeout
  <2> HIDE DEF row
  <2> QED BY <2>1, <2>2, RowUpdateKept
<1>3. ASSUME NEW decision \in {"approved", "denied"}, DecideApproval(i, decision),
             ~approvals[i].due
      PROVE  ApprovalsKept(approvals') /\ DOMAIN approvals' = DOMAIN approvals
  <2> DEFINE row == [approvals[i] EXCEPT !.state = decision]
  <2>1. /\ row \in ApprovalRow /\ row.key = approvals[i].key
        /\ row.args = approvals[i].args /\ row.reason = approvals[i].reason
        /\ row.consumed = approvals[i].consumed
    BY <1>1 DEF ApprovalRow, ApprovalStates
  <2>2. approvals' = [approvals EXCEPT ![i] = row] /\ approvals[i].state = "pending"
    BY <1>3 DEF DecideApproval
  <2> HIDE DEF row
  <2> QED BY <2>1, <2>2, RowUpdateKept
<1>4. ASSUME NEW decision \in {"approved", "denied"}, DecideApproval(i, decision),
             approvals[i].due
      PROVE  ApprovalsKept(approvals') /\ DOMAIN approvals' = DOMAIN approvals
    BY <1>4, ExpireKept DEF DecideApproval
<1> QED BY <1>2, <1>3, <1>4

\* People, other processes and the clock keep the invariant.
LEMMA EnvironmentTypes == ASSUME TypeInv, Environment PROVE TypeInv'
<1>1. CASE RequestCancel \/ BackoffElapses
  <2>1. run' \in RunRow
    BY <1>1 DEF RequestCancel, BackoffElapses, TypeInv, TypeOK, TablesOK, RunRow
  <2> QED BY <1>1, <2>1, RunOnlyTypes DEF RequestCancel, BackoffElapses
<1>2. CASE LeaseLapses
    BY <1>2, LeaseTypes
<1>3. ASSUME NEW i \in DOMAIN approvals,
             \/ ApprovalTimeout(i)
             \/ \E decision \in {"approved", "denied"} : DecideApproval(i, decision)
      PROVE  TypeInv'
  <2>1. ApprovalsKept(approvals') /\ DOMAIN approvals' = DOMAIN approvals
    BY <1>3, ApprovalStepKept
  <2>2. UNCHANGED <<run, lease, attempts, effects, notes, audit, world, pc, cx, calls, faults>>
    BY <1>3 DEF ApprovalTimeout, DecideApproval
  <2>3. TablesOK'
    BY <2>1, <2>2 DEF TypeInv, TypeOK, TablesOK, ApprovalsKept
  <2> QED BY <2>1, <2>2, <2>3, OutsideTypes DEF ApprovalsKept
<1> QED BY <1>1, <1>2, <1>3 DEF Environment

\* Every step keeps the invariant.
LEMMA TypeStep == TypeInv /\ [Next]_vars => TypeInv'
<1> SUFFICES ASSUME TypeInv, [Next]_vars PROVE TypeInv'
    OBVIOUS
<1>1. ASSUME NEW d \in Drivers, AcquireLease(d) \/ RenewLease(d) \/ Crash(d)
      PROVE  TypeInv'
    BY <1>1, AcquireLeaseTypes, LeaseTypes, CrashTypes
<1>2. ASSUME NEW d \in Drivers, DriveSteps(d) PROVE TypeInv'
  <2>1. CASE \/ ReleaseLease(d) \/ ReadRun(d) \/ Recover(d) \/ ReconcileNext(d)
             \/ LookUp(d) \/ Settle(d) \/ Ensure(d) \/ WakeUp(d) \/ StartAttempt(d)
    BY <2>1, ReleaseLeaseTypes, ReadRunTypes, RecoverTypes, ReconcileNextTypes,
       LookUpTypes, SettleTypes, EnsureTypes, WakeUpTypes, StartAttemptTypes
  <2>2. CASE \/ Step(d) \/ AgentSays(d) \/ AgentReads(d) \/ AgentFinishes(d)
             \/ AgentCalls(d) \/ ReopenFailed(d) \/ Gate(d) \/ MayDispatch(d)
    BY <2>2, StepTypes, AgentSaysTypes, AgentReadsTypes, AgentFinishesTypes,
       AgentCallsTypes, ReopenFailedTypes, GateTypes, MayDispatchTypes
  <2>3. CASE \/ MarkEffectDispatched(d) \/ Perform(d) \/ CommitEffect(d)
             \/ PerformFails(d) \/ PerformOutcomeUnknown(d)
    BY <2>3, MarkEffectDispatchedTypes, PerformTypes, CommitEffectTypes,
       PerformFailsTypes, PerformOutcomeUnknownTypes
  <2>4. CASE \/ AttemptFails(d) \/ CloseAttempt(d) \/ ScheduleRetry(d) \/ Park(d)
             \/ Expire(d) \/ Finalize(d)
    BY <2>4, AttemptFailsTypes, CloseAttemptTypes, ScheduleRetryTypes, ParkTypes,
       ExpireTypes, FinalizeTypes
  <2> QED BY <1>2, <2>1, <2>2, <2>3, <2>4 DEF DriveSteps
<1>3. CASE UNCHANGED vars
  <2>1. TablesOK'
    BY <1>3, TablesKept DEF vars, TypeInv, TypeOK
  <2> QED BY <1>3, <2>1, OutsideTypes DEF vars
<1> QED BY <1>1, <1>2, <1>3, EnvironmentTypes DEF Next, Finished

\* The strengthened type invariant holds in every state the specification reaches.
LEMMA TypeInvariant == Spec => []TypeInv
<1> QED BY TypeInit, TypeStep, PTL DEF Spec

\* Every row and every driver keeps its type: the runner never reads past the
\* chain of providers, the approvals or the keys it knows.
THEOREM TypeCorrect == Spec => []TypeOK
<1>1. TypeInv => TypeOK
    BY DEF TypeInv
<1> QED BY <1>1, TypeInvariant, PTL

-----------------------------------------------------------------------------
(* Single use: the shape of a step *)

\* Approvals that do not change are kept.
LEMMA SameApprovals ==
    ASSUME TypeInv, UNCHANGED approvals PROVE ApprovalsKept(approvals')
    BY ApprovalType DEF ApprovalsKept

\* Driver d may go on with the approval it paid with, or with none for a tool
\* that needs none; nothing takes effect.
UseKept(d) ==
    /\ ApprovalsKept(approvals') /\ UNCHANGED world
    /\ \A e \in Drivers \ {d} : pc'[e] = pc[e] /\ cx'[e] = cx[e]
    /\ pc'[d] \in {"look", "settle", "reopen", "gate"} => cx'[d].call.approval = 0
    /\ pc'[d] \in {"check", "mark", "perform"} =>
          \/ cx'[d].call.approval = 0 /\ cx'[d].call.key \notin Gated
          \/ InFlight(d) /\ cx'[d].call = cx[d].call

\* A step that leaves a driver with the approval it had keeps single use.
LEMMA UseKeeps ==
    ASSUME NEW d \in Drivers, SingleUseInv, UseKept(d) PROVE SingleUseInv'
<1>1. \A e \in Drivers : Pays(e)' => Pays(e) /\ cx'[e].call = cx[e].call
    BY DEF UseKept, Pays, InFlight
<1>2. ASSUME NEW e \in Drivers
      PROVE  /\ pc'[e] \in {"look", "settle", "reopen", "gate"} => cx'[e].call.approval = 0
             /\ InFlight(e)' /\ cx'[e].call.key \in Gated => cx'[e].call.approval # 0
  <2>1. CASE e = d
    BY <2>1 DEF UseKept, SingleUseInv, SpentInFlight, InFlight
  <2>2. CASE e # d
    BY <2>2 DEF UseKept, SingleUseInv, SpentInFlight, InFlight
  <2> QED BY <2>1, <2>2
<1>3. ASSUME NEW e \in Drivers, Pays(e)'
      PROVE  /\ Spent(cx[e].call.approval, cx[e].call.key)'
             /\ \A i \in DOMAIN world' : world'[i].approval # cx'[e].call.approval
             /\ \A f \in Drivers :
                   Pays(f)' /\ cx'[f].call.approval = cx'[e].call.approval => f = e
  <2>1. Pays(e) /\ cx'[e].call = cx[e].call
    BY <1>1, <1>3
  <2>2. Spent(cx[e].call.approval, cx[e].call.key)
    BY <2>1 DEF SingleUseInv, SpentInFlight
  <2>3. Spent(cx[e].call.approval, cx[e].call.key)'
    BY <2>1, <2>2 DEF UseKept, ApprovalsKept, Spent
  <2> QED BY <1>1, <2>1, <2>3 DEF UseKept, SingleUseInv, SpentInFlight
<1>4. SpentInFlight'
    BY <1>2, <1>3 DEF SpentInFlight
<1>5. SpentInWorld'
  <2>1. \A i \in DOMAIN world : Spent(world[i].approval, world[i].key) =>
            Spent(world[i].approval, world[i].key)'
    BY DEF UseKept, ApprovalsKept, Spent
  <2> QED BY <2>1 DEF UseKept, SingleUseInv, SpentInWorld
<1> QED BY <1>4, <1>5 DEF SingleUseInv

\* The labels at which a driver carries no approval.
Unpaid == Labels \ {"look", "settle", "reopen", "gate", "check", "mark", "perform"}

\* A driver that goes where no approval is carried leaves single use alone.
LEMMA UnpaidKept ==
    ASSUME NEW d \in Drivers, TypeInv, NEW l \in Unpaid,
           pc' = [pc EXCEPT ![d] = l], \A e \in Drivers \ {d} : cx'[e] = cx[e],
           UNCHANGED <<approvals, world>>
    PROVE  UseKept(d)
<1>1. pc'[d] = l /\ \A e \in Drivers \ {d} : pc'[e] = pc[e]
    BY DEF TypeInv, TypeOK
<1> QED BY <1>1, SameApprovals DEF UseKept, Unpaid

-----------------------------------------------------------------------------
(* Single use: the actions *)

\* An attempt that fails spends nothing.
LEMMA EndWithErrorUse ==
    ASSUME NEW d \in Drivers, TypeInv, NEW kind, NEW retryable,
           EndWithError(d, kind, retryable)
    PROVE  UseKept(d)
<1>1. \E l \in {"finalize", "retry"} : pc' = [pc EXCEPT ![d] = l]
    BY DEF EndWithError, Goto
<1>2. \A e \in Drivers \ {d} : cx'[e] = cx[e]
    BY DEF EndWithError, TypeInv, TypeOK
<1>3. UNCHANGED <<approvals, world>>
    BY DEF EndWithError
<1> QED BY <1>1, <1>2, <1>3, UnpaidKept DEF Unpaid, Labels

\* What a driver does outside an attempt spends nothing.
LEMMA DriveUse ==
    ASSUME NEW d \in Drivers, TypeInv,
           \/ ReleaseLease(d) \/ ReadRun(d) \/ Recover(d) \/ WakeUp(d) \/ StartAttempt(d)
           \/ AcquireLease(d) \/ Crash(d) \/ CloseAttempt(d) \/ ScheduleRetry(d)
           \/ Park(d) \/ Finalize(d)
    PROVE  UseKept(d)
<1>1. UNCHANGED <<approvals, world>>
    BY DEF ReleaseLease, ReadRun, Recover, WakeUp, StartAttempt, AcquireLease, Crash,
       CloseAttempt, ScheduleRetry, Park, Finalize
<1>2. \E l \in {"idle", "loop", "release", "finalize", "recover", "ensure", "reconcile",
                "step", "park", "expire"} : pc' = [pc EXCEPT ![d] = l]
    BY DEF ReleaseLease, ReadRun, Recover, WakeUp, StartAttempt, AcquireLease, Crash,
       CloseAttempt, ScheduleRetry, Park, Finalize, Goto
<1>3. \A e \in Drivers \ {d} : cx'[e] = cx[e]
    BY DEF ReleaseLease, ReadRun, Recover, WakeUp, StartAttempt, AcquireLease, Crash,
       CloseAttempt, ScheduleRetry, Park, Finalize, TypeInv, TypeOK
<1> QED BY <1>1, <1>2, <1>3, UnpaidKept DEF Unpaid, Labels

\* The steps of an attempt around a call, and the writes after perform(), spend nothing.
LEMMA AttemptUse ==
    ASSUME NEW d \in Drivers, TypeInv,
           \/ Step(d) \/ AgentSays(d) \/ AgentReads(d) \/ AgentFinishes(d)
           \/ CommitEffect(d) \/ PerformFails(d) \/ PerformOutcomeUnknown(d)
    PROVE  UseKept(d)
<1>1. UNCHANGED <<approvals, world>>
    BY DEF Step, AgentSays, AgentReads, AgentFinishes, CommitEffect, PerformFails,
       PerformOutcomeUnknown, AfterPerform
<1>2. \E l \in {"ended", "agent", "step", "idle", "finalize"} : pc' = [pc EXCEPT ![d] = l]
    BY DEF Step, AgentSays, AgentReads, AgentFinishes, CommitEffect, PerformFails,
       PerformOutcomeUnknown, AfterPerform, Goto
<1>3. \A e \in Drivers \ {d} : cx'[e] = cx[e]
    BY DEF Step, AgentSays, AgentReads, AgentFinishes, CommitEffect, PerformFails,
       PerformOutcomeUnknown, AfterPerform, TypeInv, TypeOK
<1> QED BY <1>1, <1>2, <1>3, UnpaidKept DEF Unpaid, Labels

\* Each way an attempt fails spends nothing.
LEMMA AttemptFailsUse ==
    ASSUME NEW d \in Drivers, TypeInv, AttemptFails(d) PROVE UseKept(d)
<1>1. \/ \E f \in Failures : EndWithError(d, f.kind, f.retryable)
      \/ EndWithError(d, "task", FALSE)
    BY DEF AttemptFails
<1> QED BY <1>1, EndWithErrorUse

\* Expire and Ensure change approvals and carry none.
LEMMA TableUse ==
    ASSUME NEW d \in Drivers, TypeInv, Expire(d) \/ Ensure(d) PROVE UseKept(d)
<1>1. ApprovalsKept(approvals')
  <2>1. CASE Ensure(d)
    BY <2>1, EnsureAsks
  <2>2. CASE Expire(d)
    <3>1. cx[d].ask = 0 \/ cx[d].ask \in DOMAIN approvals
        BY <2>2 DEF TypeInv, Expire, Known, KnownIn
    <3> QED BY <2>2, <3>1, ExpireKept, SameApprovals DEF Expire
  <2> QED BY <2>1, <2>2
<1>2. \E l \in {"release", "finalize", "park", "expire", "sleep", "start"} :
        pc' = [pc EXCEPT ![d] = l]
    BY DEF Expire, Ensure, Goto
<1>3. UNCHANGED world /\ \A e \in Drivers \ {d} : cx'[e] = cx[e]
    BY DEF Expire, Ensure, TypeInv, TypeOK
<1>4. pc'[d] \in {"release", "finalize", "park", "expire", "sleep", "start"}
      /\ \A e \in Drivers \ {d} : pc'[e] = pc[e]
    BY <1>2 DEF TypeInv, TypeOK
<1> QED BY <1>1, <1>3, <1>4 DEF UseKept

\* A call goes on with the approval it had, which was none: a gated one to the gate.
LEMMA FollowUse ==
    ASSUME NEW d \in Drivers, TypeInv, NEW k \in Keys, NEW row \in EffectRow,
           NEW call \in Call, call.key = k, call.approval = 0, Follow(d, k, row, call),
           UNCHANGED <<approvals, world>>
    PROVE  UseKept(d)
<1> DEFINE next == Dispose(k, row)
<1>1. /\ next \in {"step", "look", "ended", "reopen", "gate", "check"}
      /\ next = "check" => k \notin Gated
    BY DisposeType
<1>2. pc' = [pc EXCEPT ![d] = next]
    BY DEF Follow, Goto
<1>3. \A e \in Drivers \ {d} : cx'[e] = cx[e]
    BY DEF Follow, TypeInv, TypeOK
<1>4. next \notin {"step", "ended"} => cx'[d].call.approval = 0 /\ cx'[d].call.key = k
  <2> SUFFICES ASSUME next \notin {"step", "ended"}
               PROVE  cx'[d].call.approval = 0 /\ cx'[d].call.key = k
    OBVIOUS
  <2> DEFINE now == [call EXCEPT !.row = row]
             c   == [cx[d] EXCEPT !.call = now]
  <2>1. cx' = [cx EXCEPT ![d] = c]
    BY DEF Follow
  <2>2. now.approval = 0 /\ now.key = k
    BY DEF Call
  <2> HIDE DEF now
  <2>3. c.call = now
    BY DEF TypeInv, TypeOK, Context
  <2> QED BY <2>1, <2>2, <2>3 DEF TypeInv, TypeOK
<1> HIDE DEF next
<1>5. pc'[d] = next /\ \A e \in Drivers \ {d} : pc'[e] = pc[e]
    BY <1>2 DEF TypeInv, TypeOK
<1> QED BY <1>1, <1>3, <1>4, <1>5, SameApprovals DEF UseKept

\* Recovery looks up effects and spends nothing.
LEMMA ReconcileUse ==
    ASSUME NEW d \in Drivers, TypeInv, SingleUseInv, ReconcileNext(d) \/ LookUp(d)
    PROVE  UseKept(d)
<1>1. UNCHANGED <<approvals, world>>
    BY DEF ReconcileNext, LookUp
<1>2. pc'[d] \in {"ensure", "look", "settle"} /\ \A e \in Drivers \ {d} : pc'[e] = pc[e]
    BY DEF ReconcileNext, LookUp, Goto, TypeInv, TypeOK
<1>3. \A e \in Drivers \ {d} : cx'[e] = cx[e]
    BY DEF ReconcileNext, LookUp, TypeInv, TypeOK
<1>4. pc'[d] # "ensure" => cx'[d].call.approval = 0
  <2>1. CASE LookUp(d)
    <3>1. cx[d] \in Context /\ cx[d].call \in Call /\ cx[d].call.approval = 0
        BY <2>1 DEF LookUp, TypeInv, TypeOK, Context, SingleUseInv, SpentInFlight
    <3>2. PICK v : cx' = [cx EXCEPT ![d].call.verdict = v]
        BY <2>1 DEF LookUp
    <3> DEFINE call == [cx[d].call EXCEPT !.verdict = v]
               c == [cx[d] EXCEPT !.call = call]
    <3>3. call.approval = 0
        BY <3>1 DEF Call
    <3>4. cx' = [cx EXCEPT ![d] = c]
        BY <3>2
    <3> HIDE DEF call
    <3>5. c.call = call
        BY <3>1 DEF Context
    <3> QED BY <3>3, <3>4, <3>5 DEF TypeInv, TypeOK
  <2>2. CASE ReconcileNext(d) /\ pc'[d] = "look"
    <3>1. PICK k : cx' = [cx EXCEPT ![d] = LookingUp(cx[d], k)]
        BY <2>2 DEF ReconcileNext, Goto, TypeInv, TypeOK
    <3>2. cx'[d] = LookingUp(cx[d], k) /\ cx[d] \in Context
        BY <3>1 DEF TypeInv, TypeOK
    <3>3. LookingUp(cx[d], k).call.approval = 0
        BY <3>2 DEF LookingUp, Context, NoCall
    <3> QED BY <3>2, <3>3
  <2>3. CASE ReconcileNext(d) /\ pc'[d] # "look"
    BY <2>3 DEF ReconcileNext, Goto, TypeInv, TypeOK
  <2> QED BY <2>1, <2>2, <2>3
<1> QED BY <1>1, <1>2, <1>3, <1>4, SameApprovals DEF UseKept

\* A settled or reopened call carries no approval; a gated one goes to the gate.
LEMMA SettleUse ==
    ASSUME NEW d \in Drivers, TypeInv, SingleUseInv, Settle(d) \/ ReopenFailed(d)
    PROVE  UseKept(d)
<1> DEFINE call == cx[d].call
<1>1. /\ pc[d] \in {"settle", "reopen"} /\ pc[d] \in InCall
      /\ UNCHANGED <<approvals, world>>
    BY DEF Settle, ReopenFailed, InCall
<1>2. /\ call \in Call /\ call.key \in Keys /\ effects[call.key] \in EffectRow
      /\ call.approval = 0
    BY <1>1, InCallTypes DEF SingleUseInv, SpentInFlight
<1>3. \/ pc' = [pc EXCEPT ![d] = "reconcile"] /\ cx' = [cx EXCEPT ![d].call = NoCall]
      \/ Follow(d, call.key, Settled(effects[call.key], call.verdict), call)
      \/ Follow(d, call.key, Reopen(effects[call.key]), call)
    BY DEF Settle, ReopenFailed, Goto
<1>4. /\ Settled(effects[call.key], call.verdict) \in EffectRow
      /\ Reopen(effects[call.key]) \in EffectRow
    BY <1>2, SettledType, EffectRowOps
<1>5. CASE pc' = [pc EXCEPT ![d] = "reconcile"] /\ cx' = [cx EXCEPT ![d].call = NoCall]
  <2>1. \A e \in Drivers \ {d} : cx'[e] = cx[e]
    BY <1>5 DEF TypeInv, TypeOK
  <2> QED BY <1>1, <1>5, <2>1, UnpaidKept DEF Unpaid, Labels
<1> HIDE DEF call
<1> QED BY <1>1, <1>2, <1>3, <1>4, <1>5, FollowUse

\* A new call carries no approval; a gated one goes to the gate.
LEMMA AgentCallsUse ==
    ASSUME NEW d \in Drivers, TypeInv, AgentCalls(d) PROVE UseKept(d)
<1>1. PICK k \in Keys : \E a \in ArgsOf[k] :
        Follow(d, k, Intend(effects[k], a), Requested(k, a))
    BY DEF AgentCalls
<1>2. PICK a \in ArgsOf[k] : Follow(d, k, Intend(effects[k], a), Requested(k, a))
    BY <1>1
<1>3. a \in Args /\ effects[k] \in EffectRow /\ run.cancel \in BOOLEAN
      /\ (effects[k].state # "none" => effects[k].args \in Args)
    BY KeysAssumption DEF TypeInv, TypeOK, TablesOK, KnownRows, RunRow
<1>4. Intend(effects[k], a) \in EffectRow
    BY <1>3, IntendType
<1>5. Requested(k, a) \in Call /\ Requested(k, a).key = k /\ Requested(k, a).approval = 0
    BY <1>3, RowTypes DEF Requested, Call, NoCall
<1>6. UNCHANGED <<approvals, world>>
    BY DEF AgentCalls
<1> QED BY <1>2, <1>4, <1>5, <1>6, FollowUse

\* Before perform() a driver in flight stays in flight with what it paid, or gives up.
LEMMA DispatchUse ==
    ASSUME NEW d \in Drivers, TypeInv, MayDispatch(d) \/ MarkEffectDispatched(d)
    PROVE  UseKept(d)
<1>1. UNCHANGED <<approvals, world>> /\ InFlight(d)
    BY DEF MayDispatch, MarkEffectDispatched, EndWith, InFlight
<1>2. \A e \in Drivers \ {d} : pc'[e] = pc[e] /\ cx'[e] = cx[e]
    BY DEF MayDispatch, MarkEffectDispatched, EndWith, Goto, TypeInv, TypeOK
<1>3. \/ pc'[d] \in {"step", "ended", "idle"}
      \/ pc'[d] \in {"mark", "perform"} /\ UNCHANGED cx
    BY DEF MayDispatch, MarkEffectDispatched, EndWith, Goto, TypeInv, TypeOK
<1> QED BY <1>1, <1>2, <1>3, SameApprovals DEF UseKept
\* Nobody moves and nothing takes effect; approvals are kept.
LEMMA NobodyMoves ==
    ASSUME SingleUseInv, ApprovalsKept(approvals'), UNCHANGED <<pc, cx, world>>
    PROVE  SingleUseInv'
<1>1. \A i, k : Spent(i, k) => Spent(i, k)'
    BY DEF ApprovalsKept, Spent
<1>2. \A e \in Drivers : InFlight(e)' = InFlight(e) /\ Pays(e)' = Pays(e)
    BY DEF InFlight, Pays
<1>3. SpentInFlight'
    BY <1>1, <1>2 DEF SingleUseInv, SpentInFlight
<1>4. SpentInWorld'
    BY <1>1 DEF SingleUseInv, SpentInWorld
<1> QED BY <1>3, <1>4 DEF SingleUseInv

\* consumeApprovalSync: the approval becomes the one driver d pays with.  It had
\* not been consumed, so nothing in the world and nobody in flight has it.
LEMMA PayUse ==
    ASSUME NEW d \in Drivers, TypeInv, SingleUseInv, NEW i \in DOMAIN approvals,
           NEW k, approvals[i].key = k, approvals[i].state = "approved",
           ~approvals[i].consumed, approvals' = ConsumeApproval(approvals, i),
           UNCHANGED world, pc' = [pc EXCEPT ![d] = "check"],
           \A e \in Drivers \ {d} : cx'[e] = cx[e],
           cx'[d].call.key = k, cx'[d].call.approval = i
    PROVE  SingleUseInv'
<1>1. ApprovalsKept(approvals') /\ Spent(i, k)'
    BY ConsumeKept DEF ApprovalsKept, Spent
<1>2. \A j, m : Spent(j, m) => Spent(j, m)' /\ j # i
    BY <1>1 DEF ApprovalsKept, Spent
<1>3. pc'[d] = "check" /\ \A e \in Drivers \ {d} : pc'[e] = pc[e]
    BY DEF TypeInv, TypeOK
<1>4. i # 0
    BY ApprovalType
<1>5. \A e \in Drivers \ {d} : InFlight(e)' = InFlight(e) /\ Pays(e)' = Pays(e)
    BY <1>3 DEF InFlight, Pays
<1>6. \A e \in Drivers : Pays(e) => cx[e].call.approval # i
    BY <1>2 DEF SingleUseInv, SpentInFlight
<1>7. \A j \in DOMAIN world : world[j].approval # i
    BY <1>2, <1>4 DEF SingleUseInv, SpentInWorld
<1>8. ASSUME NEW e \in Drivers
      PROVE  /\ pc'[e] \in {"look", "settle", "reopen", "gate"} => cx'[e].call.approval = 0
             /\ InFlight(e)' /\ cx'[e].call.key \in Gated => cx'[e].call.approval # 0
  <2>1. CASE e = d
    BY <1>3, <1>4, <2>1
  <2>2. CASE e # d
    BY <1>3, <1>5, <2>2 DEF SingleUseInv, SpentInFlight
  <2> QED BY <2>1, <2>2
<1>9. ASSUME NEW e \in Drivers, Pays(e)'
      PROVE  /\ Spent(cx[e].call.approval, cx[e].call.key)'
             /\ \A j \in DOMAIN world' : world'[j].approval # cx'[e].call.approval
             /\ \A f \in Drivers :
                   Pays(f)' /\ cx'[f].call.approval = cx'[e].call.approval => f = e
  <2>1. CASE e = d
    BY <1>1, <1>5, <1>6, <1>7, <2>1
  <2>2. CASE e # d
    <3>1. Pays(e) /\ cx'[e] = cx[e]
        BY <1>5, <1>9, <2>2
    <3>2. /\ Spent(cx[e].call.approval, cx[e].call.key)
          /\ \A j \in DOMAIN world : world[j].approval # cx[e].call.approval
          /\ \A f \in Drivers :
                Pays(f) /\ cx[f].call.approval = cx[e].call.approval => f = e
        BY <3>1 DEF SingleUseInv, SpentInFlight
    <3>3. Spent(cx[e].call.approval, cx[e].call.key)'
        BY <1>1, <3>1, <3>2 DEF ApprovalsKept, Spent
    <3>4. cx[e].call.approval # i
        BY <1>6, <3>1
    <3>5. ASSUME NEW f \in Drivers, Pays(f)', cx'[f].call.approval = cx'[e].call.approval
          PROVE  f = e
        BY <1>5, <3>1, <3>2, <3>4, <3>5
    <3> QED BY <3>1, <3>2, <3>3, <3>5
  <2> QED BY <2>1, <2>2
<1>10. SpentInFlight'
    BY <1>8, <1>9 DEF SpentInFlight
<1>11. SpentInWorld'
    BY <1>2 DEF SingleUseInv, SpentInWorld
<1> QED BY <1>10, <1>11 DEF SingleUseInv

\* The attempt ends, or the agent is told: the driver carries nothing.
LEMMA NotPaidUse ==
    ASSUME NEW d \in Drivers, TypeInv, SingleUseInv, ApprovalsKept(approvals'),
           UNCHANGED world, NEW l \in {"step", "ended"}, pc' = [pc EXCEPT ![d] = l],
           \A e \in Drivers \ {d} : cx'[e] = cx[e]
    PROVE  SingleUseInv'
<1>1. pc'[d] = l /\ \A e \in Drivers \ {d} : pc'[e] = pc[e]
    BY DEF TypeInv, TypeOK
<1> QED BY <1>1, UseKeeps DEF UseKept

\* An attempt that parks, expires or is cancelled at the gate spends nothing.
LEMMA EndWithUse ==
    ASSUME NEW d \in Drivers, TypeInv, SingleUseInv, ApprovalsKept(approvals'),
           UNCHANGED world, NEW out, NEW i, EndWith(d, out, i)
    PROVE  SingleUseInv'
<1>1. pc' = [pc EXCEPT ![d] = "ended"] /\ \A e \in Drivers \ {d} : cx'[e] = cx[e]
    BY DEF EndWith, Goto, TypeInv, TypeOK
<1> QED BY <1>1, NotPaidUse

\* approvalGate lets a call pass only with an approval it consumes itself.
LEMMA GateUse ==
    ASSUME NEW d \in Drivers, TypeInv, SingleUseInv, Gate(d) PROVE SingleUseInv'
<1> DEFINE call   == cx[d].call
           k      == call.key
           reason == IF call.row.state = "unknown" THEN "effect_unknown"
                     ELSE "approval_required"
           i      == FindApproval(approvals, k, call.row.args)
<1>c. pc[d] = "gate" /\ pc[d] \in InCall /\ UNCHANGED world
    BY DEF Gate, InCall
<1>k. /\ cx[d] \in Context /\ call \in Call /\ k \in Keys /\ call.row.args \in Args
      /\ reason \in GateReasons
    BY <1>c, InCallTypes DEF TypeInv, Known, KnownIn, GateReasons
<1>i. i # 0 => i \in DOMAIN approvals /\ i \in Nat /\ approvals[i].key = k
    BY FindApprovalType, ApprovalType
<1>1. CASE i # 0 /\ approvals' = ExpireApproval(approvals, i) /\ EndWith(d, "expired", i)
    BY <1>1, <1>c, <1>i, ExpireKept, EndWithUse
<1>2. CASE UNCHANGED approvals /\ (EndWith(d, "park", i) \/ EndWith(d, "expired", i))
    BY <1>2, <1>c, SameApprovals, EndWithUse
<1>3. CASE /\ i # 0 /\ approvals[i].state = "approved" /\ ~approvals[i].consumed
           /\ approvals' = ConsumeApproval(approvals, i)
           /\ cx' = [cx EXCEPT ![d].call.approval = i]
           /\ pc' = [pc EXCEPT ![d] = "check"]
  <2> DEFINE now == [call EXCEPT !.approval = i]
             c   == [cx[d] EXCEPT !.call = now]
  <2>1. now.key = k /\ now.approval = i
    BY <1>k DEF Call
  <2>2. cx' = [cx EXCEPT ![d] = c]
    BY <1>3
  <2> HIDE DEF now
  <2>3. c.call = now
    BY <1>k DEF Context
  <2> HIDE DEF c
  <2>4. cx'[d] = c /\ \A e \in Drivers \ {d} : cx'[e] = cx[e]
    BY <2>2 DEF TypeInv, TypeOK
  <2> QED BY <1>3, <1>c, <1>i, <2>1, <2>3, <2>4, PayUse
<1>4. CASE /\ cx' = [cx EXCEPT ![d].call = NoCall] /\ pc' = [pc EXCEPT ![d] = "step"]
           /\ UNCHANGED approvals
  <2>1. \A e \in Drivers \ {d} : cx'[e] = cx[e]
    BY <1>4 DEF TypeInv, TypeOK
  <2> QED BY <1>4, <1>c, <2>1, SameApprovals, NotPaidUse
<1>5. CASE /\ approvals' = CreateApproval(approvals, k, call.row.args, reason)
           /\ EndWith(d, "park", Len(approvals) + 1)
    BY <1>5, <1>c, <1>k, CreateKept, EndWithUse
<1>s. \/ i # 0 /\ approvals' = ExpireApproval(approvals, i) /\ EndWith(d, "expired", i)
      \/ UNCHANGED approvals /\ (EndWith(d, "park", i) \/ EndWith(d, "expired", i))
      \/ /\ i # 0 /\ approvals[i].state = "approved" /\ ~approvals[i].consumed
         /\ approvals' = ConsumeApproval(approvals, i)
         /\ cx' = [cx EXCEPT ![d].call.approval = i]
         /\ pc' = [pc EXCEPT ![d] = "check"]
      \/ /\ cx' = [cx EXCEPT ![d].call = NoCall] /\ pc' = [pc EXCEPT ![d] = "step"]
         /\ UNCHANGED approvals
      \/ /\ approvals' = CreateApproval(approvals, k, call.row.args, reason)
         /\ EndWith(d, "park", Len(approvals) + 1)
    BY DEF Gate, Goto, Live
<1> QED BY <1>1, <1>2, <1>3, <1>4, <1>5, <1>s

\* perform: what the driver paid with goes to the world, where it was not yet.
LEMMA PerformUse ==
    ASSUME NEW d \in Drivers, TypeInv, SingleUseInv, Perform(d) PROVE SingleUseInv'
<1> DEFINE call == cx[d].call
           done == [key |-> call.key, args |-> call.args, approval |-> call.approval,
                    late |-> call.late]
           n    == Len(world)
<1>1. /\ world \in Seq(Performance) /\ n \in Nat /\ DOMAIN world = 1..n
      /\ world' = Append(world, done) /\ done.key = call.key
      /\ done.approval = call.approval
  <2>1. world \in Seq(Performance) /\ world' = Append(world, done)
    BY DEF TypeInv, TypeOK, TablesOK, Perform
  <2> QED BY <2>1, LenProperties
<1>2. /\ DOMAIN world' = 1..(n + 1) /\ world'[n + 1] = done
      /\ \A i \in 1..n : world'[i] = world[i]
  <2> HIDE DEF done
  <2> QED BY <1>1
<1>3. /\ pc[d] = "perform" /\ pc'[d] = "performed" /\ UNCHANGED <<cx, approvals>>
      /\ \A e \in Drivers \ {d} : pc'[e] = pc[e]
    BY DEF Perform, Goto, TypeInv, TypeOK
<1>4. /\ InFlight(d) /\ ~InFlight(d)' /\ ~Pays(d)'
      /\ \A e \in Drivers \ {d} : InFlight(e)' = InFlight(e) /\ Pays(e)' = Pays(e)
    BY <1>3 DEF InFlight, Pays
<1>5. /\ call.key \in Gated => call.approval # 0
      /\ call.approval # 0 =>
            /\ Spent(call.approval, call.key)
            /\ \A i \in DOMAIN world : world[i].approval # call.approval
            /\ \A e \in Drivers :
                  Pays(e) /\ cx[e].call.approval = call.approval => e = d
    BY <1>4 DEF SingleUseInv, SpentInFlight, Pays
<1>6. \A i, k : Spent(i, k)' = Spent(i, k)
    BY <1>3 DEF Spent
<1> HIDE DEF done, call
<1>7. SpentInFlight'
  <2>1. ASSUME NEW e \in Drivers
        PROVE  /\ pc'[e] \in {"look", "settle", "reopen", "gate"} =>
                    cx'[e].call.approval = 0
               /\ InFlight(e)' /\ cx'[e].call.key \in Gated => cx'[e].call.approval # 0
    BY <1>3, <1>4 DEF SingleUseInv, SpentInFlight
  <2>2. ASSUME NEW e \in Drivers, Pays(e)'
        PROVE  /\ Spent(cx[e].call.approval, cx[e].call.key)'
               /\ \A i \in DOMAIN world' : world'[i].approval # cx'[e].call.approval
               /\ \A f \in Drivers :
                     Pays(f)' /\ cx'[f].call.approval = cx'[e].call.approval => f = e
    <3>1. e # d /\ Pays(e) /\ cx'[e] = cx[e] /\ cx[e].call.approval # 0
        BY <1>3, <1>4, <2>2 DEF Pays
    <3>2. /\ Spent(cx[e].call.approval, cx[e].call.key)
          /\ \A i \in DOMAIN world : world[i].approval # cx[e].call.approval
          /\ \A f \in Drivers :
                Pays(f) /\ cx[f].call.approval = cx[e].call.approval => f = e
        BY <3>1 DEF SingleUseInv, SpentInFlight
    <3>3. Spent(cx[e].call.approval, cx[e].call.key)'
        BY <1>3, <3>2 DEF Spent
    <3>4. call.approval # cx[e].call.approval
        BY <1>5, <3>1
    <3>5. \A i \in DOMAIN world' : world'[i].approval # cx'[e].call.approval
        BY <1>1, <1>2, <3>1, <3>2, <3>4
    <3>6. ASSUME NEW f \in Drivers, Pays(f)', cx'[f].call.approval = cx'[e].call.approval
          PROVE  f = e
        BY <1>3, <1>4, <3>1, <3>2, <3>6
    <3> QED BY <3>3, <3>5, <3>6
  <2> QED BY <2>1, <2>2 DEF SpentInFlight
<1>8. SpentInWorld'
  <2>1. ASSUME NEW i \in DOMAIN world'
        PROVE  /\ world'[i].key \in Gated => world'[i].approval # 0
               /\ world'[i].approval # 0 =>
                    /\ Spent(world'[i].approval, world'[i].key)
                    /\ \A j \in DOMAIN world' :
                          world'[j].approval = world'[i].approval => i = j
    BY <1>1, <1>2, <1>5 DEF SingleUseInv, SpentInWorld
  <2>2. \A i \in DOMAIN world' :
            Spent(world'[i].approval, world'[i].key) =>
                /\ world'[i].approval \in DOMAIN approvals'
                /\ approvals'[world'[i].approval].key = world'[i].key
                /\ approvals'[world'[i].approval].state = "approved"
                /\ approvals'[world'[i].approval].consumed
    BY <1>3 DEF Spent
  <2> QED BY <2>1, <2>2 DEF SpentInWorld, Spent
<1> QED BY <1>7, <1>8 DEF SingleUseInv

\* The actions that move no driver.
LEMMA OutsideUse ==
    ASSUME TypeInv, SingleUseInv,
           \/ Environment \/ UNCHANGED vars \/ \E d \in Drivers : RenewLease(d)
    PROVE  SingleUseInv'
<1>1. CASE \/ RequestCancel \/ BackoffElapses \/ LeaseLapses \/ UNCHANGED vars
           \/ \E d \in Drivers : RenewLease(d)
  <2>1. UNCHANGED <<pc, cx, world, approvals>>
    BY <1>1 DEF RequestCancel, BackoffElapses, LeaseLapses, RenewLease, vars
  <2> QED BY <2>1, SameApprovals, NobodyMoves
<1>2. ASSUME NEW i \in DOMAIN approvals,
             \/ ApprovalTimeout(i)
             \/ \E decision \in {"approved", "denied"} : DecideApproval(i, decision)
      PROVE  SingleUseInv'
  <2>1. UNCHANGED <<pc, cx, world>>
    BY <1>2 DEF ApprovalTimeout, DecideApproval
  <2> QED BY <1>2, <2>1, ApprovalStepKept, NobodyMoves
<1> QED BY <1>1, <1>2 DEF Environment

\* Nothing is in flight and nothing took effect at first.
LEMMA SingleUseInit == Init => SingleUseInv
<1> SUFFICES ASSUME Init PROVE SingleUseInv
    OBVIOUS
<1>1. SpentInFlight
    BY DEF Init, SpentInFlight, InFlight, Pays
<1>2. SpentInWorld
    BY DEF Init, SpentInWorld
<1> QED BY <1>1, <1>2 DEF SingleUseInv

\* Every step keeps single use.
LEMMA SingleUseStep == TypeInv /\ SingleUseInv /\ [Next]_vars => SingleUseInv'
<1> SUFFICES ASSUME TypeInv, SingleUseInv, [Next]_vars PROVE SingleUseInv'
    OBVIOUS
<1>1. ASSUME NEW d \in Drivers, AcquireLease(d) \/ Crash(d) PROVE SingleUseInv'
    BY <1>1, DriveUse, UseKeeps
<1>2. ASSUME NEW d \in Drivers, DriveSteps(d) PROVE SingleUseInv'
  <2>1. CASE \/ ReleaseLease(d) \/ ReadRun(d) \/ Recover(d) \/ WakeUp(d)
             \/ StartAttempt(d) \/ CloseAttempt(d) \/ ScheduleRetry(d) \/ Park(d)
             \/ Finalize(d)
    BY <2>1, DriveUse, UseKeeps
  <2>2. CASE \/ Step(d) \/ AgentSays(d) \/ AgentReads(d) \/ AgentFinishes(d)
             \/ CommitEffect(d) \/ PerformFails(d) \/ PerformOutcomeUnknown(d)
    BY <2>2, AttemptUse, UseKeeps
  <2>3. CASE \/ AttemptFails(d) \/ Expire(d) \/ Ensure(d)
    BY <2>3, AttemptFailsUse, TableUse, UseKeeps
  <2>4. CASE \/ ReconcileNext(d) \/ LookUp(d) \/ Settle(d) \/ ReopenFailed(d)
             \/ AgentCalls(d)
    BY <2>4, ReconcileUse, SettleUse, AgentCallsUse, UseKeeps
  <2>5. CASE MayDispatch(d) \/ MarkEffectDispatched(d)
    BY <2>5, DispatchUse, UseKeeps
  <2>6. CASE Gate(d) \/ Perform(d)
    BY <2>6, GateUse, PerformUse
  <2> QED BY <1>2, <2>1, <2>2, <2>3, <2>4, <2>5, <2>6 DEF DriveSteps
<1> QED BY <1>1, <1>2, OutsideUse DEF Next, Finished

\* An approval pays for one call: every gated call that took effect consumed an
\* approved approval of its own key, and no other call consumed the same one,
\* whatever drivers die, leases lapse and approvals are decided or expire
\* between approvalGate, dispatch and perform.
THEOREM SingleUse == Spec => []ApprovalSingleUse
<1>1. SingleUseInv => ApprovalSingleUse
    BY DEF SingleUseInv, SpentInWorld, Spent, ApprovalSingleUse
<1> QED BY <1>1, TypeInvariant, SingleUseInit, SingleUseStep, PTL DEF Spec
=============================================================================
