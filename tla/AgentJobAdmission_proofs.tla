---------------------- MODULE AgentJobAdmission_proofs ----------------------
(***************************************************************************)
(* Proofs about AgentJobAdmission, for any processes, schedulers, events   *)
(* and policies, any period, and any number of runs, edits and crashes.    *)
(***************************************************************************)
EXTENDS AgentJobAdmission, SequenceTheorems, TLAPS

-----------------------------------------------------------------------------
(* The inductive invariant *)

\* Runs are created in the order of their rowids, and none in the future.
CreatedInOrder ==
    /\ \A i \in DOMAIN runs : runs[i].created <= clock
    /\ \A i, j \in DOMAIN runs : i < j => runs[i].created <= runs[j].created

\* A run that has a driver is active; one under queue that was let through
\* has no older active run, also while it only waits to start its attempt.
Driven ==
    \A i \in DOMAIN runs : runs[i].drive # "none" =>
        /\ Active(runs[i])
        /\ runs[i].policy = "queue" =>
              \A j \in ActiveRuns : runs[j].created >= runs[i].created

\* A process that is not idle is at an event or a slot, under a policy.
TypeInv ==
    /\ TypeOK
    /\ \A p \in Processes : pc[p] # "idle" => held[p].key \in Keys /\ held[p].policy \in Policies

Inv == TypeInv /\ CreatedInOrder /\ OneRunPerKey /\ OverlapAllowed /\ Driven

-----------------------------------------------------------------------------
(* One run changes *)

\* What a step may make of a run.
RunStep(r, s) ==
    /\ s \in Run
    /\ s.key = r.key /\ s.policy = r.policy /\ s.created = r.created
    /\ r.cancel => s.cancel
    /\ Active(s) => Active(r)
    /\ s.drive # "none" => Active(s)

LEMMA RunsSeq ==
    ASSUME Inv
    PROVE  /\ runs \in Seq(Run) /\ DOMAIN runs = 1..Len(runs) /\ Len(runs) \in Nat
           /\ \A i \in DOMAIN runs : runs[i] \in Run /\ runs[i].created \in Nat
           /\ clock \in Nat
<1>1. runs \in Seq(Run) /\ clock \in Nat
  BY DEF Inv, TypeInv, TypeOK
<1>2. DOMAIN runs = 1..Len(runs) /\ Len(runs) \in Nat /\ \A i \in DOMAIN runs : runs[i] \in Run
  BY <1>1, LenProperties, ElementOfSeq
<1> QED  BY <1>1, <1>2 DEF Run

\* Several runs may change at once; a driver is only given to one that may have it.
LEMMA RunsStep ==
    ASSUME Inv, runs' \in Seq(Run), DOMAIN runs' = DOMAIN runs,
           \A i \in DOMAIN runs : RunStep(runs[i], runs'[i]),
           \A i \in DOMAIN runs :
              runs'[i].drive # "none" /\ runs[i].drive = "none" /\ runs[i].policy = "queue" =>
                 OlderActive(i) = {},
           clock' \in Nat, clock' >= clock, TypeInv'
    PROVE  Inv'
<1>1. /\ \A i \in DOMAIN runs : runs[i] \in Run /\ runs[i].created \in Nat /\ clock \in Nat
      /\ DOMAIN runs \subseteq Nat
  BY RunsSeq
<1>2. ActiveRuns' \subseteq ActiveRuns
  BY DEF ActiveRuns, RunStep, Active
<1>3. CreatedInOrder'
  BY <1>1 DEF CreatedInOrder, RunStep, Inv
<1>4. OneRunPerKey'
  BY DEF OneRunPerKey, RunStep, Inv
<1>5. OverlapAllowed'
  <2> SUFFICES ASSUME NEW i \in ActiveRuns', NEW j \in ActiveRuns', i < j
               PROVE  runs'[j].policy = "queue" \/ (runs'[j].policy = "replace" /\ runs'[i].cancel)
    BY DEF OverlapAllowed
  <2>1. i \in ActiveRuns /\ j \in ActiveRuns /\ i \in DOMAIN runs /\ j \in DOMAIN runs
    BY <1>2 DEF ActiveRuns
  <2> QED  BY <2>1 DEF OverlapAllowed, RunStep, Inv
<1>6. Driven'
  <2> SUFFICES ASSUME NEW i \in DOMAIN runs, runs'[i].drive # "none"
               PROVE  /\ Active(runs'[i])
                      /\ runs'[i].policy = "queue" =>
                            \A j \in ActiveRuns' : runs'[j].created >= runs'[i].created
    BY DEF Driven, Active, ActiveStates
  <2>1. Active(runs'[i])
    BY DEF RunStep
  <2>2. ASSUME runs'[i].policy = "queue", NEW j \in ActiveRuns'
        PROVE  runs'[j].created >= runs'[i].created
    <3>1. j \in ActiveRuns /\ j \in DOMAIN runs /\ runs[i].policy = "queue"
          /\ runs'[j].created = runs[j].created /\ runs'[i].created = runs[i].created
      BY <1>2, <2>2 DEF ActiveRuns, RunStep
    <3>2. CASE runs[i].drive # "none"
      BY <3>1, <3>2 DEF Driven, Inv
    <3>3. CASE runs[i].drive = "none"
      BY <1>1, <3>1, <3>3 DEF OlderActive
    <3> QED  BY <3>2, <3>3
  <2> QED  BY <2>1, <2>2
<1> QED  BY <1>3, <1>4, <1>5, <1>6 DEF Inv

\* The runs are left alone.
LEMMA QuietStep ==
    ASSUME Inv, runs' = runs, TypeInv', clock' >= clock
    PROVE  Inv'
<1>1. \A i \in DOMAIN runs : RunStep(runs[i], runs'[i])
  BY RunsSeq DEF RunStep, Inv, Driven
<1> QED  BY <1>1, RunsStep DEF Inv, TypeInv, TypeOK

\* One run changes, by a step of its driver or a cancel.
LEMMA UpdateStep ==
    ASSUME Inv, NEW i \in DOMAIN runs, NEW s, RunStep(runs[i], s), Update(i, s),
           crashes' \in Nat,
           s.drive # "none" /\ runs[i].drive = "none" /\ runs[i].policy = "queue" =>
              OlderActive(i) = {}
    PROVE  Inv'
<1>1. runs' = [runs EXCEPT ![i] = s] /\ s \in Run
      /\ UNCHANGED <<clock, registered, fireAt, pc, held, edits>>
  BY DEF Update, RunStep
<1>2. /\ runs' \in Seq(Run) /\ DOMAIN runs' = DOMAIN runs
      /\ \A j \in DOMAIN runs : runs'[j] = IF j = i THEN s ELSE runs[j]
  BY <1>1, RunsSeq, ExceptSeq
<1>3. \A j \in DOMAIN runs : RunStep(runs[j], runs'[j])
  BY <1>2, RunsSeq DEF RunStep, Inv, Driven
<1>4. TypeInv'
  BY <1>1, <1>2 DEF Inv, TypeInv, TypeOK
<1>5. clock' \in Nat /\ clock' >= clock
  BY <1>1, RunsSeq
<1> QED  BY <1>2, <1>3, <1>4, <1>5, RunsStep

LEMMA MayStartInv ==
    ASSUME Inv, NEW i \in DOMAIN runs, MayStart(i)
    PROVE  Inv'
<1> DEFINE r == runs[i]
           s == [r EXCEPT !.drive = "cleared"]
<1>1. /\ r \in Run /\ Active(r) /\ (r.policy = "queue" => OlderActive(i) = {}) /\ Update(i, s)
      /\ crashes' \in Nat
  BY RunsSeq DEF MayStart, Inv, TypeInv, TypeOK
<1>2. s \in Run
  BY <1>1, Zenon DEF Run
<1>3. RunStep(r, s)
  BY <1>1, <1>2 DEF RunStep, Run, Active
<1> QED  BY <1>1, <1>3, UpdateStep

LEMMA StartAttemptInv ==
    ASSUME Inv, NEW i \in DOMAIN runs, StartAttempt(i)
    PROVE  Inv'
<1> DEFINE r == runs[i]
           f == [r EXCEPT !.state = "failed", !.drive = "none"]
           s == [r EXCEPT !.state = "running", !.drive = "attempt", !.attempts = r.attempts + 1]
<1>1. /\ r \in Run /\ r.drive = "cleared" /\ Active(r) /\ crashes' \in Nat
  BY RunsSeq DEF StartAttempt, Inv, Driven, TypeInv, TypeOK
<1>2. Update(i, f) \/ Update(i, s)
  BY Zenon DEF StartAttempt
<1>3. r.attempts + 1 \in Nat /\ "running" \in ActiveStates /\ "failed" \in TerminalStates
  BY <1>1 DEF Run, ActiveStates, TerminalStates
<1>4. f \in Run /\ s \in Run
  BY <1>1, <1>3, Zenon DEF Run
<1>5. RunStep(r, f) /\ RunStep(r, s) /\ f.drive = "none"
  BY <1>1, <1>3, <1>4 DEF RunStep, Run, Active
<1> HIDE DEF f, s
<1>6. ASSUME Update(i, f) PROVE Inv'
  BY <1>1, <1>5, <1>6, UpdateStep
<1>7. ASSUME Update(i, s) PROVE Inv'
  BY <1>1, <1>5, <1>7, UpdateStep
<1> QED  BY <1>2, <1>6, <1>7

\* A step that gives the run a state and leaves it without a driver.
LEMMA LeaveInv ==
    ASSUME Inv, NEW i \in DOMAIN runs, NEW state \in ActiveStates \cup TerminalStates,
           Active(runs[i]), Update(i, [runs[i] EXCEPT !.state = state, !.drive = "none"]),
           crashes' \in Nat
    PROVE  Inv'
<1> DEFINE r == runs[i]
           s == [r EXCEPT !.state = state, !.drive = "none"]
<1>1. r \in Run
  BY RunsSeq
<1>2. s \in Run
  BY <1>1, Zenon DEF Run
<1>3. RunStep(r, s) /\ s.drive = "none"
  BY <1>1, <1>2 DEF RunStep, Run
<1> HIDE DEF s
<1>4. Update(i, s)
  BY DEF s
<1> QED  BY <1>3, <1>4, UpdateStep

LEMMA EndAttemptInv ==
    ASSUME Inv, NEW i \in DOMAIN runs, EndAttempt(i)
    PROVE  Inv'
<1>1. Active(runs[i]) /\ crashes' \in Nat
  BY DEF EndAttempt, Inv, Driven, TypeInv, TypeOK
<1>2. PICK s \in {"succeeded", "failed", "retrying", "awaiting_approval", "cancelled"} :
         Update(i, [runs[i] EXCEPT !.state = s, !.drive = "none"])
  BY Zenon DEF EndAttempt
<1>3. s \in ActiveStates \cup TerminalStates
  BY DEF ActiveStates, TerminalStates
<1> QED  BY <1>1, <1>2, <1>3, LeaveInv

\* The steps of a run that no driver is at.
LEMMA UndrivenInv ==
    ASSUME Inv, NEW i \in DOMAIN runs, CancelRun(i) \/ Expire(i)
    PROVE  Inv'
<1> DEFINE r == runs[i]
<1>1. r \in Run /\ Active(r) /\ r.drive = "none" /\ crashes' \in Nat
  BY RunsSeq DEF CancelRun, Expire, Active, ActiveStates, Inv, TypeInv, TypeOK
<1>2. PICK s \in {"cancelled", "failed"} : Update(i, [r EXCEPT !.state = s])
  BY Zenon DEF CancelRun, Expire
<1>3. [r EXCEPT !.state = s] = [r EXCEPT !.state = s, !.drive = "none"]
  BY <1>1 DEF Run
<1>4. s \in ActiveStates \cup TerminalStates
  BY DEF ActiveStates, TerminalStates
<1>5. Update(i, [r EXCEPT !.state = s, !.drive = "none"])
  BY <1>2, <1>3, Zenon
<1> QED  BY <1>1, <1>4, <1>5, LeaveInv

LEMMA RequestCancelInv ==
    ASSUME Inv, NEW i \in DOMAIN runs, RequestCancel(i)
    PROVE  Inv'
<1> DEFINE r == runs[i]
           s == [r EXCEPT !.cancel = TRUE]
<1>1. r \in Run /\ Update(i, s) /\ crashes' \in Nat
  BY RunsSeq DEF RequestCancel, Inv, TypeInv, TypeOK
<1>2. s \in Run
  BY <1>1, Zenon DEF Run
<1>3. RunStep(r, s) /\ s.drive = r.drive
  BY <1>1, <1>2 DEF RunStep, Run, Active, Inv, Driven
<1> QED  BY <1>1, <1>3, UpdateStep

LEMMA DriverDiesInv ==
    ASSUME Inv, NEW i \in DOMAIN runs, DriverDies(i)
    PROVE  Inv'
<1> DEFINE r == runs[i]
           s == [r EXCEPT !.drive = "none"]
<1>1. r \in Run /\ Update(i, s) /\ crashes' \in Nat /\ Active(r)
  BY RunsSeq DEF DriverDies, Inv, TypeInv, TypeOK, Driven
<1>2. s \in Run
  BY <1>1, Zenon DEF Run
<1>3. RunStep(r, s) /\ s.drive = "none"
  BY <1>1, <1>2 DEF RunStep, Run, Active
<1> QED  BY <1>1, <1>3, UpdateStep

-----------------------------------------------------------------------------
(* A process admits                                                        *)

HeldType == [key : Keys \cup {NoKey}, now : Nat, policy : Policies \cup {"none"}]

LEMMA KeyFacts ==
    /\ NoKey \notin Keys /\ Idle \in HeldType /\ Idle.key = NoKey
    /\ \A e \in Events : [type |-> "event", of |-> e] \in Keys
    /\ \A n \in Nat : [type |-> "slot", of |-> n] \in Keys
BY DEF NoKey, Keys, Idle, HeldType

LEMMA NextFireType ==
    ASSUME NEW now \in Nat
    PROVE  NextFire(now) \in Nat
<1>1. Period \in Nat \ {0}
  BY AdmissionAssumption
<1>2. now \div Period \in Nat
  BY <1>1
<1>3. ((now \div Period) + 1) * Period \in Nat
  BY <1>1, <1>2
<1> QED  BY <1>1, <1>3 DEF NextFire

\* A process moves to a step with something in hand.
LEMMA PlaceType ==
    ASSUME TypeInv, NEW p \in Processes, NEW step \in {"idle", "admit", "advance", "skip"},
           NEW h \in HeldType,
           \/ step = "idle" /\ h = Idle
           \/ step # "idle" /\ h.key \in Keys /\ h.policy \in Policies,
           pc' = [pc EXCEPT ![p] = step], held' = [held EXCEPT ![p] = h],
           clock' \in Nat, fireAt' \in Nat, edits' \in Nat, crashes' \in Nat,
           registered' \in Policies, runs' \in Seq(Run)
    PROVE  TypeInv'
<1>1. h = Idle <=> step = "idle"
  BY KeyFacts
<1>2. /\ \A q \in Processes : pc'[q] = IF q = p THEN step ELSE pc[q]
      /\ \A q \in Processes : held'[q] = IF q = p THEN h ELSE held[q]
  BY DEF TypeInv, TypeOK
<1>3. pc' \in [Processes -> {"idle", "admit", "advance", "skip"}] /\ held' \in [Processes -> HeldType]
  BY DEF TypeInv, TypeOK, HeldType
<1>4. \A q \in Processes : pc'[q] = "idle" <=> held'[q] = Idle
  BY <1>1, <1>2 DEF TypeInv, TypeOK
<1>5. \A q \in Processes : pc'[q] # "idle" => held'[q].key \in Keys /\ held'[q].policy \in Policies
  BY <1>2 DEF TypeInv
<1> QED  BY <1>3, <1>4, <1>5 DEF TypeInv, TypeOK, HeldType

\* The run that is admitted waits for nobody else's order; a spec under forbid
\* gets one that is over, when another run is active.
LEMMA AppendStep ==
    ASSUME Inv, NEW key \in Keys, NEW policy \in Policies, WithKey(key) = {},
           runs' = Append(Replaced(policy), NewRun(key, policy)), UNCHANGED clock, TypeInv'
    PROVE  Inv'
<1> DEFINE old == Replaced(policy)
           new == NewRun(key, policy)
           n == Len(runs)
<1>1. /\ runs \in Seq(Run) /\ DOMAIN runs = 1..n /\ n \in Nat /\ clock \in Nat
      /\ \A i \in 1..n : runs[i] \in Run /\ runs[i].created \in Nat
  BY RunsSeq
<1>2. /\ new \in Run /\ new.key = key /\ new.policy = policy /\ new.created = clock
      /\ new.drive = "none" /\ ~new.cancel
      /\ Active(new) => ~(policy = "forbid" /\ ActiveRuns # {})
  <2>1. /\ clock \in Nat /\ 0 \in Nat /\ FALSE \in BOOLEAN
        /\ (IF policy = "forbid" /\ ActiveRuns # {} THEN "skipped" ELSE "pending")
              \in ActiveStates \cup TerminalStates
    BY <1>1 DEF ActiveStates, TerminalStates
  <2>2. new \in Run
    BY <2>1, Zenon DEF NewRun, Run
  <2> QED  BY <2>2 DEF NewRun, Active, ActiveStates
<1>3. /\ DOMAIN old = 1..n
      /\ \A i \in 1..n : /\ RunStep(runs[i], old[i]) /\ old[i].drive = runs[i].drive
                         /\ Active(old[i]) <=> Active(runs[i])
                         /\ policy = "replace" /\ Active(runs[i]) => old[i].cancel
  <2>1. ASSUME NEW i \in 1..n
        PROVE  LET c == [runs[i] EXCEPT !.cancel = TRUE] IN
                 /\ c \in Run /\ RunStep(runs[i], c) /\ c.drive = runs[i].drive
                 /\ (Active(c) <=> Active(runs[i])) /\ c.cancel
    <3> DEFINE c == [runs[i] EXCEPT !.cancel = TRUE]
    <3>1. c \in Run
      BY <1>1, Zenon DEF Run
    <3> QED  BY <1>1, <3>1 DEF RunStep, Run, Active, Inv, Driven
  <2>2. \A i \in 1..n : RunStep(runs[i], runs[i])
    BY <1>1 DEF RunStep, Inv, Driven
  <2> QED  BY <1>1, <2>1, <2>2 DEF Replaced
<1>4. old \in Seq(Run) /\ Len(old) = n
  <2>1. \A i \in 1..n : old[i] \in Run
    BY <1>3 DEF RunStep
  <2>2. old = [i \in 1..n |-> old[i]]
    BY <1>1 DEF Replaced
  <2>3. old \in [1..n -> Run]
    BY <2>1, <2>2
  <2>4. old \in Seq(Run)
    BY <1>1, <2>3, SeqDef
  <2> QED  BY <1>1, <1>3, <2>4, LenProperties
<1> HIDE DEF old, new
<1>5. /\ DOMAIN runs' = 1..(n + 1) /\ runs'[n + 1] = new
      /\ \A i \in 1..n : runs'[i] = old[i]
  BY <1>1, <1>2, <1>4, AppendProperties DEF old, new
<1>6. \A i \in 1..n : RunStep(runs[i], runs'[i]) /\ (Active(runs'[i]) <=> Active(runs[i]))
                      /\ runs'[i].drive = runs[i].drive
  BY <1>3, <1>5
<1>7. ASSUME NEW i \in ActiveRuns' PROVE i = n + 1 \/ i \in ActiveRuns
  BY <1>1, <1>5, <1>6 DEF ActiveRuns
<1>8. CreatedInOrder'
  BY <1>1, <1>2, <1>5, <1>6 DEF CreatedInOrder, RunStep, Inv
<1>9. OneRunPerKey'
  <2>1. \A i \in 1..n : runs'[i].key # key
    BY <1>1, <1>6 DEF RunStep, WithKey
  <2> QED  BY <1>1, <1>2, <1>5, <1>6, <2>1 DEF OneRunPerKey, RunStep, Inv
<1>10. OverlapAllowed'
  <2> SUFFICES ASSUME NEW i \in ActiveRuns', NEW j \in ActiveRuns', i < j
               PROVE  runs'[j].policy = "queue" \/ (runs'[j].policy = "replace" /\ runs'[i].cancel)
    BY DEF OverlapAllowed
  <2>1. i \in 1..(n + 1) /\ j \in 1..(n + 1)
    BY <1>5 DEF ActiveRuns
  <2>2. i \in ActiveRuns /\ i \in 1..n
    BY <1>1, <1>7, <2>1
  <2>3. CASE j = n + 1
    <3>1. Active(new) /\ policy # "forbid" /\ runs'[j].policy = policy
      BY <1>2, <1>5, <2>2, <2>3 DEF ActiveRuns
    <3>2. policy \in {"forbid", "queue", "replace"}
      BY AdmissionAssumption
    <3>3. policy = "replace" => runs'[i].cancel
      BY <1>3, <1>5, <2>2 DEF ActiveRuns
    <3> QED  BY <3>1, <3>2, <3>3
  <2>4. CASE j # n + 1
    <3>1. j \in ActiveRuns /\ j \in 1..n
      BY <1>1, <1>7, <2>1, <2>4
    <3> QED  BY <1>6, <2>2, <3>1 DEF OverlapAllowed, RunStep, Inv
  <2> QED  BY <2>3, <2>4
<1>11. Driven'
  <2> SUFFICES ASSUME NEW i \in 1..(n + 1), runs'[i].drive # "none"
               PROVE  /\ Active(runs'[i])
                      /\ runs'[i].policy = "queue" =>
                            \A j \in ActiveRuns' : runs'[j].created >= runs'[i].created
    BY <1>5 DEF Driven, Active, ActiveStates
  <2>1. i \in 1..n
    BY <1>1, <1>2, <1>5
  <2>2. Active(runs'[i]) /\ runs[i].drive # "none" /\ runs'[i].created = runs[i].created
        /\ runs'[i].policy = runs[i].policy
    BY <1>6, <2>1 DEF RunStep
  <2>3. ASSUME runs'[i].policy = "queue", NEW j \in ActiveRuns'
        PROVE  runs'[j].created >= runs'[i].created
    <3>1. CASE j = n + 1
      BY <1>1, <1>2, <1>5, <2>1, <2>2, <3>1 DEF CreatedInOrder, Inv
    <3>2. CASE j # n + 1
      <4>1. j \in ActiveRuns /\ j \in 1..n
        BY <1>1, <1>7, <3>2 DEF ActiveRuns
      <4> QED  BY <1>1, <1>6, <2>1, <2>2, <2>3, <4>1 DEF Driven, RunStep, Inv
    <3> QED  BY <3>1, <3>2
  <2> QED  BY <2>2, <2>3
<1> QED  BY <1>8, <1>9, <1>10, <1>11 DEF Inv

LEMMA ReturnType ==
    ASSUME TypeInv, NEW p \in Processes, pc[p] = "admit", NEW next \in {"advance", "skip"},
           Return(p, next), UNCHANGED <<clock, registered, fireAt, edits, crashes>>,
           runs' \in Seq(Run)
    PROVE  TypeInv'
<1>1. held[p] \in HeldType /\ held[p].key \in Keys /\ held[p].policy \in Policies
  BY DEF TypeInv, TypeOK, HeldType
<1>2. CASE held[p].key.type = "slot"
  <2>1. pc' = [pc EXCEPT ![p] = next] /\ held' = [held EXCEPT ![p] = held[p]]
    BY <1>2 DEF Return, TypeInv, TypeOK
  <2> QED  BY <1>1, <2>1, PlaceType DEF TypeInv, TypeOK
<1>3. CASE held[p].key.type # "slot"
  <2>1. pc' = [pc EXCEPT ![p] = "idle"] /\ held' = [held EXCEPT ![p] = Idle]
    BY <1>3 DEF Return
  <2> QED  BY <2>1, KeyFacts, PlaceType DEF TypeInv, TypeOK
<1> QED  BY <1>2, <1>3

LEMMA AdmitInv ==
    ASSUME Inv, NEW p \in Processes, Admit(p)
    PROVE  Inv'
<1> DEFINE key == held[p].key
           policy == held[p].policy
<1>1. key \in Keys /\ policy \in Policies /\ runs \in Seq(Run)
  BY DEF Admit, Inv, TypeInv, TypeOK
<1>2. CASE WithKey(key) # {}
  <2>1. runs' = runs
    BY <1>2 DEF Admit
  <2>2. TypeInv' /\ clock' = clock
    BY <1>1, <2>1, ReturnType DEF Admit, Inv
  <2> QED  BY <2>1, <2>2, RunsSeq, QuietStep
<1>3. CASE WithKey(key) = {}
  <2>1. runs' = Append(Replaced(policy), NewRun(key, policy)) /\ UNCHANGED clock
    BY <1>3 DEF Admit
  <2>2. runs' \in Seq(Run)
    <3>1. Replaced(policy) \in Seq(Run)
      <4>1. \A i \in DOMAIN runs : [runs[i] EXCEPT !.cancel = TRUE] \in Run
        BY RunsSeq, Zenon DEF Run
      <4>2. DOMAIN runs = 1..Len(runs) /\ Len(runs) \in Nat /\ \A i \in DOMAIN runs : runs[i] \in Run
        BY RunsSeq
      <4>3. Replaced(policy) \in [1..Len(runs) -> Run]
        BY <4>1, <4>2 DEF Replaced
      <4> QED  BY <4>2, <4>3, SeqDef
    <3>2. NewRun(key, policy) \in Run
      <4>1. /\ clock \in Nat /\ 0 \in Nat
            /\ (IF policy = "forbid" /\ ActiveRuns # {} THEN "skipped" ELSE "pending")
                  \in ActiveStates \cup TerminalStates
        BY RunsSeq DEF ActiveStates, TerminalStates
      <4> QED  BY <1>1, <4>1, Zenon DEF NewRun, Run
    <3> QED  BY <2>1, <3>1, <3>2, AppendProperties
  <2>3. TypeInv'
    BY <2>2, ReturnType DEF Admit, Inv
  <2> QED  BY <1>1, <1>3, <2>1, <2>3, AppendStep
<1> QED  BY <1>2, <1>3

-----------------------------------------------------------------------------
(* All steps *)

LEMMA ProcessInv ==
    ASSUME Inv, NEW p \in Processes,
           \/ Refuse(p) \/ Advance(p) \/ Crash(p) \/ FirstFire(p) \/ SlotIsDue(p)
           \/ \E e \in Events : ReadSpec(p, e)
    PROVE  Inv'
<1>1. /\ TypeInv /\ runs \in Seq(Run) /\ clock \in Nat /\ fireAt \in Nat /\ edits \in Nat
      /\ crashes \in Nat /\ registered \in Policies
  BY DEF Inv, TypeInv, TypeOK
<1>2. ASSUME runs' = runs, clock' = clock, TypeInv' PROVE Inv'
  BY <1>1, <1>2, QuietStep
<1>3. CASE Refuse(p)
  <2>1. TypeInv'
    BY <1>1, <1>3, ReturnType DEF Refuse
  <2> QED  BY <1>2, <1>3, <2>1 DEF Refuse
<1>4. CASE Advance(p)
  <2>1. held[p].now \in Nat
    BY DEF Inv, TypeInv, TypeOK
  <2>2. fireAt' \in Nat
    BY <1>4, <2>1, NextFireType DEF Advance
  <2>3. pc' = [pc EXCEPT ![p] = "idle"] /\ held' = [held EXCEPT ![p] = Idle]
        /\ UNCHANGED <<clock, registered, runs, edits, crashes>>
    BY <1>4 DEF Advance
  <2>4. TypeInv'
    BY <1>1, <2>2, <2>3, KeyFacts, PlaceType
  <2> QED  BY <1>2, <2>3, <2>4
<1>5. CASE Crash(p)
  <2>1. pc' = [pc EXCEPT ![p] = "idle"] /\ held' = [held EXCEPT ![p] = Idle] /\ crashes' \in Nat
        /\ UNCHANGED <<clock, registered, runs, fireAt, edits>>
    BY <1>1, <1>5 DEF Crash
  <2>2. clock' \in Nat /\ fireAt' \in Nat /\ edits' \in Nat /\ registered' \in Policies
        /\ runs' \in Seq(Run)
    BY <1>1, <2>1
  <2>3. TypeInv'
    BY <1>1, <2>1, <2>2, KeyFacts, PlaceType
  <2> QED  BY <1>2, <2>1, <2>3
<1>6. CASE FirstFire(p)
  <2>1. TypeInv'
    BY <1>1, <1>6, NextFireType DEF FirstFire, TypeInv, TypeOK
  <2> QED  BY <1>2, <1>6, <2>1 DEF FirstFire
<1>7. CASE SlotIsDue(p)
  <2> DEFINE h == [key |-> [type |-> "slot", of |-> fireAt], policy |-> registered, now |-> clock]
  <2>1. h \in HeldType /\ h.key \in Keys /\ h.policy \in Policies
    BY <1>1, KeyFacts DEF HeldType
  <2>2. pc' = [pc EXCEPT ![p] = "admit"] /\ held' = [held EXCEPT ![p] = h]
        /\ UNCHANGED <<clock, registered, runs, fireAt, edits, crashes>>
    BY <1>7 DEF SlotIsDue
  <2> HIDE DEF h
  <2>3. TypeInv'
    BY <1>1, <2>1, <2>2, PlaceType
  <2> QED  BY <1>2, <2>2, <2>3
<1>8. ASSUME NEW e \in Events, ReadSpec(p, e) PROVE Inv'
  <2> DEFINE h == [key |-> [type |-> "event", of |-> e], policy |-> registered', now |-> 0]
  <2>1. registered' \in Policies /\ edits' \in Nat
    BY <1>1, <1>8 DEF ReadSpec
  <2>2. h \in HeldType /\ h.key \in Keys /\ h.policy \in Policies
    BY <2>1, KeyFacts DEF HeldType
  <2>3. pc' = [pc EXCEPT ![p] = "admit"] /\ held' = [held EXCEPT ![p] = h]
        /\ UNCHANGED <<clock, runs, fireAt, crashes>>
    BY <1>8 DEF ReadSpec
  <2> HIDE DEF h
  <2>4. TypeInv'
    BY <1>1, <2>1, <2>2, <2>3, PlaceType
  <2> QED  BY <1>2, <2>3, <2>4
<1> QED  BY <1>3, <1>4, <1>5, <1>6, <1>7, <1>8

LEMMA InvInit == Init => Inv
<1> SUFFICES ASSUME Init PROVE Inv
  OBVIOUS
<1>1. <<>> \in Seq(Run) /\ DOMAIN runs = {} /\ Policies \subseteq {"forbid", "queue", "replace"}
  BY AdmissionAssumption DEF Init
<1>2. TypeInv
  BY <1>1, KeyFacts DEF Init, TypeInv, TypeOK, HeldType
<1>3. CreatedInOrder /\ OneRunPerKey /\ Driven
  BY <1>1 DEF CreatedInOrder, OneRunPerKey, Driven
<1>4. OverlapAllowed
  BY <1>1 DEF OverlapAllowed, ActiveRuns
<1> QED  BY <1>2, <1>3, <1>4 DEF Inv

LEMMA InvNext == Inv /\ [Next]_vars => Inv'
<1> SUFFICES ASSUME Inv, [Next]_vars PROVE Inv'
  OBVIOUS
<1>1. clock \in Nat
  BY RunsSeq
<1>2. CASE Register \/ Clock
  <2>1. TypeInv' /\ runs' = runs /\ clock' >= clock
    BY <1>1, <1>2 DEF Register, Clock, Inv, TypeInv, TypeOK
  <2> QED  BY <2>1, QuietStep
<1>3. ASSUME NEW p \in Processes, Admission(p) \/ Crash(p) \/ \E e \in Events : ReadSpec(p, e)
      PROVE  Inv'
  BY <1>3, AdmitInv, ProcessInv DEF Admission
<1>4. ASSUME NEW p \in Schedulers, Scheduler(p) PROVE Inv'
  BY <1>4, AdmissionAssumption, ProcessInv DEF Scheduler
<1>5. ASSUME NEW i \in DOMAIN runs, Drive(i) \/ RequestCancel(i) \/ DriverDies(i) PROVE Inv'
  BY <1>5, MayStartInv, StartAttemptInv, EndAttemptInv, UndrivenInv, RequestCancelInv, DriverDiesInv
     DEF Drive
<1>6. CASE UNCHANGED vars
  <2>1. TypeInv' /\ runs' = runs /\ clock' >= clock
    BY <1>1, <1>6 DEF vars, Inv, TypeInv, TypeOK
  <2> QED  BY <2>1, QuietStep
<1> QED  BY <1>2, <1>3, <1>4, <1>5, <1>6 DEF Next

-----------------------------------------------------------------------------
(* The theorems *)

\* Inv holds in every reachable state.
LEMMA InvAlways == Spec => []Inv
BY InvInit, InvNext, PTL DEF Spec

\* The tables and what a process holds keep their types (in the strengthened
\* invariant: a process that admits has an event or a slot, and a policy).
THEOREM TypeAlways == Spec => []TypeOK
<1>1. Inv => TypeOK
  BY DEF Inv, TypeInv
<1> QED  BY <1>1, InvAlways, PTL

\* Two events with one dedupe key make one run, for any number of processes
\* (admitRun looks and inserts in one transaction).
THEOREM OneRunPerKeyAlways == Spec => []OneRunPerKey
<1>1. Inv => OneRunPerKey
  BY DEF Inv
<1> QED  BY <1>1, InvAlways, PTL

\* Two runs of a job are active together only under queue, or under replace
\* when the older one is told to stop (admitRun's concurrency branch).
THEOREM OverlapAllowedAlways == Spec => []OverlapAllowed
<1>1. Inv => OverlapAllowed
  BY DEF Inv
<1> QED  BY <1>1, InvAlways, PTL

\* Under queue no attempt starts or runs while an older run is active, though
\* the runner looks for one in an earlier transaction than it starts in.
THEOREM QueueInOrderAlways == Spec => []QueueInOrder
<1>1. Inv => QueueInOrder
  <2>1. ActiveRuns \subseteq DOMAIN runs
    BY DEF ActiveRuns
  <2> QED  BY <2>1 DEF Inv, Driven, QueueInOrder
<1> QED  BY <1>1, InvAlways, PTL

-----------------------------------------------------------------------------
(* The schedule of one server                                              *)

SlotRuns == {i \in DOMAIN runs : runs[i].key.type = "slot"}

\* What the only scheduler relies on between its steps, while nothing died:
\* the slot in its hand is the next one and was due; no run was made of it
\* before, and one was, not earlier than the sweep began, when it moves on.
SlotHeld(p) ==
    held[p].key.type = "slot" =>
        /\ p \in Schedulers
        /\ held[p].key.of = fireAt /\ fireAt > 0 /\ fireAt <= held[p].now /\ held[p].now <= clock

SlotMade(p) ==
    pc[p] = "advance" =>
        \E i \in DOMAIN runs : runs[i].key = held[p].key /\ runs[i].created >= held[p].now

SlotsPassed ==
    \A i \in SlotRuns :
        /\ runs[i].key.of <= fireAt
        /\ runs[i].key.of = fireAt => \E p \in Schedulers : pc[p] \in {"advance", "skip"}

SlotInv ==
    /\ \A p \in Processes : pc[p] \in {"advance", "skip"} => held[p].key.type = "slot"
    /\ crashes = 0 => SlotsPassed /\ \A p \in Processes : SlotHeld(p) /\ SlotMade(p)

OneScheduler == \A p, q \in Schedulers : p = q

LEMMA NextFireBounds ==
    ASSUME NEW now \in Nat
    PROVE  now < NextFire(now) /\ NextFire(now) <= now + Period
<1> DEFINE q == now \div Period
<1>1. Period \in Nat \ {0}
  BY AdmissionAssumption
<1>2. q \in Nat /\ q * Period <= now /\ now < q * Period + Period
  BY <1>1, SMTT(20)
<1>3. q * Period \in Nat /\ (q + 1) * Period = q * Period + Period
  BY <1>1, <1>2
<1> HIDE DEF q
<1>4. now < (q + 1) * Period /\ (q + 1) * Period <= now + Period
  BY <1>1, <1>2, <1>3
<1> QED  BY <1>1, <1>4 DEF NextFire, q

\* No run is made, and none changes its key or its time.
RunsKept ==
    /\ DOMAIN runs' = DOMAIN runs
    /\ \A i \in DOMAIN runs : runs'[i].key = runs[i].key /\ runs'[i].created = runs[i].created

\* A step of a driver, or a cancel.
LEMMA DriveKeeps ==
    ASSUME Inv, NEW i \in DOMAIN runs, Drive(i) \/ RequestCancel(i) \/ DriverDies(i)
    PROVE  /\ RunsKept /\ UNCHANGED <<clock, fireAt, pc, held>>
           /\ crashes' = crashes \/ crashes' = crashes + 1
<1> DEFINE Same(s) == s.key = runs[i].key /\ s.created = runs[i].created
<1>1. runs \in Seq(Run) /\ runs[i] \in Run
  BY RunsSeq
<1>2. \E s : Update(i, s) /\ Same(s)
  <2>1. ASSUME NEW x, NEW y, NEW n
        PROVE  /\ Same([runs[i] EXCEPT !.drive = x]) /\ Same([runs[i] EXCEPT !.cancel = x])
               /\ Same([runs[i] EXCEPT !.state = x])
               /\ Same([runs[i] EXCEPT !.state = x, !.drive = y])
               /\ Same([runs[i] EXCEPT !.state = x, !.drive = y, !.attempts = n])
    BY <1>1 DEF Run
  <2> HIDE DEF Same
  <2>2. CASE MayStart(i) \/ DriverDies(i) \/ RequestCancel(i) \/ CancelRun(i) \/ Expire(i)
    BY <2>1, <2>2, Zenon DEF MayStart, DriverDies, RequestCancel, CancelRun, Expire
  <2>3. CASE StartAttempt(i)
    <3>1. CASE Update(i, [runs[i] EXCEPT !.state = "failed", !.drive = "none"])
      BY <2>1, <3>1, Zenon
    <3>2. CASE Update(i, [runs[i] EXCEPT !.state = "running", !.drive = "attempt",
                                         !.attempts = runs[i].attempts + 1])
      BY <2>1, <3>2, Zenon
    <3> QED  BY <2>3, <3>1, <3>2, Zenon DEF StartAttempt
  <2>4. CASE EndAttempt(i)
    BY <2>1, <2>4, Zenon DEF EndAttempt
  <2> QED  BY <2>2, <2>3, <2>4 DEF Drive
<1>3. PICK s : Update(i, s) /\ Same(s)
  BY <1>2
<1>4. crashes' = crashes \/ crashes' = crashes + 1
  BY DEF Drive, MayStart, StartAttempt, EndAttempt, CancelRun, Expire, RequestCancel, DriverDies
<1>5. RunsKept
  BY <1>1, <1>3 DEF Update, RunsKept
<1> QED  BY <1>3, <1>4, <1>5 DEF Update

\* The runs and what the processes hold stay; time may pass, and a driver may die.
LEMMA SlotKept ==
    ASSUME Inv, SlotInv, RunsKept, UNCHANGED <<fireAt, pc, held>>, clock' \in Nat, clock' >= clock,
           crashes' = 0 => crashes = 0
    PROVE  SlotInv'
<1>1. ASSUME crashes' = 0
      PROVE  SlotsPassed' /\ \A p \in Processes : SlotHeld(p)' /\ SlotMade(p)'
  <2>1. SlotsPassed /\ \A p \in Processes : SlotHeld(p) /\ SlotMade(p)
    BY <1>1 DEF SlotInv
  <2>2. SlotsPassed'
    BY <2>1 DEF SlotsPassed, SlotRuns, RunsKept
  <2>3. ASSUME NEW p \in Processes PROVE SlotHeld(p)' /\ SlotMade(p)'
    <3>1. held[p].now \in Nat /\ clock \in Nat
      BY DEF Inv, TypeInv, TypeOK
    <3>2. SlotHeld(p)'
      BY <2>1, <3>1 DEF SlotHeld
    <3>3. SlotMade(p)'
      BY <2>1 DEF SlotMade, RunsKept
    <3> QED  BY <3>2, <3>3
  <2> QED  BY <2>2, <2>3
<1> QED  BY <1>1 DEF SlotInv

\* A process other than p is where it was, and the runs only grow.
LEMMA SlotOther ==
    ASSUME SlotInv, crashes = 0, NEW p \in Processes, NEW q \in Processes, q # p,
           pc'[q] = pc[q], held'[q] = held[q], UNCHANGED <<clock, fireAt>>,
           \A i \in DOMAIN runs : /\ i \in DOMAIN runs' /\ runs'[i].key = runs[i].key
                                  /\ runs'[i].created = runs[i].created
    PROVE  SlotHeld(q)' /\ SlotMade(q)'
<1>1. SlotHeld(q) /\ SlotMade(q)
  BY DEF SlotInv
<1> QED  BY <1>1 DEF SlotHeld, SlotMade

LEMMA SlotAdmit ==
    ASSUME Inv, SlotInv, OneScheduler, NEW p \in Processes, Admit(p)
    PROVE  SlotInv'
<1> DEFINE key == held[p].key
           policy == held[p].policy
           n == Len(runs)
<1>1. /\ runs \in Seq(Run) /\ DOMAIN runs = 1..n /\ n \in Nat /\ clock \in Nat
      /\ \A i \in 1..n : runs[i] \in Run /\ runs[i].created \in Nat
  BY RunsSeq
<1>2. /\ pc[p] = "admit" /\ UNCHANGED <<clock, fireAt, crashes>> /\ held[p].now \in Nat
      /\ \A q \in Processes \ {p} : pc'[q] = pc[q] /\ held'[q] = held[q]
      /\ key.type = "slot" => pc'[p] = "advance" /\ held'[p] = held[p]
      /\ key.type # "slot" => pc'[p] = "idle" /\ held'[p] = Idle
  BY DEF Admit, Return, Inv, TypeInv, TypeOK
<1>3. \A q \in Processes : pc'[q] \in {"advance", "skip"} => held'[q].key.type = "slot"
  BY <1>2 DEF SlotInv
<1>4. SUFFICES ASSUME crashes = 0
               PROVE  SlotsPassed' /\ \A q \in Processes : SlotHeld(q)' /\ SlotMade(q)'
  BY <1>2, <1>3 DEF SlotInv
<1>5. SlotsPassed /\ SlotHeld(p)
  BY <1>4 DEF SlotInv
<1>6. \/ WithKey(key) # {} /\ runs' = runs
      \/ /\ WithKey(key) = {} /\ DOMAIN runs' = 1..(n + 1)
         /\ runs'[n + 1].key = key /\ runs'[n + 1].created = clock
         /\ \A i \in 1..n : runs'[i].key = runs[i].key /\ runs'[i].created = runs[i].created
  <2>1. CASE WithKey(key) # {}
    BY <2>1 DEF Admit
  <2>2. CASE WithKey(key) = {}
    <3> DEFINE old == Replaced(policy)
               new == NewRun(key, policy)
    <3>1. runs' = Append(old, new)
      BY <2>2 DEF Admit
    <3>2. DOMAIN old = 1..n /\ old \in [1..n -> {old[i] : i \in 1..n}]
      BY <1>1 DEF Replaced
    <3>3. \A i \in 1..n : old[i].key = runs[i].key /\ old[i].created = runs[i].created
      BY <1>1 DEF Replaced, Run
    <3>4. new.key = key /\ new.created = clock
      BY DEF NewRun
    <3> HIDE DEF old, new
    <3> DEFINE S == {old[i] : i \in 1..n} \cup {new}
    <3>5. old \in Seq(S) /\ Len(old) = n /\ new \in S
      <4>1. old \in [1..n -> S] /\ new \in S
        BY <3>2
      <4> HIDE DEF S
      <4>2. old \in Seq(S)
        BY <1>1, <4>1, SeqDef
      <4> QED  BY <1>1, <3>2, <4>1, <4>2, LenProperties
    <3> HIDE DEF S
    <3>6. /\ DOMAIN runs' = 1..(n + 1) /\ runs'[n + 1] = new
          /\ \A i \in 1..n : runs'[i] = old[i]
      BY <1>1, <3>1, <3>5, AppendProperties
    <3> QED  BY <2>2, <3>3, <3>4, <3>6
  <2> QED  BY <2>1, <2>2
<1>7. \A i \in 1..n : /\ i \in DOMAIN runs' /\ runs'[i].key = runs[i].key
                      /\ runs'[i].created = runs[i].created
  BY <1>1, <1>6
<1>8. ASSUME NEW q \in Processes, q # p PROVE SlotHeld(q)' /\ SlotMade(q)'
  BY <1>1, <1>2, <1>4, <1>7, <1>8, SlotOther
<1>9. CASE key.type # "slot"
  <2>1. SlotHeld(p)' /\ SlotMade(p)'
    BY <1>2, <1>9 DEF SlotHeld, SlotMade, Idle, NoKey
  <2>2. SlotsPassed'
    <3>1. ASSUME NEW i \in SlotRuns' PROVE i \in SlotRuns /\ runs'[i].key = runs[i].key
      BY <1>1, <1>6, <1>9 DEF SlotRuns
    <3>2. ASSUME NEW q \in Schedulers, pc[q] \in {"advance", "skip"} PROVE pc'[q] = pc[q]
      BY <1>2, <3>2, AdmissionAssumption
    <3> QED  BY <1>2, <1>5, <3>1, <3>2 DEF SlotsPassed
  <2> QED  BY <1>8, <2>1, <2>2
<1>10. CASE key.type = "slot"
  <2>1. /\ p \in Schedulers /\ key.of = fireAt /\ held[p].now <= clock
    BY <1>5, <1>10 DEF SlotHeld
  <2>2. \A i \in SlotRuns : runs[i].key.of # fireAt
    BY <1>2, <1>5, <2>1 DEF SlotsPassed, OneScheduler
  <2>3. WithKey(key) = {}
    BY <1>10, <2>1, <2>2 DEF WithKey, SlotRuns
  <2>4. n + 1 \in DOMAIN runs' /\ runs'[n + 1].key = key /\ runs'[n + 1].created = clock
    BY <1>1, <1>6, <2>3
  <2>5. SlotHeld(p)' /\ SlotMade(p)'
    BY <1>2, <1>5, <1>10, <2>1, <2>4 DEF SlotHeld, SlotMade
  <2>6. SlotsPassed'
    <3>1. ASSUME NEW i \in SlotRuns' PROVE runs'[i].key.of <= fireAt'
      <4>1. fireAt \in Nat /\ fireAt' = fireAt
        BY <1>2 DEF Inv, TypeInv, TypeOK
      <4>2. CASE i = n + 1
        BY <2>1, <2>4, <4>1, <4>2
      <4>3. CASE i # n + 1
        <5>1. i \in SlotRuns /\ runs'[i].key = runs[i].key
          BY <1>1, <1>6, <2>3, <4>3 DEF SlotRuns
        <5> QED  BY <1>5, <4>1, <5>1 DEF SlotsPassed
      <4> QED  BY <4>2, <4>3
    <3>2. pc'[p] = "advance"
      BY <1>2, <1>10
    <3> QED  BY <2>1, <3>1, <3>2 DEF SlotsPassed
  <2> QED  BY <1>8, <2>5, <2>6
<1> QED  BY <1>9, <1>10

LEMMA SlotProcess ==
    ASSUME Inv, SlotInv, NEW p \in Processes,
           \/ Refuse(p) \/ Advance(p)
           \/ p \in Schedulers /\ Scheduler(p)
           \/ \E e \in Events : ReadSpec(p, e),
           OneScheduler
    PROVE  SlotInv'
<1>1. /\ runs' = runs /\ UNCHANGED <<clock, crashes>> /\ pc[p] \in {"idle", "admit", "advance", "skip"}
      /\ clock \in Nat /\ fireAt \in Nat /\ held[p].now \in Nat
      /\ \A q \in Processes \ {p} : pc'[q] = pc[q] /\ held'[q] = held[q]
      /\ \A q \in Processes : pc[q] = "idle" <=> held[q] = Idle
  BY DEF Refuse, Return, Advance, Scheduler, FirstFire, SlotIsDue, ReadSpec, Inv, TypeInv, TypeOK
<1>2. CASE Refuse(p)
  <2>1. /\ held[p].key.type = "slot" => pc'[p] = "skip" /\ held'[p] = held[p]
        /\ held[p].key.type # "slot" => pc'[p] = "idle" /\ held'[p] = Idle
        /\ pc[p] = "admit" /\ fireAt' = fireAt
    BY <1>2 DEF Refuse, Return, Inv, TypeInv, TypeOK
  <2>2. \A q \in Processes : pc'[q] \in {"advance", "skip"} => held'[q].key.type = "slot"
    BY <1>1, <2>1 DEF SlotInv
  <2>3. ASSUME crashes = 0, NEW q \in Processes PROVE SlotHeld(q)' /\ SlotMade(q)'
    <3>1. SlotHeld(p)
      BY <2>3 DEF SlotInv
    <3>2. CASE q = p
      BY <1>1, <2>1, <3>1, <3>2 DEF SlotHeld, SlotMade, Idle, NoKey
    <3>3. CASE q # p
      BY <1>1, <2>1, <2>3, <3>3, SlotOther
    <3> QED  BY <3>2, <3>3
  <2>4. ASSUME crashes = 0 PROVE SlotsPassed'
    <3>1. \A q \in Schedulers : pc[q] \in {"advance", "skip"} => pc'[q] = pc[q]
      BY <1>1, <2>1, AdmissionAssumption
    <3> QED  BY <1>1, <2>1, <2>4, <3>1 DEF SlotInv, SlotsPassed, SlotRuns
  <2> QED  BY <1>1, <2>2, <2>3, <2>4 DEF SlotInv
<1>3. CASE Advance(p)
  <2>1. /\ pc[p] \in {"advance", "skip"} /\ pc'[p] = "idle" /\ held'[p] = Idle
        /\ fireAt' = NextFire(held[p].now) /\ held[p].key.type = "slot"
    BY <1>3 DEF Advance, Inv, TypeInv, TypeOK, SlotInv
  <2>2. fireAt' \in Nat /\ held[p].now < fireAt'
    BY <1>1, <2>1, NextFireType, NextFireBounds
  <2>3. \A q \in Processes : pc'[q] \in {"advance", "skip"} => held'[q].key.type = "slot"
    BY <1>1, <2>1 DEF SlotInv
  <2>4. ASSUME crashes = 0
        PROVE  SlotsPassed' /\ \A q \in Processes : SlotHeld(q)' /\ SlotMade(q)'
    <3>1. SlotsPassed /\ \A q \in Processes : SlotHeld(q) /\ SlotMade(q)
      BY <2>4 DEF SlotInv
    <3>2. p \in Schedulers /\ fireAt <= held[p].now
      BY <2>1, <3>1 DEF SlotHeld
    <3>3. \A q \in Processes \ {p} : held[q].key.type # "slot"
      BY <3>1, <3>2 DEF SlotHeld, OneScheduler
    <3>4. ASSUME NEW q \in Processes PROVE SlotHeld(q)' /\ SlotMade(q)'
      <4>1. held'[q].key.type # "slot" /\ pc'[q] # "advance"
        BY <1>1, <2>1, <2>3, <3>3 DEF Idle, NoKey
      <4> QED  BY <4>1 DEF SlotHeld, SlotMade
    <3>5. ASSUME NEW i \in SlotRuns PROVE runs[i].key.of < fireAt'
      <4>1. runs[i].key.of \in Nat
        BY RunsSeq DEF SlotRuns, Run, Keys
      <4> QED  BY <1>1, <2>2, <3>1, <3>2, <4>1 DEF SlotsPassed
    <3>6. SlotsPassed'
      <4>1. ASSUME NEW i \in SlotRuns PROVE runs[i].key.of \in Nat
        BY RunsSeq DEF SlotRuns, Run, Keys
      <4> QED  BY <1>1, <2>2, <3>5, <4>1 DEF SlotsPassed, SlotRuns
    <3> QED  BY <3>4, <3>6
  <2> QED  BY <1>1, <2>3, <2>4 DEF SlotInv
<1>4. CASE FirstFire(p)
  <2>1. fireAt = 0 /\ fireAt' \in Nat /\ 0 < fireAt' /\ pc' = pc /\ held' = held
    BY <1>1, <1>4, NextFireType, NextFireBounds DEF FirstFire
  <2>2. ASSUME crashes = 0
        PROVE  SlotsPassed' /\ \A q \in Processes : SlotHeld(q)' /\ SlotMade(q)'
    <3>1. SlotsPassed /\ \A q \in Processes : SlotHeld(q) /\ SlotMade(q)
      BY <2>2 DEF SlotInv
    <3>2. \A q \in Processes : held[q].key.type # "slot"
      BY <2>1, <3>1 DEF SlotHeld
    <3>3. \A q \in Processes : SlotHeld(q)' /\ SlotMade(q)'
      BY <1>1, <2>1, <3>1, <3>2 DEF SlotHeld, SlotMade
    <3>4. ASSUME NEW i \in SlotRuns PROVE runs[i].key.of \in Nat
      BY RunsSeq DEF SlotRuns, Run, Keys
    <3>5. SlotsPassed'
      BY <1>1, <2>1, <3>1, <3>4 DEF SlotsPassed, SlotRuns
    <3> QED  BY <3>3, <3>5
  <2> QED  BY <1>1, <2>1, <2>2 DEF SlotInv
<1>5. CASE SlotIsDue(p) /\ p \in Schedulers
  <2>1. /\ pc[p] = "idle" /\ pc'[p] = "admit" /\ fireAt' = fireAt
        /\ held'[p] = [key |-> [type |-> "slot", of |-> fireAt], policy |-> registered, now |-> clock]
        /\ fireAt > 0 /\ fireAt <= clock
    BY <1>5 DEF SlotIsDue, Inv, TypeInv, TypeOK
  <2>2. \A q \in Processes : pc'[q] \in {"advance", "skip"} => held'[q].key.type = "slot"
    BY <1>1, <2>1 DEF SlotInv
  <2>3. ASSUME crashes = 0, NEW q \in Processes PROVE SlotHeld(q)' /\ SlotMade(q)'
    <3>1. CASE q = p
      BY <1>1, <1>5, <2>1, <3>1 DEF SlotHeld, SlotMade
    <3>2. CASE q # p
      BY <1>1, <2>1, <2>3, <3>2, SlotOther
    <3> QED  BY <3>1, <3>2
  <2>4. ASSUME crashes = 0 PROVE SlotsPassed'
    <3>1. \A q \in Schedulers : pc[q] \in {"advance", "skip"} => pc'[q] = pc[q]
      BY <1>1, <2>1, AdmissionAssumption
    <3> QED  BY <1>1, <2>1, <2>4, <3>1 DEF SlotInv, SlotsPassed, SlotRuns
  <2> QED  BY <1>1, <2>2, <2>3, <2>4 DEF SlotInv
<1>6. ASSUME NEW e \in Events, ReadSpec(p, e) PROVE SlotInv'
  <2>1. /\ pc[p] = "idle" /\ pc'[p] = "admit" /\ fireAt' = fireAt /\ held'[p].key.type = "event"
    BY <1>6 DEF ReadSpec, Inv, TypeInv, TypeOK
  <2>2. \A q \in Processes : pc'[q] \in {"advance", "skip"} => held'[q].key.type = "slot"
    BY <1>1, <2>1 DEF SlotInv
  <2>3. ASSUME crashes = 0, NEW q \in Processes PROVE SlotHeld(q)' /\ SlotMade(q)'
    <3>1. CASE q = p
      BY <2>1, <3>1 DEF SlotHeld, SlotMade
    <3>2. CASE q # p
      BY <1>1, <2>1, <2>3, <3>2, SlotOther
    <3> QED  BY <3>1, <3>2
  <2>4. ASSUME crashes = 0 PROVE SlotsPassed'
    <3>1. \A q \in Schedulers : pc[q] \in {"advance", "skip"} => pc'[q] = pc[q]
      BY <1>1, <2>1, AdmissionAssumption
    <3> QED  BY <1>1, <2>1, <2>4, <3>1 DEF SlotInv, SlotsPassed, SlotRuns
  <2> QED  BY <1>1, <2>2, <2>3, <2>4 DEF SlotInv
<1> QED  BY <1>2, <1>3, <1>4, <1>5, <1>6 DEF Scheduler

LEMMA SlotInit == Init => SlotInv
BY DEF Init, SlotInv, SlotsPassed, SlotRuns, SlotHeld, SlotMade, Idle, NoKey

LEMMA SlotNext ==
    ASSUME OneScheduler
    PROVE  Inv /\ SlotInv /\ [Next]_vars => SlotInv'
<1> SUFFICES ASSUME Inv, SlotInv, [Next]_vars PROVE SlotInv'
  OBVIOUS
<1>1. clock \in Nat /\ crashes \in Nat
  BY DEF Inv, TypeInv, TypeOK
<1>2. CASE Register \/ Clock \/ UNCHANGED vars
  <2>1. RunsKept /\ UNCHANGED <<fireAt, pc, held, crashes>> /\ clock' \in Nat /\ clock' >= clock
    BY <1>1, <1>2 DEF Register, Clock, vars, RunsKept
  <2> QED  BY <2>1, SlotKept
<1>3. ASSUME NEW p \in Processes, Crash(p) PROVE SlotInv'
  <2>1. /\ crashes' = crashes + 1
        /\ \A q \in Processes : pc'[q] = "idle" \/ (pc'[q] = pc[q] /\ held'[q] = held[q])
    BY <1>3 DEF Crash, Inv, TypeInv, TypeOK
  <2> QED  BY <1>1, <2>1 DEF SlotInv
<1>4. ASSUME NEW p \in Processes, Admission(p) \/ \E e \in Events : ReadSpec(p, e) PROVE SlotInv'
  <2>1. CASE Admit(p)
    BY <2>1, SlotAdmit
  <2>2. CASE ~Admit(p)
    BY <1>4, <2>2, SlotProcess DEF Admission
  <2> QED  BY <2>1, <2>2
<1>5. ASSUME NEW p \in Schedulers, Scheduler(p) PROVE SlotInv'
  BY <1>5, AdmissionAssumption, SlotProcess DEF Scheduler
<1>6. ASSUME NEW i \in DOMAIN runs, Drive(i) \/ RequestCancel(i) \/ DriverDies(i) PROVE SlotInv'
  <2>1. /\ RunsKept /\ UNCHANGED <<clock, fireAt, pc, held>>
        /\ crashes' = crashes \/ crashes' = crashes + 1
    BY <1>6, DriveKeeps
  <2> QED  BY <1>1, <2>1, SlotKept
<1> QED  BY <1>2, <1>3, <1>4, <1>5, <1>6 DEF Next

\* With one server, when the schedule moves on from a slot it did not skip, the
\* slots before the next one were fired as one run, made after the last of them
\* (fireDueSchedules), however long the sweep waited between its two steps and
\* whatever else was admitted.  Two servers can break it: the slower one moves
\* next_fire_at back to what its older clock says.
THEOREM MissedFiresCoalescedAlways ==
    ASSUME OneScheduler
    PROVE  Spec => MissedFiresCoalesced
<1>1. Inv /\ SlotInv /\ [Next]_vars =>
         [\A p \in Processes :
            pc[p] = "advance" /\ pc'[p] = "idle" /\ crashes' = 0 =>
              \E i \in DOMAIN runs :
                 runs[i].key = held[p].key /\ runs[i].created + Period >= fireAt']_vars
  <2> SUFFICES ASSUME Inv, SlotInv, [Next]_vars,
                      NEW p \in Processes, pc[p] = "advance", pc'[p] = "idle", crashes' = 0
               PROVE  \E i \in DOMAIN runs :
                         runs[i].key = held[p].key /\ runs[i].created + Period >= fireAt'
    OBVIOUS
  <2>1. Advance(p) /\ crashes = 0
    <3>1. crashes \in Nat /\ pc \in [Processes -> {"idle", "admit", "advance", "skip"}]
      BY DEF Inv, TypeInv, TypeOK
    <3>2. ASSUME NEW i \in DOMAIN runs, Drive(i) \/ RequestCancel(i) \/ DriverDies(i)
          PROVE  FALSE
      BY <3>2, DriveKeeps
    <3>3. ~(Register \/ Clock \/ UNCHANGED vars)
      BY DEF Register, Clock, vars
    <3>4. ASSUME NEW q \in Processes, Crash(q) PROVE FALSE
      BY <3>1, <3>4 DEF Crash
    <3>5. ASSUME NEW q \in Processes, \/ Scheduler(q) \/ Refuse(q) \/ Admit(q)
                                      \/ \E e \in Events : ReadSpec(q, e)
          PROVE  FALSE
      BY <3>1, <3>5 DEF Scheduler, FirstFire, SlotIsDue, Refuse, Admit, Return, ReadSpec
    <3>6. PICK q \in Processes : Advance(q)
      BY <3>2, <3>3, <3>4, <3>5, AdmissionAssumption DEF Next, Admission
    <3> QED  BY <3>1, <3>6 DEF Advance
  <2>2. PICK i \in DOMAIN runs : runs[i].key = held[p].key /\ runs[i].created >= held[p].now
    BY <2>1 DEF SlotInv, SlotMade
  <2>3. runs[i].created \in Nat /\ Period \in Nat
    BY RunsSeq, AdmissionAssumption
  <2>4. fireAt' = NextFire(held[p].now) /\ held[p].now \in Nat
    BY <2>1 DEF Advance, Inv, TypeInv, TypeOK
  <2>5. fireAt' \in Nat /\ fireAt' <= held[p].now + Period
    BY <2>4, NextFireType, NextFireBounds
  <2> QED  BY <2>2, <2>3, <2>4, <2>5
<1> QED  BY <1>1, InvAlways, SlotInit, SlotNext, PTL DEF Spec, MissedFiresCoalesced

=============================================================================
