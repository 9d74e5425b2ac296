----------------------- MODULE AgentJobNotify_proofs -----------------------
(***************************************************************************)
(* Proofs about AgentJobNotify, for any number of passes, attempts, deaths,*)
(* lapsed claims, actions of operators and pruned rows, for every channel. *)
(*                                                                         *)
(* Each statement about how often something is sent or tried is proved by  *)
(* counting permits: what the passes and the row itself still allow.  A    *)
(* step hands a permit on or spends it, and only a fault adds one.         *)
(***************************************************************************)
EXTENDS AgentJobNotify, FiniteSetTheorems, TLAPS

-----------------------------------------------------------------------------
(* The inductive invariant *)

\* What an operator has read and not acted on yet has been counted already.
Reading == IF operator = NoRead THEN 0 ELSE 1
Acted == actions - Reading
Faulty == crashes + lapses + Acted

\* The answer of a transport and the outcome to record are where they belong.
ResultInv ==
    \A p \in Passes :
       /\ pc[p] = "record" => result[p] \in Outcomes
       /\ pc[p] = "waSettle" => result[p] \in SendResults
       /\ pc[p] \in {"waClaim", "waSend", "waSettle"} => channel = "whatsapp"
       /\ pc[p] = "mailSend" => channel = "email"

TypeInv == TypeOK /\ ResultInv /\ (operator # NoRead => actions > 0)

\* A row is there, or retention took it away.
EnqueuedInv == enqueued <= prunes + (IF Exists(outer) THEN 1 ELSE 0)

\* What is about to be recorded as delivered has been sent.
DeliveredInv ==
    actions = 0 =>
       /\ outer.state = "delivered" => sent > 0
       /\ inner.state = "delivered" => sent > 0
       /\ \A p \in Passes :
             /\ pc[p] = "record" /\ result[p] = "delivered" => sent > 0
             /\ pc[p] = "waSettle" /\ result[p] = "ack" => sent > 0

\* Without lapses and operators a pass that delivers holds the row.
HeldInv ==
    lapses = 0 /\ actions = 0 =>
       \A p \in Passes : pc[p] \in Dispatching => HoldsRow(p) /\ ~outer.due

\* The claim of the row is the claim of a pass that lives and is not late.
Held == IF (\E p \in Passes : HoldsRow(p)) /\ ~outer.due THEN 1 ELSE 0

\* Passes that deliver, and those of them that may still reopen the row.
Busy == {p \in Passes : pc[p] \in Dispatching}
Young == {p \in Busy : job[p].attempts < MaxAttempts}

\* A pass more than the one that holds the row is there for a fault, and once
\* the attempts are used up, so is every further claim.
ClaimsInv ==
    /\ Cardinality(Busy) <= Faulty + Held
    /\ outer.attempts >= MaxAttempts =>
          outer.attempts + Cardinality(Young) <=
             MaxAttempts - 1 + Faulty + (IF Terminal(outer) THEN 1 ELSE Held)

\* Who may send a WhatsApp message: a pass that has claimed it and not sent,
\* or was told that it was not sent, and the next to claim an open row.
WhatsAppPermits ==
    {p \in Passes : pc[p] = "waSend" \/ (pc[p] = "waSettle" /\ result[p] = "rejected")}
WhatsAppOpen ==
    IF inner.state \in {"none", "pending", "failed_retryable"} THEN 1 ELSE 0

\* What may account for one more, but for retention.
WhatsAppCauses == hidden + Acted

WhatsAppInv ==
    channel = "whatsapp" =>
       sent + Cardinality(WhatsAppPermits) + WhatsAppOpen <= 1 + WhatsAppCauses + prunes

\* Who may mail, or leave the row without a fence: a pass whose copy has none,
\* unless its mail was accepted, and the next to claim a row without a fence.
Mailed(p) == pc[p] = "record" /\ result[p] = "delivered"
MailPermits == {p \in Busy : ~job[p].fence /\ ~Mailed(p)}
MailOpen ==
    IF outer.state = "none" \/ (~Terminal(outer) /\ ~outer.fence /\ Held = 0) THEN 1 ELSE 0

\* The holder of the row has set the fence before it mails, and has cleared
\* it nowhere.
FenceInv ==
    \A p \in Passes :
       /\ pc[p] = "mailSend" => ~job[p].fence
       /\ HoldsRow(p) /\ (job[p].fence \/ Mailed(p) \/ pc[p] = "mailSend") => outer.fence

Causes == lapses + hidden + Acted + prunes

MailInv ==
    channel = "email" =>
       FenceInv /\ sent + Cardinality(MailPermits) + MailOpen <= 1 + Causes

Inv ==
    /\ TypeInv /\ EnqueuedInv /\ DeliveredInv /\ HeldInv /\ ClaimsInv
    /\ WhatsAppInv /\ MailInv

-----------------------------------------------------------------------------
(* Rows and types *)

\* What the mutations of the outbox make of a row is a row.
LEMMA RowOps ==
    ASSUME NEW r \in Row
    PROVE  /\ Ensure(r) \in Row /\ Quarantine(r) \in Row /\ Protected(r) \in Row
           /\ ReleaseWhatsApp(r) \in Row /\ MarkFence(r) \in Row /\ Archive(r) \in Row
           /\ [r EXCEPT !.due = TRUE] \in Row
           /\ \A p \in Passes : Claim(r, p) \in Row
           /\ \A s \in OpenStates \cup TerminalStates, f \in BOOLEAN, u \in BOOLEAN :
                 Mark(r, s, f, u) \in Row
<1>1. NoRow \in Row /\ FreshRow \in Row
    BY DEF NoRow, FreshRow, Row, OpenStates
<1>2. Quarantine(r) \in Row /\ Release(r) \in Row
    BY DEF Quarantine, Release, Row, OpenStates, TerminalStates
<1>3. Archive(r) \in Row
    BY DEF Archive, Row, TerminalStates
<1>4. \A p \in Passes : Claim(r, p) \in Row
  <2>1. \A p \in Passes : p \in Claimants \cup {NoClaimant}
    BY NotifyAssumption
  <2>2. r.attempts + 1 \in Nat
    BY DEF Row
  <2> QED BY <2>1, <2>2 DEF Claim, Row, OpenStates
<1>5. \A s \in OpenStates \cup TerminalStates, f \in BOOLEAN, u \in BOOLEAN :
         Mark(r, s, f, u) \in Row
    BY DEF Mark, Row
<1>6. MarkFence(r) \in Row /\ [r EXCEPT !.due = TRUE] \in Row
    BY DEF MarkFence, Row
<1> QED BY <1>1, <1>2, <1>3, <1>4, <1>5, <1>6 DEF Ensure, Protected, ReleaseWhatsApp

LEMMA TypeInit == Init => TypeInv
<1>1. NoRow \in Row
    BY DEF NoRow, Row
<1> QED BY <1>1 DEF Init, TypeInv, TypeOK, ResultInv, NoJob, NoRead, Steps, Tables

\* A pass goes on: with an outcome to record, or to a step that needs no result.
LEMMA OutcomeType ==
    ASSUME TypeInv, NEW p \in Passes, NEW o \in Outcomes, Outcome(p, o), channel' = channel
    PROVE  /\ pc' \in [Passes -> Steps] /\ ResultInv'
           /\ result' \in [Passes -> Outcomes \cup SendResults \cup {"none"}]
<1>1. /\ pc' = [pc EXCEPT ![p] = "record"] /\ pc \in [Passes -> Steps]
      /\ result' = [result EXCEPT ![p] = o]
      /\ result \in [Passes -> Outcomes \cup SendResults \cup {"none"}] /\ ResultInv
    BY DEF Outcome, Goto, TypeInv, TypeOK
<1>2. pc' \in [Passes -> Steps] /\ result' \in [Passes -> Outcomes \cup SendResults \cup {"none"}]
    BY <1>1 DEF Steps
<1>3. ResultInv'
    BY <1>1 DEF ResultInv
<1> QED BY <1>2, <1>3

LEMMA GotoType ==
    ASSUME TypeInv, NEW p \in Passes, NEW step \in Steps \ {"record", "waSettle"},
           Goto(p, step), channel' = channel, result' = result,
           step \in {"waClaim", "waSend"} => channel = "whatsapp",
           step = "mailSend" => channel = "email"
    PROVE  pc' \in [Passes -> Steps] /\ ResultInv'
<1>1. pc' = [pc EXCEPT ![p] = step] /\ pc \in [Passes -> Steps] /\ ResultInv
    BY DEF Goto, TypeInv, TypeOK
<1>2. pc' \in [Passes -> Steps]
    BY <1>1
<1>3. ResultInv'
    BY <1>1 DEF ResultInv
<1> QED BY <1>2, <1>3

LEMMA TypeNext ==
    ASSUME TypeInv, [Next]_vars
    PROVE  TypeInv'
<1> USE DEF TypeInv
<1>1. /\ outer \in Row /\ inner \in Row /\ operator.seen \in Row
      /\ Outcomes \subseteq OpenStates \cup TerminalStates
      /\ \A r \in Row : r.fence \in BOOLEAN /\ r.uncertain \in BOOLEAN /\ r.attempts \in Nat
    BY DEF TypeOK, Outcomes, OpenStates, TerminalStates, Row
<1>2. ASSUME NEW p \in Passes, PassSteps(p) PROVE TypeInv'
  <2>1. CASE ReadIntent(p) \/ MarkRelayed(p)
    BY <2>1 DEF ReadIntent, MarkRelayed, TypeOK, ResultInv, Goto, At, rows, bounds, Steps
  <2>2. CASE Enqueue(p)
    <3>1. outer' \in Row
      BY <1>1, <2>2, RowOps DEF Enqueue
    <3>2. enqueued' \in Nat
      BY <2>2 DEF Enqueue, TypeOK
    <3> QED BY <2>2, <3>1, <3>2 DEF Enqueue, TypeOK, ResultInv, Goto, At, bounds, Steps
  <2>3. CASE ClaimRow(p)
    <3>1. outer' \in Row
      BY <1>1, <2>3, RowOps DEF ClaimRow
    <3>2. job' \in [Passes -> [attempts : Nat, fence : BOOLEAN]]
      BY <1>1, <2>3, <3>1 DEF ClaimRow, TypeOK
    <3> QED BY <2>3, <3>1, <3>2 DEF ClaimRow, TypeOK, ResultInv, Goto, At, bounds, Steps
  <2>4. CASE DeliverThread(p) \/ DeliverWebhook(p)
    BY <2>4 DEF DeliverThread, DeliverWebhook, TypeOK, ResultInv, Outcome, Goto, At, rows,
       bounds, Steps, Outcomes
  <2>5. CASE DeliverEmail(p)
    <3>1. outer' \in Row
      BY <1>1, <2>5, RowOps DEF DeliverEmail
    <3>2. /\ pc' \in [Passes -> Steps] /\ ResultInv'
          /\ result' \in [Passes -> Outcomes \cup SendResults \cup {"none"}]
      <4>1. CASE \E o \in Outcomes : Outcome(p, o)
        BY <2>5, <4>1, OutcomeType DEF DeliverEmail
      <4>2. CASE Goto(p, "mailSend") /\ result' = result
        BY <2>5, <4>2, GotoType DEF DeliverEmail, TypeOK, Steps
      <4> QED BY <2>5, <4>1, <4>2 DEF DeliverEmail, Outcomes
    <3> QED BY <2>5, <3>1, <3>2 DEF DeliverEmail, TypeOK, bounds
  <2>6. CASE SendEmail(p)
    <3>1. /\ pc' \in [Passes -> Steps] /\ ResultInv'
          /\ result' \in [Passes -> Outcomes \cup SendResults \cup {"none"}]
      <4>1. \E o \in Outcomes : Outcome(p, o)
        BY <2>6 DEF SendEmail, Outcomes
      <4> QED BY <2>6, <4>1, OutcomeType DEF SendEmail
    <3>2. sent' \in Nat /\ hidden' \in Nat
      BY <2>6 DEF SendEmail, TypeOK
    <3> QED BY <2>6, <3>1, <3>2 DEF SendEmail, TypeOK, rows, bounds
  <2>7. CASE EnsureWhatsApp(p) \/ UnresolvedWhatsApp(p)
    <3>1. inner' \in Row /\ outer' = outer
      <4>1. Ensure(inner) \in Row
        BY <1>1, RowOps
      <4> QED BY <1>1, <2>7, <4>1 DEF EnsureWhatsApp, UnresolvedWhatsApp, rows
    <3>2. /\ pc' \in [Passes -> Steps] /\ ResultInv'
          /\ result' \in [Passes -> Outcomes \cup SendResults \cup {"none"}]
      <4>1. CASE EnsureWhatsApp(p)
        <5>1. CASE Outcome(p, "delivered")
          BY <4>1, <5>1, OutcomeType DEF EnsureWhatsApp, Outcomes
        <5>2. CASE Goto(p, "waClaim") /\ result' = result
          <6>1. "waClaim" \in Steps \ {"record", "waSettle"} /\ channel = "whatsapp"
            BY <4>1 DEF EnsureWhatsApp, Steps
          <6>2. channel' = channel
            BY <4>1 DEF EnsureWhatsApp
          <6> QED BY <5>2, <6>1, <6>2, GotoType DEF TypeOK
        <5> QED BY <4>1, <5>1, <5>2 DEF EnsureWhatsApp
      <4>2. CASE UnresolvedWhatsApp(p)
        <5>1. \E o \in Outcomes : Outcome(p, o)
          BY <4>2 DEF UnresolvedWhatsApp, Outcomes
        <5> QED BY <4>2, <5>1, OutcomeType DEF UnresolvedWhatsApp
      <4> QED BY <2>7, <4>1, <4>2
    <3> QED BY <2>7, <3>1, <3>2 DEF EnsureWhatsApp, UnresolvedWhatsApp, TypeOK, rows, bounds
  <2>8. CASE ClaimWhatsApp(p)
    <3>1. /\ inner' \in Row /\ channel = "whatsapp"
          /\ (\E o \in Outcomes : Outcome(p, o)) \/ (Goto(p, "waSend") /\ UNCHANGED result)
      <4>1. CASE Quarantined(inner)
        BY <1>1, <2>8, <4>1, RowOps DEF ClaimWhatsApp, At, ResultInv, Outcomes
      <4>2. CASE ~Quarantined(inner) /\ Terminal(inner)
        BY <1>1, <2>8, <4>2 DEF ClaimWhatsApp, Claimable, At, ResultInv, Outcomes
      <4>3. CASE ~Quarantined(inner) /\ ~Terminal(inner) /\ Claimable(inner)
        BY <1>1, <2>8, <4>3, RowOps DEF ClaimWhatsApp, At, ResultInv
      <4>4. CASE ~Quarantined(inner) /\ ~Terminal(inner) /\ ~Claimable(inner)
        BY <1>1, <2>8, <4>4 DEF ClaimWhatsApp, At, ResultInv, Outcomes
      <4> QED BY <4>1, <4>2, <4>3, <4>4
    <3>2. /\ pc' \in [Passes -> Steps] /\ ResultInv'
          /\ result' \in [Passes -> Outcomes \cup SendResults \cup {"none"}]
      <4>1. CASE \E o \in Outcomes : Outcome(p, o)
        BY <2>8, <4>1, OutcomeType DEF ClaimWhatsApp
      <4>2. CASE Goto(p, "waSend") /\ result' = result
        BY <2>8, <3>1, <4>2, GotoType DEF ClaimWhatsApp, TypeOK, Steps
      <4> QED BY <3>1, <4>1, <4>2
    <3> QED BY <2>8, <3>1, <3>2 DEF ClaimWhatsApp, TypeOK, bounds
  <2>9. CASE SendWhatsApp(p)
    <3>1. PICK r \in SendResults, first \in {0, 1}, last \in {0, 1} :
             /\ result' = [result EXCEPT ![p] = r]
             /\ sent' = sent + first + last
             /\ hidden' = hidden + first + (IF r = "rejected" THEN last ELSE 0)
      BY <2>9 DEF SendWhatsApp, Unseen
    <3>2. sent' \in Nat /\ hidden' \in Nat
      BY <3>1 DEF TypeOK
    <3> QED BY <2>9, <3>1, <3>2 DEF SendWhatsApp, TypeOK, ResultInv, Goto, At, rows, bounds, Steps, SendResults
  <2>10. CASE SettleWhatsApp(p)
    <3>1. result[p] \in SendResults
      BY <2>10 DEF SettleWhatsApp, At, ResultInv
    <3>2. {"delivered", "delivery_uncertain"} \subseteq OpenStates \cup TerminalStates
      BY DEF TerminalStates
    <3>4. \A s \in {"delivered", "delivery_uncertain"}, u \in {TRUE, inner.uncertain} :
             Mark(inner, s, inner.fence, u) \in Row
      BY <1>1, <3>2, RowOps
    <3>3. inner' \in Row /\ (\E o \in Outcomes : Outcome(p, o))
      <4>1. CASE result[p] = "ack"
        BY <2>10, <3>4, <4>1 DEF SettleWhatsApp, Outcomes
      <4>2. CASE result[p] = "unconfirmed"
        BY <2>10, <3>4, <4>2 DEF SettleWhatsApp, Outcomes
      <4>3. CASE result[p] = "rejected"
        BY <1>1, <2>10, <4>3, RowOps DEF SettleWhatsApp, Outcomes
      <4> QED BY <3>1, <4>1, <4>2, <4>3 DEF SendResults
    <3> QED BY <2>10, <3>3 DEF SettleWhatsApp, TypeOK, ResultInv, Outcome, Goto, At, bounds,
       Steps
  <2>11. CASE Record(p)
    <3>1. RecordedState(p) \in OpenStates \cup TerminalStates
      BY <1>1, <2>11 DEF Record, RecordedState, At, ResultInv, TerminalStates
    <3>2. outer' \in Row
      BY <1>1, <2>11, <3>1, RowOps DEF Record, TypeOK
    <3>3. NoJob \in [attempts : Nat, fence : BOOLEAN]
      BY DEF NoJob
    <3> QED BY <2>11, <3>2, <3>3 DEF Record, TypeOK, ResultInv, Goto, At, bounds, Steps
  <2> QED BY <1>2, <2>1, <2>2, <2>3, <2>4, <2>5, <2>6, <2>7, <2>8, <2>9, <2>10, <2>11
       DEF PassSteps, Deliver
<1>3. ASSUME NEW p \in Passes, Crash(p) PROVE TypeInv'
  BY <1>3 DEF Crash, TypeOK, ResultInv, Goto, At, rows, Steps, NoJob
<1>4. CASE RowComesDue \/ WhatsAppClaimExpires \/ Prune \/ Sweep
  <2>1. NoRow \in Row
    BY DEF NoRow, Row
  <2>2. CASE RowComesDue
    <3>1. outer' \in Row /\ lapses' \in Nat
      BY <1>1, <2>2, RowOps DEF RowComesDue, TypeOK
    <3> QED BY <2>2, <3>1 DEF RowComesDue, TypeOK, ResultInv
  <2>3. CASE WhatsAppClaimExpires
    BY <1>1, <2>3, RowOps DEF WhatsAppClaimExpires, TypeOK, ResultInv, bounds
  <2>4. CASE Prune
    BY <1>1, <2>1, <2>4 DEF Prune, TypeOK, ResultInv
  <2>5. CASE Sweep
    BY <1>1, <2>5, RowOps DEF Sweep, TypeOK, ResultInv, bounds
  <2> QED BY <1>4, <2>2, <2>3, <2>4, <2>5
<1>5. CASE OperatorReads
  BY <1>1, <1>5 DEF OperatorReads, TypeOK, ResultInv, rows, Tables, NoRead
<1>6. CASE OperatorReopens \/ OperatorCloses
  <2>1. NoRead \in [table : Tables \cup {"none"}, seen : Row]
    BY DEF NoRead, NoRow, Row
  <2>2. {"pending", "suppressed", "dead_letter", "delivered"} \subseteq
           OpenStates \cup TerminalStates
    BY DEF OpenStates, TerminalStates
  <2>3. \A s \in {"pending", "suppressed", "dead_letter", "delivered"} :
           /\ Mark(outer, s, operator.seen.fence, operator.seen.uncertain) \in Row
           /\ Mark(inner, s, operator.seen.fence, operator.seen.uncertain) \in Row
    BY <1>1, <2>2, RowOps
  <2>4. CASE OperatorReopens
    BY <1>1, <2>1, <2>3, <2>4, RowOps DEF OperatorReopens, TypeOK, ResultInv, bounds
  <2>5. CASE OperatorCloses
    BY <1>1, <2>1, <2>3, <2>5 DEF OperatorCloses, TypeOK, ResultInv, bounds
  <2> QED BY <1>6, <2>4, <2>5
<1>7. CASE UNCHANGED vars
  BY <1>7 DEF vars, TypeOK, ResultInv
<1> QED BY <1>2, <1>3, <1>4, <1>5, <1>6, <1>7 DEF Next, Environment

\* Rows, passes, results and counters keep their types (TypeOK).
THEOREM TypeAlways == Spec => []TypeOK
<1>1. TypeInv /\ [Next]_vars => TypeInv'
    BY TypeNext
<1>2. TypeInv => TypeOK
    BY DEF TypeInv
<1> QED BY TypeInit, <1>1, <1>2, PTL DEF Spec

-----------------------------------------------------------------------------
(* Numbers and sets *)

LEMMA Finite == \A S \in SUBSET Passes : IsFiniteSet(S) /\ Cardinality(S) \in Nat
BY FS_Subset, FS_CardinalityType, NotifyAssumption

LEMMA Numbers ==
    ASSUME TypeInv
    PROVE  /\ Acted \in Nat /\ Faulty \in Nat /\ Held \in {0, 1}
           /\ lapses \in Nat /\ prunes \in Nat /\ hidden \in Nat /\ sent \in Nat
           /\ actions \in Nat /\ outer.attempts \in Nat /\ MaxAttempts \in Nat \ {0}
<1>1. Acted \in Nat
    BY DEF TypeInv, TypeOK, Acted, Reading
<1> QED BY <1>1, NotifyAssumption DEF TypeInv, TypeOK, Faulty, Held, Row

LEMMA NumbersNext ==
    ASSUME TypeInv'
    PROVE  /\ Acted' \in Nat /\ Faulty' \in Nat /\ Held' \in {0, 1}
           /\ lapses' \in Nat /\ prunes' \in Nat /\ hidden' \in Nat /\ sent' \in Nat
           /\ actions' \in Nat
<1>1. /\ actions' \in Nat /\ crashes' \in Nat /\ lapses' \in Nat /\ prunes' \in Nat
      /\ hidden' \in Nat /\ sent' \in Nat /\ (operator' # NoRead => actions' > 0)
    BY DEF TypeInv, TypeOK
<1>2. Reading' = IF operator' = NoRead THEN 0 ELSE 1
    BY DEF Reading
<1>3. Acted' = actions' - Reading' /\ Faulty' = crashes' + lapses' + Acted'
    BY DEF Acted, Faulty
<1>4. Acted' \in Nat
  <2>1. Reading' = 0 \/ (Reading' = 1 /\ actions' > 0)
    BY <1>1, <1>2
  <2> QED BY <1>1, <1>3, <2>1
<1>5. Held' \in {0, 1}
    BY DEF Held
<1> QED BY <1>1, <1>3, <1>4, <1>5

\* One more or one less in a set of passes.
LEMMA Counting ==
    ASSUME NEW S \in SUBSET Passes, NEW p
    PROVE  /\ p \notin S => Cardinality(S \cup {p}) = Cardinality(S) + 1
           /\ p \in S => Cardinality(S \ {p}) = Cardinality(S) - 1
           /\ p \notin S => Cardinality(S \ {p}) = Cardinality(S)
           /\ \A T \in SUBSET S : Cardinality(T) <= Cardinality(S)
BY Finite, FS_AddElement, FS_RemoveElement, FS_Subset

\* The fence mark is the only thing a mark without a state changes.
LEMMA FenceOnly ==
    ASSUME NEW r \in Row
    PROVE  LET m == MarkFence(r) IN
           /\ m.state = r.state /\ m.by = r.by /\ m.due = r.due /\ m.attempts = r.attempts
           /\ m.fence = (r.fence \/ Exists(r))
BY DEF MarkFence, Row, Exists

\* What a mark with a state leaves.
LEMMA MarkOnly ==
    ASSUME NEW r \in Row, NEW s, NEW f, NEW u
    PROVE  LET m == Mark(r, s, f, u) IN
           /\ ~Exists(r) => m = r
           /\ Exists(r) => m.state = s /\ m.fence = f
           /\ m.attempts = r.attempts
BY DEF Mark, Row

-----------------------------------------------------------------------------
(* The shape of a step *)

\* A pass on its way to the channel keeps its claim and its copy, and touches
\* the row only to set the fence.
LEMMA DeliverMoves ==
    ASSUME TypeInv, NEW p \in Passes, Deliver(p)
    PROVE  /\ pc[p] \in Dispatching \ {"record"} /\ pc'[p] \in Dispatching \ {"deliver"}
           /\ \A q \in Passes \ {p} : pc'[q] = pc[q] /\ result'[q] = result[q]
           /\ UNCHANGED <<channel, intent, job, operator, enqueued, bounds>>
           /\ outer' \in {outer, MarkFence(outer)}
<1> USE DEF TypeInv, TypeOK, At, Goto, Outcome, Dispatching, rows
<1>1. CASE DeliverThread(p) \/ DeliverWebhook(p)
    BY <1>1 DEF DeliverThread, DeliverWebhook
<1>2. CASE DeliverEmail(p)
    BY <1>2 DEF DeliverEmail
<1>3. CASE SendEmail(p) \/ UnresolvedWhatsApp(p) \/ EnsureWhatsApp(p) \/ SendWhatsApp(p)
    BY <1>3 DEF SendEmail, UnresolvedWhatsApp, EnsureWhatsApp, SendWhatsApp
<1>4. CASE ClaimWhatsApp(p)
  <2>1. (\E o : Outcome(p, o)) \/ (Goto(p, "waSend") /\ UNCHANGED result)
    BY <1>4 DEF ClaimWhatsApp, Claimable
  <2> QED BY <1>4, <2>1 DEF ClaimWhatsApp
<1>5. CASE SettleWhatsApp(p)
  <2>1. \E o : Outcome(p, o)
    BY <1>5 DEF SettleWhatsApp, SendResults, ResultInv
  <2> QED BY <1>5, <2>1 DEF SettleWhatsApp
<1> QED BY <1>1, <1>2, <1>3, <1>4, <1>5 DEF Deliver

\* So the same passes deliver, and the same one holds the row.
LEMMA DeliverHolds ==
    ASSUME TypeInv, NEW p \in Passes, Deliver(p)
    PROVE  /\ Busy' = Busy /\ Young' = Young
           /\ \A q \in Passes : HoldsRow(q)' = HoldsRow(q)
           /\ Held' = Held /\ Acted' = Acted /\ Faulty' = Faulty
           /\ outer'.state = outer.state /\ outer'.due = outer.due
           /\ outer'.attempts = outer.attempts
<1>1. /\ outer'.state = outer.state /\ outer'.due = outer.due /\ outer'.by = outer.by
      /\ outer'.attempts = outer.attempts
    BY DeliverMoves, FenceOnly DEF TypeInv, TypeOK
<1>2. \A q \in Passes : pc'[q] \in Dispatching <=> pc[q] \in Dispatching
    BY DeliverMoves
<1>3. \A q \in Passes : HoldsRow(q)' = HoldsRow(q)
    BY <1>1, <1>2 DEF HoldsRow
<1>4. Busy' = Busy /\ Young' = Young
    BY <1>2, DeliverMoves DEF Busy, Young
<1> QED BY <1>1, <1>3, <1>4, DeliverMoves DEF Held, Acted, Reading, Faulty, bounds

\* The steps of a relay that leave the row alone, and what moves beside it.
Beside ==
    \/ \E p \in Passes : ReadIntent(p) \/ MarkRelayed(p)
    \/ WhatsAppClaimExpires \/ Sweep \/ UNCHANGED vars

LEMMA BesideHolds ==
    ASSUME TypeInv, Beside
    PROVE  /\ Busy' = Busy /\ Young' = Young
           /\ \A q \in Passes : HoldsRow(q)' = HoldsRow(q)
           /\ Held' = Held /\ Acted' = Acted /\ Faulty' = Faulty
           /\ UNCHANGED <<channel, outer, job, result, operator, enqueued, sent, bounds, hidden>>
           /\ \A q \in Passes : pc[q] \in Dispatching \/ pc'[q] \in Dispatching => pc'[q] = pc[q]
<1>1. /\ UNCHANGED <<channel, outer, job, result, operator, enqueued, sent, bounds, hidden>>
      /\ \A q \in Passes : pc[q] \in Dispatching \/ pc'[q] \in Dispatching => pc'[q] = pc[q]
    BY DEF Beside, ReadIntent, MarkRelayed, WhatsAppClaimExpires, Sweep, vars, TypeInv,
       TypeOK, At, Goto, Dispatching, rows, bounds
<1>2. \A q \in Passes : HoldsRow(q)' = HoldsRow(q)
    BY <1>1 DEF HoldsRow
<1>3. Busy' = Busy /\ Young' = Young
    BY <1>1 DEF Busy, Young
<1> QED BY <1>1, <1>2, <1>3 DEF Held, Acted, Reading, Faulty, bounds

\* An operator marks a row, and is counted from now on.
LEMMA OperatorMarks ==
    ASSUME TypeInv, OperatorReopens \/ OperatorCloses
    PROVE  /\ Acted' = Acted + 1 /\ Faulty' = Faulty + 1 /\ actions > 0
           /\ outer' = outer \/ (\E s \in {"pending", "suppressed", "dead_letter", "delivered"},
                                    f \in BOOLEAN, u \in BOOLEAN : outer' = Mark(outer, s, f, u))
           /\ UNCHANGED <<channel, pc, job, result, enqueued, sent, bounds, hidden>>
<1>1. /\ operator # NoRead /\ operator' = NoRead
      /\ UNCHANGED <<channel, pc, job, result, enqueued, sent, bounds, hidden>>
    BY DEF OperatorReopens, OperatorCloses
<1>2. actions \in Nat /\ crashes \in Nat /\ lapses \in Nat
    BY DEF TypeInv, TypeOK
<1>3. Acted' = Acted + 1 /\ Faulty' = Faulty + 1 /\ actions > 0
    BY <1>1, <1>2 DEF Acted, Reading, Faulty, bounds, TypeInv
<1>4. operator.seen.fence \in BOOLEAN /\ operator.seen.uncertain \in BOOLEAN
    BY DEF TypeInv, TypeOK, Row
<1>5. outer' = outer \/ (\E s \in {"pending", "suppressed", "dead_letter", "delivered"},
                            f \in BOOLEAN, u \in BOOLEAN : outer' = Mark(outer, s, f, u))
  <2>1. CASE OperatorReopens
    BY <1>4, <2>1 DEF OperatorReopens
  <2>2. CASE OperatorCloses
    BY <1>4, <2>2 DEF OperatorCloses
  <2> QED BY <2>1, <2>2
<1> QED BY <1>1, <1>3, <1>5

LEMMA ReadingCounted ==
    ASSUME TypeInv, OperatorReads
    PROVE  Acted' = Acted /\ Faulty' = Faulty /\ actions' > 0
<1>1. operator = NoRead /\ operator' # NoRead /\ actions' = actions + 1
    BY DEF OperatorReads, NoRead, Tables
<1> QED BY <1>1 DEF OperatorReads, TypeInv, TypeOK, Acted, Reading, Faulty

LEMMA ChannelFixed ==
    ASSUME TypeInv, [Next]_vars
    PROVE  channel' = channel
BY DeliverMoves, OperatorMarks DEF Next, vars, Environment, PassSteps, ReadIntent, Enqueue,
   MarkRelayed, ClaimRow, Record, Crash, RowComesDue, WhatsAppClaimExpires, Prune, Sweep,
   OperatorReads

-----------------------------------------------------------------------------
(* The row is enqueued once *)

LEMMA EnqueuedNext ==
    ASSUME TypeInv, [Next]_vars, EnqueuedInv
    PROVE  EnqueuedInv'
<1>1. /\ enqueued \in Nat /\ prunes \in Nat /\ outer \in Row
      /\ \A s \in Outcomes : s # "none"
    BY DEF TypeInv, TypeOK, Outcomes
\* Most steps insert and delete nothing.
<1>2. ASSUME UNCHANGED <<enqueued, prunes>>, Exists(outer) => Exists(outer')
      PROVE  EnqueuedInv'
    BY <1>1, <1>2 DEF EnqueuedInv
<1>3. ASSUME NEW p \in Passes, PassSteps(p) PROVE EnqueuedInv'
  <2>1. CASE ReadIntent(p) \/ MarkRelayed(p)
    BY <1>2, <2>1 DEF ReadIntent, MarkRelayed, bounds, rows
  <2>2. CASE Enqueue(p)
    BY <1>1, <2>2 DEF Enqueue, Ensure, EnqueuedInv, Exists, FreshRow, NoRow, bounds
  <2>3. CASE ClaimRow(p)
    BY <1>1, <1>2, <2>3 DEF ClaimRow, Claim, Exists, Row, bounds
  <2>4. CASE Deliver(p)
    BY <1>2, <2>4, DeliverMoves, DeliverHolds DEF Exists, bounds
  <2>5. CASE Record(p)
    <3>1. RecordedState(p) # "none"
      BY <1>1, <2>5 DEF Record, At, RecordedState, TypeInv, ResultInv
    <3>2. Exists(outer) => Exists(outer')
      BY <1>1, <2>5, <3>1, MarkOnly DEF Record, Exists
    <3> QED BY <1>2, <2>5, <3>2 DEF Record, bounds
  <2> QED BY <1>3, <2>1, <2>2, <2>3, <2>4, <2>5 DEF PassSteps
<1>4. ASSUME NEW p \in Passes, Crash(p) PROVE EnqueuedInv'
    BY <1>2, <1>4 DEF Crash, rows
<1>5. CASE RowComesDue
    BY <1>1, <1>2, <1>5 DEF RowComesDue, Exists, Row
<1>6. CASE Prune
    BY <1>1, <1>6 DEF Prune, EnqueuedInv, Exists, NoRow
<1>7. CASE WhatsAppClaimExpires \/ Sweep \/ OperatorReads \/ UNCHANGED vars
    BY <1>2, <1>7 DEF WhatsAppClaimExpires, Sweep, OperatorReads, vars, bounds, rows
<1>8. CASE OperatorReopens \/ OperatorCloses
  <2>1. Exists(outer) => Exists(outer')
    BY <1>1, <1>8, OperatorMarks, MarkOnly DEF Exists
  <2> QED BY <1>2, <1>8, <2>1, OperatorMarks DEF bounds
<1> QED BY <1>3, <1>4, <1>5, <1>6, <1>7, <1>8 DEF Next, Environment

-----------------------------------------------------------------------------
(* What is called delivered was sent *)

LEMMA DeliveredNext ==
    ASSUME TypeInv, [Next]_vars, DeliveredInv
    PROVE  DeliveredInv'
<1> SUFFICES ASSUME actions' = 0 PROVE DeliveredInv'
    BY DEF DeliveredInv
<1>1. /\ sent \in Nat /\ actions \in Nat /\ outer \in Row /\ inner \in Row
      /\ pc \in [Passes -> Steps] /\ MaxRequests > 0
      /\ result \in [Passes -> Outcomes \cup SendResults \cup {"none"}]
    BY NotifyAssumption DEF TypeInv, TypeOK
<1>2. actions = 0 /\ operator = NoRead
    BY <1>1, OperatorMarks, ReadingCounted, DeliverMoves DEF Next, vars, Environment, PassSteps,
       ReadIntent, Enqueue, MarkRelayed, ClaimRow, Record, Crash, RowComesDue,
       WhatsAppClaimExpires, Prune, Sweep, bounds, TypeInv
<1>3. /\ outer.state = "delivered" => sent > 0
      /\ inner.state = "delivered" => sent > 0
      /\ \A p \in Passes :
            /\ pc[p] = "record" /\ result[p] = "delivered" => sent > 0
            /\ pc[p] = "waSettle" /\ result[p] = "ack" => sent > 0
    BY <1>2 DEF DeliveredInv
\* What a pass leaves to show: a result for the others it has not touched.
<1>4. ASSUME NEW p \in Passes, sent' \in Nat, sent > 0 => sent' > 0,
             \A q \in Passes \ {p} : pc'[q] = pc[q] /\ result'[q] = result[q],
             outer'.state = "delivered" => sent' > 0,
             inner'.state = "delivered" => sent' > 0,
             pc'[p] = "record" /\ result'[p] = "delivered" => sent' > 0,
             pc'[p] = "waSettle" /\ result'[p] = "ack" => sent' > 0
      PROVE  DeliveredInv'
    BY <1>3, <1>4 DEF DeliveredInv
<1>5. ASSUME NEW p \in Passes, PassSteps(p) PROVE DeliveredInv'
  <2>1. CASE ReadIntent(p) \/ MarkRelayed(p)
    BY <1>1, <1>3, <1>4, <2>1 DEF ReadIntent, MarkRelayed, Goto, rows
  <2>2. CASE Enqueue(p)
    BY <1>1, <1>3, <1>4, <2>2 DEF Enqueue, Ensure, FreshRow, NoRow, Goto
  <2>3. CASE ClaimRow(p)
    BY <1>1, <1>3, <1>4, <2>3 DEF ClaimRow, Claim, Goto, Row
  <2>4. CASE Deliver(p)
    <3>1. /\ outer'.state = outer.state
          /\ \A q \in Passes \ {p} : pc'[q] = pc[q] /\ result'[q] = result[q]
      BY <2>4, DeliverMoves, DeliverHolds
    <3>2. ASSUME sent' \in Nat, sent > 0 => sent' > 0,
                 inner'.state = "delivered" => sent' > 0,
                 pc'[p] = "record" /\ result'[p] = "delivered" => sent' > 0,
                 pc'[p] = "waSettle" /\ result'[p] = "ack" => sent' > 0
          PROVE  DeliveredInv'
      <4>1. outer'.state = "delivered" => sent' > 0
        BY <1>3, <3>1, <3>2
      <4> QED BY <1>4, <3>1, <3>2, <4>1
    <3>3. CASE DeliverThread(p)
      BY <1>1, <1>3, <3>2, <3>3 DEF DeliverThread, Outcome, Goto, rows
    <3>4. CASE DeliverWebhook(p)
      BY <1>1, <1>3, <3>2, <3>4 DEF DeliverWebhook, Outcome, Goto, rows
    <3>5. CASE DeliverEmail(p)
      BY <1>1, <1>3, <3>2, <3>5 DEF DeliverEmail, Outcome, Goto
    <3>6. CASE SendEmail(p)
      BY <1>1, <1>3, <3>2, <3>6 DEF SendEmail, Outcome, Goto, rows
    <3>7. CASE EnsureWhatsApp(p)
      BY <1>1, <1>3, <3>2, <3>7 DEF EnsureWhatsApp, Ensure, FreshRow, NoRow, Outcome, Goto
    <3>8. CASE UnresolvedWhatsApp(p)
      BY <1>1, <1>3, <3>2, <3>8 DEF UnresolvedWhatsApp, Outcome, Goto, rows
    <3>9. CASE ClaimWhatsApp(p)
      <4>1. CASE Quarantined(inner)
        BY <1>1, <1>3, <3>2, <3>9, <4>1 DEF ClaimWhatsApp, Quarantine, Row, Outcome, Goto
      <4>2. CASE ~Quarantined(inner) /\ Terminal(inner)
        BY <1>1, <1>3, <3>2, <3>9, <4>2 DEF ClaimWhatsApp, Claimable, Outcome, Goto
      <4>3. CASE ~Quarantined(inner) /\ ~Terminal(inner) /\ ~Claimable(inner)
        BY <1>1, <1>3, <3>2, <3>9, <4>3 DEF ClaimWhatsApp, Outcome, Goto
      <4>4. CASE ~Quarantined(inner) /\ ~Terminal(inner) /\ Claimable(inner)
        BY <1>1, <1>3, <3>2, <3>9, <4>4 DEF ClaimWhatsApp, Claim, Row, Outcome, Goto
      <4> QED BY <4>1, <4>2, <4>3, <4>4
    <3>10. CASE SendWhatsApp(p)
      <4>1. PICK r \in SendResults, first \in {0, 1}, last \in {0, 1} :
               /\ r = "ack" => last = 1
               /\ result' = [result EXCEPT ![p] = r] /\ sent' = sent + first + last
        BY <3>10 DEF SendWhatsApp, Unseen
      <4>2. /\ sent' \in Nat
            /\ sent > 0 => sent' > 0
            /\ r = "ack" => sent' > 0
        BY <1>1, <4>1
      <4>3. pc'[p] = "waSettle" /\ result'[p] = r /\ inner' = inner
        BY <1>1, <3>10, <4>1 DEF SendWhatsApp, Goto, rows
      <4> QED BY <1>3, <3>2, <4>2, <4>3
    <3>11. CASE SettleWhatsApp(p)
      <4>1. pc[p] = "waSettle" /\ result[p] \in SendResults
        BY <3>11 DEF SettleWhatsApp, At, TypeInv, ResultInv
      <4>2. CASE result[p] = "ack"
        BY <1>1, <1>3, <3>2, <3>11, <4>1, <4>2 DEF SettleWhatsApp, Outcome, Goto
      <4>3. CASE result[p] = "unconfirmed"
        <5>1. /\ inner' = Mark(inner, "delivery_uncertain", inner.fence, TRUE)
              /\ Outcome(p, "delivery_uncertain") /\ sent' = sent
          BY <3>11, <4>3 DEF SettleWhatsApp
        <5>2. inner'.state = "delivered" => inner.state = "delivered"
          BY <1>1, <5>1 DEF Mark, Row
        <5> QED BY <1>1, <1>3, <3>2, <5>1, <5>2 DEF Outcome, Goto
      <4>4. CASE result[p] = "rejected"
        <5>1. ReleaseWhatsApp(inner).state = "delivered" => inner.state = "delivered"
          BY <1>1 DEF ReleaseWhatsApp, Quarantine, Release, Row
        <5> QED BY <1>1, <1>3, <3>2, <3>11, <4>1, <4>4, <5>1 DEF SettleWhatsApp, Outcome, Goto
      <4> QED BY <4>1, <4>2, <4>3, <4>4 DEF SendResults
    <3> QED BY <2>4, <3>3, <3>4, <3>5, <3>6, <3>7, <3>8, <3>9, <3>10, <3>11 DEF Deliver
  <2>5. CASE Record(p)
    <3>1. outer'.state = "delivered" => sent > 0
      BY <1>1, <1>3, <2>5, MarkOnly DEF Record, RecordedState, At, Exists
    <3> QED BY <1>1, <1>3, <1>4, <2>5, <3>1 DEF Record, Goto
  <2> QED BY <1>5, <2>1, <2>2, <2>3, <2>4, <2>5 DEF PassSteps
<1>6. ASSUME NEW p \in Passes, Crash(p) PROVE DeliveredInv'
    BY <1>1, <1>3, <1>4, <1>6 DEF Crash, Goto, rows
<1>7. ASSUME UNCHANGED <<pc, result, sent>>,
             outer'.state = "delivered" => outer.state = "delivered",
             inner'.state = "delivered" => inner.state = "delivered"
      PROVE  DeliveredInv'
    BY <1>3, <1>7 DEF DeliveredInv
<1>8. CASE RowComesDue \/ WhatsAppClaimExpires \/ Prune \/ Sweep
  <2>1. CASE RowComesDue \/ WhatsAppClaimExpires
    BY <1>1, <1>7, <2>1 DEF RowComesDue, WhatsAppClaimExpires, Row
  <2>2. CASE Prune
    BY <1>7, <2>2 DEF Prune, NoRow
  <2>3. CASE Sweep
    BY <1>1, <1>7, <2>3 DEF Sweep, Archive, Row
  <2> QED BY <1>8, <2>1, <2>2, <2>3
<1>9. CASE UNCHANGED vars
    BY <1>7, <1>9 DEF vars, rows
<1>10. ~(OperatorReads \/ OperatorReopens \/ OperatorCloses)
    BY <1>2, ReadingCounted, OperatorMarks
<1> QED BY <1>5, <1>6, <1>8, <1>9, <1>10 DEF Next, Environment

-----------------------------------------------------------------------------
(* Without lapses and operators the row is held *)

LEMMA HeldNext ==
    ASSUME TypeInv, [Next]_vars, HeldInv
    PROVE  HeldInv'
<1> SUFFICES ASSUME lapses' = 0, actions' = 0 PROVE HeldInv'
    BY DEF HeldInv
<1>1. /\ lapses \in Nat /\ actions \in Nat /\ outer \in Row
      /\ pc \in [Passes -> Steps] /\ NoClaimant \notin Passes
    BY NotifyAssumption, ClaimantsAssumption DEF TypeInv, TypeOK
<1>2. ~(OperatorReads \/ OperatorReopens \/ OperatorCloses)
    BY <1>1, ReadingCounted, OperatorMarks DEF bounds
<1>3. lapses = 0 /\ actions = 0
    BY <1>1, <1>2, DeliverMoves DEF Next, vars, Environment, PassSteps, ReadIntent, Enqueue,
       MarkRelayed, ClaimRow, Record, Crash, RowComesDue, WhatsAppClaimExpires, Prune, Sweep,
       bounds
<1>4. \A p \in Passes : pc[p] \in Dispatching => HoldsRow(p) /\ ~outer.due
    BY <1>3 DEF HeldInv
<1>5. \A p, q \in Passes : pc[p] \in Dispatching /\ pc[q] \in Dispatching => p = q
    BY <1>4 DEF HoldsRow
<1>6. CASE Beside
    BY <1>4, <1>6, BesideHolds DEF HeldInv
<1>7. ASSUME NEW p \in Passes, Enqueue(p) \/ ClaimRow(p) \/ Deliver(p) \/ Record(p) \/ Crash(p)
      PROVE  HeldInv'
  <2>1. CASE Enqueue(p)
    <3>1. \A q \in Passes : pc'[q] \in Dispatching => pc[q] = pc'[q] /\ outer' = outer
      BY <1>1, <1>4, <2>1 DEF Enqueue, Ensure, Exists, HoldsRow, Goto, Dispatching
    <3> QED BY <1>4, <3>1 DEF HeldInv, HoldsRow
  <2>2. CASE ClaimRow(p)
    <3>1. \A q \in Passes : pc[q] \notin Dispatching
      BY <1>4, <2>2 DEF ClaimRow, Claimable, ClaimExpired, HoldsRow
    <3>2. \A q \in Passes : pc'[q] \in Dispatching => q = p
      BY <1>1, <2>2, <3>1 DEF ClaimRow, Goto
    <3>3. outer'.state = "claimed" /\ outer'.by = p /\ ~outer'.due
      BY <1>1, <2>2 DEF ClaimRow, Claim, Row
    <3> QED BY <3>2, <3>3 DEF HeldInv, HoldsRow
  <2>3. CASE Deliver(p)
    BY <1>4, <2>3, DeliverMoves, DeliverHolds DEF HeldInv, HoldsRow
  <2>4. CASE Record(p)
    <3>1. \A q \in Passes : pc'[q] \notin Dispatching
      BY <1>1, <1>5, <2>4 DEF Record, At, Goto, Dispatching
    <3> QED BY <3>1 DEF HeldInv
  <2>5. CASE Crash(p)
    <3>1. \A q \in Passes : pc'[q] \in Dispatching => pc'[q] = pc[q]
      BY <1>1, <2>5 DEF Crash, Goto, Dispatching
    <3> QED BY <1>4, <2>5, <3>1 DEF HeldInv, HoldsRow, Crash, rows
  <2> QED BY <1>7, <2>1, <2>2, <2>3, <2>4, <2>5
<1>8. CASE RowComesDue
  <2>1. ~\E p \in Passes : HoldsRow(p)
    BY <1>1, <1>3, <1>8 DEF RowComesDue
  <2> QED BY <1>4, <1>8, <2>1 DEF RowComesDue, HeldInv
<1>9. CASE Prune
  <2>1. CASE outer' = outer
    BY <1>4, <1>9, <2>1 DEF Prune, HeldInv, HoldsRow
  <2>2. CASE outer.state \in PrunableStates
    BY <1>4, <1>9, <2>2 DEF Prune, PrunableStates, TerminalStates, HeldInv, HoldsRow
  <2> QED BY <1>9, <2>1, <2>2 DEF Prune
<1> QED BY <1>2, <1>6, <1>7, <1>8, <1>9 DEF Next, Environment, PassSteps, Beside

-----------------------------------------------------------------------------
(* Claims are bounded *)

\* A step after which no pass may do more, and the row is as it was or a fault
\* was counted.
LEMMA ClaimsStep ==
    ASSUME TypeInv, TypeInv', ClaimsInv, Busy' \subseteq Busy, Young' \subseteq Young,
           outer'.attempts = outer.attempts,
           \/ Faulty' = Faulty + 1
           \/ Faulty' = Faulty /\ Held' = Held /\ (Terminal(outer) => Terminal(outer'))
    PROVE  ClaimsInv'
<1>1. /\ Cardinality(Busy') <= Cardinality(Busy) /\ Cardinality(Young') <= Cardinality(Young)
      /\ Cardinality(Busy) \in Nat /\ Cardinality(Young) \in Nat
      /\ Cardinality(Busy') \in Nat /\ Cardinality(Young') \in Nat
  <2>1. Busy \subseteq Passes /\ Young \subseteq Passes
    BY DEF Busy, Young
  <2> QED BY <2>1, Finite, Counting
<1>2. /\ Faulty \in Nat /\ Held \in {0, 1} /\ Faulty' \in Nat /\ Held' \in {0, 1}
      /\ outer.attempts \in Nat /\ MaxAttempts \in Nat
    BY Numbers, NumbersNext
<1>3. Cardinality(Busy') <= Faulty' + Held'
    BY <1>1, <1>2 DEF ClaimsInv
<1>4. ASSUME outer'.attempts >= MaxAttempts
      PROVE  outer'.attempts + Cardinality(Young') <=
                MaxAttempts - 1 + Faulty' + (IF Terminal(outer') THEN 1 ELSE Held')
  <2> DEFINE room == IF Terminal(outer) THEN 1 ELSE Held
             left == IF Terminal(outer') THEN 1 ELSE Held'
  <2>1. room \in {0, 1} /\ left \in {0, 1} /\ (Faulty' = Faulty + 1 \/ room <= left)
    BY <1>2
  <2>2. outer.attempts + Cardinality(Young) <= MaxAttempts - 1 + Faulty + room
    BY <1>4 DEF ClaimsInv
  <2> HIDE DEF room, left
  <2>3. outer'.attempts + Cardinality(Young') <= MaxAttempts - 1 + Faulty' + left
    BY <1>1, <1>2, <2>1, <2>2
  <2> QED BY <2>3 DEF left
<1> QED BY <1>3, <1>4 DEF ClaimsInv

LEMMA ClaimsNext ==
    ASSUME TypeInv, TypeInv', [Next]_vars, ClaimsInv
    PROVE  ClaimsInv'
<1>1. /\ outer \in Row /\ pc \in [Passes -> Steps]
      /\ job \in [Passes -> [attempts : Nat, fence : BOOLEAN]]
    BY DEF TypeInv, TypeOK
<1>2. /\ Busy \subseteq Passes /\ Young \subseteq Passes
      /\ Cardinality(Busy) \in Nat /\ Cardinality(Young) \in Nat
      /\ Cardinality(Young) <= Cardinality(Busy)
  <2>1. Busy \subseteq Passes /\ Young \subseteq Busy
    BY DEF Busy, Young
  <2> QED BY <2>1, Finite, Counting
<1>3. /\ Faulty \in Nat /\ Held \in {0, 1} /\ Faulty' \in Nat /\ Held' \in {0, 1}
      /\ crashes \in Nat /\ lapses \in Nat /\ Acted \in Nat
      /\ outer.attempts \in Nat /\ MaxAttempts \in Nat \ {0}
    BY Numbers, NumbersNext DEF TypeInv, TypeOK
<1>4. CASE Beside
    BY <1>4, BesideHolds, ClaimsStep
<1>5. ASSUME NEW p \in Passes, Enqueue(p) PROVE ClaimsInv'
  <2>1. \A q \in Passes : pc[q] \in Dispatching \/ pc'[q] \in Dispatching => pc'[q] = pc[q]
    BY <1>1, <1>5 DEF Enqueue, At, Goto, Dispatching
  <2>2. Busy' = Busy /\ Young' = Young
    BY <1>5, <2>1 DEF Enqueue, Busy, Young
  <2>3. Faulty' = Faulty
    BY <1>5 DEF Enqueue, Faulty, Acted, Reading, bounds
  <2>4. CASE Exists(outer)
    <3>1. outer' = outer
      BY <1>5, <2>4 DEF Enqueue, Ensure
    <3>2. Held' = Held
      BY <2>1, <3>1 DEF Held, HoldsRow
    <3> QED BY <2>2, <2>3, <3>1, <3>2, ClaimsStep
  <2>5. CASE ~Exists(outer)
    <3>1. outer'.state = "pending" /\ outer'.attempts = 0
      BY <1>5, <2>5 DEF Enqueue, Ensure, FreshRow, NoRow
    <3>2. Held = 0 /\ Held' = 0
      BY <2>5, <3>1 DEF Held, HoldsRow, Exists
    <3>3. ~(outer'.attempts >= MaxAttempts)
      BY <1>3, <3>1
    <3> QED BY <2>2, <2>3, <3>2, <3>3 DEF ClaimsInv
  <2> QED BY <2>4, <2>5
<1>6. ASSUME NEW p \in Passes, ClaimRow(p) PROVE ClaimsInv'
  <2>1. /\ pc[p] = "idle" /\ pc'[p] = "deliver"
        /\ \A q \in Passes \ {p} : pc'[q] = pc[q] /\ job'[q] = job[q]
        /\ job'[p].attempts = outer.attempts + 1 /\ outer'.attempts = outer.attempts + 1
        /\ outer'.state = "claimed" /\ outer'.by = p /\ ~outer'.due
    BY <1>1, <1>6 DEF ClaimRow, Claim, Row, At, Goto
  <2>2. p \notin Busy /\ p \notin Young /\ Busy' = Busy \cup {p}
    BY <2>1 DEF Busy, Young, Dispatching
  <2>3. Held = 0 /\ Held' = 1 /\ ~Terminal(outer) /\ ~Terminal(outer') /\ Faulty' = Faulty
    <3>1. Held = 0 /\ ~Terminal(outer)
      BY <1>6 DEF ClaimRow, Claimable, ClaimExpired, Held, HoldsRow
    <3>2. Held' = 1 /\ ~Terminal(outer')
      BY <2>1 DEF Held, HoldsRow, Dispatching, Terminal, TerminalStates
    <3> QED BY <1>6, <3>1, <3>2 DEF ClaimRow, Faulty, Acted, Reading, bounds
  <2>4. Cardinality(Busy') = Cardinality(Busy) + 1
    BY <1>2, <2>2, Counting
  <2>5. Cardinality(Busy) <= Faulty
    BY <1>2, <1>3, <2>3 DEF ClaimsInv
  <2>6. ASSUME outer'.attempts >= MaxAttempts
        PROVE  outer'.attempts + Cardinality(Young') <= MaxAttempts - 1 + Faulty + 1
    <3>1. Young' = Young
      <4>1. ~(job'[p].attempts < MaxAttempts)
        BY <1>3, <2>1, <2>6
      <4>2. \A q \in Passes : q \in Young' <=> q \in Young
        BY <2>1, <2>2, <4>1 DEF Young
      <4> QED BY <4>2 DEF Young, Busy
    <3>2. CASE outer.attempts >= MaxAttempts
      <4>1. outer.attempts + Cardinality(Young) <= MaxAttempts - 1 + Faulty + 0
        BY <2>3, <3>2 DEF ClaimsInv
      <4> QED BY <1>2, <1>3, <2>1, <3>1, <4>1
    <3>3. CASE ~(outer.attempts >= MaxAttempts)
      <4>1. outer'.attempts = MaxAttempts
        BY <1>3, <2>1, <2>6, <3>3
      <4> QED BY <1>2, <1>3, <2>5, <3>1, <4>1
    <3> QED BY <3>2, <3>3
  <2>7. Cardinality(Busy') <= Faulty' + Held'
    BY <1>2, <1>3, <2>3, <2>4, <2>5
  <2> QED BY <2>3, <2>6, <2>7 DEF ClaimsInv
<1>7. ASSUME NEW p \in Passes, Deliver(p) PROVE ClaimsInv'
    BY <1>7, DeliverHolds, ClaimsStep DEF Terminal
<1>8. ASSUME NEW p \in Passes, Record(p) PROVE ClaimsInv'
  <2>1. /\ pc[p] = "record" /\ pc'[p] = "idle"
        /\ \A q \in Passes \ {p} : pc'[q] = pc[q] /\ job'[q] = job[q]
    BY <1>1, <1>8 DEF Record, At, Goto
  <2>2. p \in Busy /\ Busy' = Busy \ {p} /\ Young' = Young \ {p}
    BY <2>1 DEF Busy, Young, Dispatching
  <2>3. Faulty' = Faulty /\ outer'.attempts = outer.attempts
    BY <1>1, <1>8, MarkOnly DEF Record, Faulty, Acted, Reading, bounds
  <2>4. /\ Cardinality(Busy') = Cardinality(Busy) - 1
        /\ p \in Young => Cardinality(Young') = Cardinality(Young) - 1
        /\ Cardinality(Young') <= Cardinality(Young) /\ Cardinality(Young') \in Nat
    BY <1>2, <2>2, Counting, Finite
  <2>5. CASE ~Exists(outer)
    <3>1. outer' = outer /\ Held = 0 /\ Held' = 0
      BY <1>1, <1>8, <2>5, MarkOnly DEF Record, Exists, Held, HoldsRow
    <3> QED BY <2>2, <2>3, <3>1, ClaimsStep
  <2>6. CASE Exists(outer)
    <3>1. outer'.state = RecordedState(p)
      BY <1>1, <1>8, <2>6, MarkOnly DEF Record
    <3>2. result[p] \in Outcomes
      BY <2>1 DEF TypeInv, ResultInv
    <3>3. Terminal(outer') \/ (outer'.state = "failed_retryable" /\ p \in Young)
      BY <1>1, <1>3, <2>2, <3>1, <3>2 DEF RecordedState, Terminal, TerminalStates, Outcomes, Young
    <3>4. Cardinality(Busy') <= Faulty' + Held'
      BY <1>2, <1>3, <2>3, <2>4 DEF ClaimsInv
    <3>5. ASSUME outer'.attempts >= MaxAttempts
          PROVE  outer'.attempts + Cardinality(Young') <=
                    MaxAttempts - 1 + Faulty' + (IF Terminal(outer') THEN 1 ELSE Held')
      <4>1. outer.attempts + Cardinality(Young) <= MaxAttempts - 1 + Faulty + 1
        <5> DEFINE room == IF Terminal(outer) THEN 1 ELSE Held
        <5>1. room \in {0, 1}
          BY <1>3
        <5>2. outer.attempts + Cardinality(Young) <= MaxAttempts - 1 + Faulty + room
          BY <2>3, <3>5 DEF ClaimsInv
        <5> HIDE DEF room
        <5> QED BY <1>2, <1>3, <5>1, <5>2
      <4>2. CASE Terminal(outer')
        BY <1>2, <1>3, <2>3, <2>4, <4>1, <4>2
      <4>3. CASE ~Terminal(outer')
        <5>1. Cardinality(Young') = Cardinality(Young) - 1
          BY <2>4, <3>3, <4>3
        <5>2. outer'.attempts + Cardinality(Young') <= MaxAttempts - 1 + Faulty' + Held'
          BY <1>2, <1>3, <2>3, <4>1, <5>1
        <5> QED BY <4>3, <5>2
      <4> QED BY <4>2, <4>3
    <3> QED BY <3>4, <3>5 DEF ClaimsInv
  <2> QED BY <2>5, <2>6
<1>9. ASSUME NEW p \in Passes, Crash(p) PROVE ClaimsInv'
  <2>1. pc'[p] = "idle" /\ (\A q \in Passes \ {p} : pc'[q] = pc[q] /\ job'[q] = job[q])
    BY <1>1, <1>9 DEF Crash, Goto
  <2>2. Busy' \subseteq Busy /\ Young' \subseteq Young
    BY <2>1 DEF Busy, Young, Dispatching
  <2>3. Faulty' = Faulty + 1 /\ outer' = outer
    BY <1>3, <1>9 DEF Crash, Faulty, Acted, Reading, rows
  <2> QED BY <2>2, <2>3, ClaimsStep
<1>10. CASE RowComesDue
  <2>1. /\ outer'.attempts = outer.attempts /\ outer'.state = outer.state /\ outer'.due
        /\ Busy' = Busy /\ Young' = Young
    BY <1>1, <1>10 DEF RowComesDue, Row, Busy, Young
  <2>2. Faulty' = Faulty + 1 \/ (Faulty' = Faulty /\ Held = 0)
    BY <1>3, <1>10 DEF RowComesDue, Faulty, Acted, Reading, Held
  <2>3. Held' = 0
    BY <2>1 DEF Held
  <2> QED BY <2>1, <2>2, <2>3, ClaimsStep DEF Terminal
<1>11. CASE Prune
  <2>1. Busy' = Busy /\ Young' = Young /\ Faulty' = Faulty
    BY <1>11 DEF Prune, Busy, Young, Faulty, Acted, Reading
  <2>2. CASE outer' = outer
    <3>1. Held' = Held
      BY <1>11, <2>2 DEF Prune, Held, HoldsRow
    <3> QED BY <2>1, <2>2, <3>1, ClaimsStep
  <2>3. CASE outer.state \in PrunableStates /\ outer' = NoRow
    <3>1. Held = 0 /\ Held' = 0 /\ ~(outer'.attempts >= MaxAttempts)
      BY <1>3, <2>3 DEF PrunableStates, TerminalStates, Held, HoldsRow, NoRow
    <3> QED BY <2>1, <3>1 DEF ClaimsInv
  <2> QED BY <1>11, <2>2, <2>3 DEF Prune
<1>12. CASE OperatorReads
  <2>1. Faulty' = Faulty /\ Busy' = Busy /\ Young' = Young /\ Held' = Held /\ outer' = outer
    BY <1>12, ReadingCounted DEF OperatorReads, Busy, Young, Held, HoldsRow, rows
  <2> QED BY <2>1, ClaimsStep
<1>13. CASE OperatorReopens \/ OperatorCloses
  <2>1. outer'.attempts = outer.attempts
    BY <1>1, <1>13, OperatorMarks, MarkOnly
  <2>2. Busy' = Busy /\ Young' = Young
    BY <1>13, OperatorMarks DEF Busy, Young
  <2> QED BY <1>13, <2>1, <2>2, OperatorMarks, ClaimsStep
<1> QED BY <1>4, <1>5, <1>6, <1>7, <1>8, <1>9, <1>10, <1>11, <1>12, <1>13
    DEF Next, Environment, PassSteps, Beside

-----------------------------------------------------------------------------
(* A WhatsApp message is accepted once *)

LEMMA WhatsAppNext ==
    ASSUME TypeInv, TypeInv', [Next]_vars, WhatsAppInv
    PROVE  WhatsAppInv'
<1>1. /\ inner \in Row /\ pc \in [Passes -> Steps] /\ outer \in Row
      /\ result \in [Passes -> Outcomes \cup SendResults \cup {"none"}]
    BY DEF TypeInv, TypeOK
<1>2. /\ WhatsAppPermits \subseteq Passes /\ WhatsAppPermits' \subseteq Passes
      /\ Cardinality(WhatsAppPermits) \in Nat /\ Cardinality(WhatsAppPermits') \in Nat
      /\ WhatsAppOpen \in {0, 1} /\ WhatsAppOpen' \in {0, 1}
      /\ sent \in Nat /\ Acted \in Nat /\ hidden \in Nat /\ prunes \in Nat
  <2>1. WhatsAppPermits \subseteq Passes /\ WhatsAppPermits' \subseteq Passes
    BY DEF WhatsAppPermits
  <2> QED BY <2>1, Finite, Numbers DEF WhatsAppOpen
<1> SUFFICES ASSUME channel = "whatsapp"
             PROVE  sent' + Cardinality(WhatsAppPermits') + WhatsAppOpen' <= 1 + WhatsAppCauses' + prunes'
    BY ChannelFixed DEF WhatsAppInv
\* The two sides before and after the step, as numbers: sent, permits, the row,
\* causes and prunes.
<1> DEFINE n == Cardinality(WhatsAppPermits)
           m == Cardinality(WhatsAppPermits')
           o == WhatsAppOpen
           o1 == WhatsAppOpen'
           a == WhatsAppCauses
           a1 == WhatsAppCauses'
           s == sent
           s1 == sent'
           r == prunes
           r1 == prunes'
           Kept == s1 + m + o1 <= 1 + a1 + r1
<1>3. WhatsAppCauses \in Nat /\ WhatsAppCauses' \in Nat
    BY <1>2, NumbersNext DEF WhatsAppCauses
<1>4. s + n + o <= 1 + a + r
    BY DEF WhatsAppInv
<1>14. /\ n \in Nat /\ m \in Nat /\ o \in Nat /\ o1 \in Nat /\ o <= 1 /\ o1 <= 1
       /\ s \in Nat /\ a \in Nat /\ r \in Nat /\ s1 \in Nat /\ a1 \in Nat /\ r1 \in Nat
    BY <1>2, <1>3, NumbersNext
<1> SUFFICES Kept
    OBVIOUS
<1> HIDE DEF n, m, o, o1, a, a1, s, s1, r, r1
\* The other passes have what they had; p may have lost its permit.
<1>5. ASSUME NEW p \in Passes, inner' = inner /\ s1 = s /\ r1 = r, a1 = a,
             \A q \in Passes \ {p} : pc'[q] = pc[q] /\ result'[q] = result[q],
             pc'[p] # "waSend",
             pc'[p] = "waSettle" => pc[p] = "waSettle" /\ result'[p] = result[p]
      PROVE  Kept
  <2>1. WhatsAppPermits' \subseteq WhatsAppPermits
    BY <1>5 DEF WhatsAppPermits
  <2>2. m <= n
    BY <1>2, <2>1, Counting DEF n, m
  <2>3. o1 = o
    BY <1>5 DEF WhatsAppOpen, o, o1
  <2> QED BY <1>14, <1>4, <1>5, <2>2, <2>3
<1>6. ASSUME NEW p \in Passes, PassSteps(p) PROVE Kept
  <2>1. CASE ReadIntent(p) \/ MarkRelayed(p) \/ Enqueue(p) \/ ClaimRow(p) \/ Record(p)
    <3>1. a1 = a /\ inner' = inner /\ s1 = s /\ r1 = r
      BY <2>1 DEF ReadIntent, MarkRelayed, Enqueue, ClaimRow, Record, WhatsAppCauses, Acted, Reading, rows, bounds, a, a1, s, s1, r, r1
    <3>2. /\ \A q \in Passes \ {p} : pc'[q] = pc[q] /\ result'[q] = result[q]
          /\ pc'[p] \notin {"waSend", "waSettle"}
      BY <1>1, <2>1 DEF ReadIntent, MarkRelayed, Enqueue, ClaimRow, Record, Goto
    <3> QED BY <1>5, <3>1, <3>2
  <2>2. CASE Deliver(p)
    <3>1. /\ \A q \in Passes \ {p} : pc'[q] = pc[q] /\ result'[q] = result[q]
          /\ r1 = r /\ Acted' = Acted
      BY <2>2, DeliverMoves, DeliverHolds DEF bounds, r, r1
    \* Whether p has a permit before and after is all that remains.
    <3>2. ASSUME p \in WhatsAppPermits <=> p \in WhatsAppPermits',
                 s1 + o1 + a <= s + o + a1
          PROVE  Kept
      <4>1. m = n
        BY <3>1, <3>2 DEF WhatsAppPermits, m, n
      <4> QED BY <1>14, <1>4, <3>1, <3>2, <4>1
    <3>3. ASSUME p \in WhatsAppPermits, p \notin WhatsAppPermits',
                 s1 + o1 + a <= s + o + a1 + 1
          PROVE  Kept
      <4>1. WhatsAppPermits' = WhatsAppPermits \ {p}
        BY <3>1, <3>3 DEF WhatsAppPermits
      <4>2. m = n - 1
        BY <1>2, <3>3, <4>1, Counting DEF n, m
      <4>3. s1 + m + o1 + a <= s + n + o + a1
        BY <1>14, <3>3, <4>2
      <4> QED BY <1>14, <1>4, <3>1, <3>3, <4>3
    <3>4. CASE UnresolvedWhatsApp(p)
      <4>1. p \notin WhatsAppPermits /\ p \notin WhatsAppPermits'
        BY <1>1, <3>4 DEF UnresolvedWhatsApp, WhatsAppPermits, Outcome, Goto, At
      <4>2. o1 = o /\ s1 = s /\ a1 = a
        BY <3>1, <3>4 DEF UnresolvedWhatsApp, WhatsAppOpen, WhatsAppCauses, rows, o, o1, s, s1, a, a1
      <4> QED BY <1>14, <3>2, <4>1, <4>2
    <3>5. CASE EnsureWhatsApp(p)
      <4>1. p \notin WhatsAppPermits /\ p \notin WhatsAppPermits'
        BY <1>1, <3>5 DEF EnsureWhatsApp, WhatsAppPermits, Outcome, Goto, At
      <4>2. o1 = o /\ s1 = s /\ a1 = a
        BY <3>1, <3>5 DEF EnsureWhatsApp, WhatsAppOpen, WhatsAppCauses, Ensure, Exists, FreshRow, NoRow,
           o, o1, s, s1, a, a1
      <4> QED BY <1>14, <3>2, <4>1, <4>2
    <3>6. CASE ClaimWhatsApp(p)
      <4>1. p \notin WhatsAppPermits /\ s1 = s /\ a1 = a
        BY <3>1, <3>6 DEF ClaimWhatsApp, WhatsAppPermits, WhatsAppCauses, At, s, s1, a, a1
      <4>2. CASE ~Quarantined(inner) /\ ~Terminal(inner) /\ Claimable(inner)
        <5>1. inner' = Claim(inner, p) /\ Goto(p, "waSend")
          BY <3>6, <4>2 DEF ClaimWhatsApp
        <5>2. o = 1
          BY <1>1, <4>2 DEF WhatsAppOpen, Claimable, ClaimExpired, Quarantined, Terminal, Row,
             OpenStates, o
        <5>3. o1 = 0
          BY <1>1, <5>1 DEF WhatsAppOpen, Claim, Row, o1
        <5>4. WhatsAppPermits' = WhatsAppPermits \cup {p}
          BY <1>1, <3>1, <5>1 DEF WhatsAppPermits, Goto
        <5>5. m = n + 1
          BY <1>2, <4>1, <5>4, Counting DEF n, m
        <5> QED BY <1>14, <1>4, <3>1, <4>1, <5>2, <5>3, <5>5
      <4>3. CASE Quarantined(inner) \/ Terminal(inner) \/ ~Claimable(inner)
        <5>1. (\E x : Outcome(p, x)) /\ inner' \in {inner, Quarantine(inner)}
          <6>1. CASE Quarantined(inner)
            BY <3>6, <6>1 DEF ClaimWhatsApp
          <6>2. CASE ~Quarantined(inner) /\ Terminal(inner)
            BY <3>6, <6>2 DEF ClaimWhatsApp, Claimable
          <6>3. CASE ~Quarantined(inner) /\ ~Terminal(inner) /\ ~Claimable(inner)
            BY <3>6, <6>3 DEF ClaimWhatsApp
          <6> QED BY <4>3, <6>1, <6>2, <6>3
        <5>2. p \notin WhatsAppPermits'
          BY <1>1, <5>1 DEF WhatsAppPermits, Outcome, Goto
        <5>3. o1 <= o
          <6>1. CASE inner' = inner
            BY <1>14, <6>1 DEF WhatsAppOpen, o, o1
          <6>2. CASE inner' = Quarantine(inner)
            <7>1. o1 = 0
              BY <1>1, <6>2 DEF WhatsAppOpen, Quarantine, Row, o1
            <7> QED BY <1>14, <7>1
          <6> QED BY <5>1, <6>1, <6>2
        <5>4. s1 + o1 + a <= s + o + a1
          BY <1>14, <4>1, <5>3
        <5> QED BY <3>2, <4>1, <5>2, <5>4
      <4> QED BY <4>2, <4>3
    <3>7. CASE SendWhatsApp(p)
      <4>1. p \in WhatsAppPermits /\ o1 = o
        BY <3>7 DEF SendWhatsApp, WhatsAppPermits, WhatsAppOpen, At, rows, o, o1
      <4>2. PICK x \in SendResults, first \in {0, 1}, last \in {0, 1} :
               /\ result' = [result EXCEPT ![p] = x]
               /\ sent' = sent + first + last
               /\ hidden' = hidden + first + (IF x = "rejected" THEN last ELSE 0)
        BY <3>7 DEF SendWhatsApp, Unseen
      <4>5. s1 = s + first + last
        BY <4>2 DEF s, s1
      <4>6. a1 = a + first + (IF x = "rejected" THEN last ELSE 0)
        <5>1. WhatsAppCauses' = hidden' + Acted
          BY <3>1 DEF WhatsAppCauses
        <5>2. hidden \in Nat /\ Acted \in Nat
          BY <1>2
        <5>3. hidden' + Acted = hidden + Acted + first + (IF x = "rejected" THEN last ELSE 0)
          BY <4>2, <5>2
        <5> QED BY <5>1, <5>3 DEF WhatsAppCauses, a, a1
      <4>7. pc'[p] = "waSettle" /\ result'[p] = x
        BY <1>1, <3>7, <4>2 DEF SendWhatsApp, Goto
      <4>3. CASE x = "rejected"
        <5>1. p \in WhatsAppPermits'
          BY <4>3, <4>7 DEF WhatsAppPermits
        <5>2. s1 + o1 + a <= s + o + a1
          BY <1>14, <4>1, <4>3, <4>5, <4>6
        <5> QED BY <3>2, <4>1, <5>1, <5>2
      <4>4. CASE x # "rejected"
        <5>1. p \notin WhatsAppPermits'
          BY <4>4, <4>7 DEF WhatsAppPermits
        <5>2. s1 + o1 + a <= s + o + a1 + 1
          BY <1>14, <4>1, <4>4, <4>5, <4>6
        <5> QED BY <3>3, <4>1, <5>1, <5>2
      <4> QED BY <4>3, <4>4
    <3>8. CASE SettleWhatsApp(p)
      <4>1. /\ pc[p] = "waSettle" /\ result[p] \in SendResults /\ s1 = s /\ a1 = a
        BY <3>1, <3>8 DEF SettleWhatsApp, WhatsAppCauses, At, TypeInv, ResultInv, s, s1, a, a1
      <4>2. CASE result[p] = "rejected"
        <5>1. p \in WhatsAppPermits
          BY <4>1, <4>2 DEF WhatsAppPermits
        <5>2. p \notin WhatsAppPermits'
          BY <1>1, <3>8, <4>2 DEF SettleWhatsApp, WhatsAppPermits, Outcome, Goto
        <5> QED BY <1>14, <3>3, <4>1, <5>1, <5>2
      <4>3. CASE result[p] # "rejected"
        <5>1. \E x \in {"delivered", "delivery_uncertain"}, u \in {TRUE, inner.uncertain} :
                 Outcome(p, x) /\ inner' = Mark(inner, x, inner.fence, u)
          <6>1. CASE result[p] = "ack"
            BY <3>8, <6>1 DEF SettleWhatsApp
          <6>2. CASE result[p] = "unconfirmed"
            BY <3>8, <6>2 DEF SettleWhatsApp
          <6> QED BY <4>1, <4>3, <6>1, <6>2 DEF SendResults
        <5>2. p \notin WhatsAppPermits /\ p \notin WhatsAppPermits'
          BY <1>1, <4>1, <4>3, <5>1 DEF WhatsAppPermits, Outcome, Goto
        <5>3. o1 <= o
          BY <1>1, <1>14, <5>1 DEF WhatsAppOpen, Mark, Row, o, o1
        <5> QED BY <1>14, <3>2, <4>1, <5>2, <5>3
      <4> QED BY <4>2, <4>3
    <3>9. ~(DeliverThread(p) \/ DeliverWebhook(p) \/ DeliverEmail(p) \/ SendEmail(p))
      BY DEF DeliverThread, DeliverWebhook, DeliverEmail, SendEmail, At, TypeInv, ResultInv
    <3> QED BY <2>2, <3>4, <3>5, <3>6, <3>7, <3>8, <3>9 DEF Deliver
  <2> QED BY <1>6, <2>1, <2>2 DEF PassSteps
<1>7. ASSUME NEW p \in Passes, Crash(p) PROVE Kept
    BY <1>1, <1>5, <1>7 DEF Crash, Goto, rows, WhatsAppCauses, Acted, Reading, a, a1, s, s1, r, r1
<1>8. ASSUME UNCHANGED <<pc, result>> /\ s1 = s,
             o1 + a + r <= o + a1 + r1,
             a1 \in Nat, r1 \in Nat
      PROVE  Kept
  <2>1. m = n
    BY <1>8 DEF WhatsAppPermits, m, n
  <2>2. n \in Nat /\ s + n + o <= 1 + a + r
    BY <1>14, <1>4
  <2>3. s + n + o1 <= 1 + a1 + r1
    BY <1>14, <1>8, <2>2
  <2> QED BY <1>8, <2>1, <2>3
<1>9. a1 \in Nat /\ r1 \in Nat
    BY <1>14
<1>10. CASE RowComesDue \/ WhatsAppClaimExpires \/ Sweep \/ UNCHANGED vars
  <2>1. o1 <= o
    <3>1. CASE inner' = inner
      BY <1>14, <3>1 DEF WhatsAppOpen, o, o1
    <3>2. CASE WhatsAppClaimExpires \/ Sweep
      <4>1. o1 = 0
        BY <1>1, <3>2 DEF WhatsAppClaimExpires, Sweep, Archive, WhatsAppOpen, Row, o1
      <4> QED BY <1>14, <4>1
    <3> QED BY <1>10, <3>1, <3>2 DEF RowComesDue, vars, rows
  <2>2. a1 = a /\ r1 = r /\ UNCHANGED <<pc, result>> /\ s1 = s
    BY <1>10 DEF RowComesDue, WhatsAppClaimExpires, Sweep, vars, bounds, WhatsAppCauses, Acted, Reading, a, a1, s, s1, r, r1
  <2>3. o1 + a + r <= o + a1 + r1
    BY <1>14, <2>1, <2>2
  <2> QED BY <1>8, <1>9, <2>2, <2>3
<1>11. CASE Prune
  <2>1. a1 = a /\ r1 = r + 1 /\ UNCHANGED <<pc, result>> /\ s1 = s
    BY <1>11 DEF Prune, WhatsAppCauses, Acted, Reading, a, a1, s, s1, r, r1
  <2>2. o1 + a + r <= o + a1 + r1
    BY <1>14, <2>1
  <2> QED BY <1>8, <1>9, <2>1, <2>2
<1>12. CASE OperatorReads
  <2>1. a1 = a /\ o1 = o /\ UNCHANGED <<pc, result>> /\ s1 = s /\ r1 = r
    BY <1>12, ReadingCounted DEF OperatorReads, WhatsAppOpen, WhatsAppCauses, rows, o, o1, a, a1, s, s1, r, r1
  <2>2. o1 + a + r <= o + a1 + r1
    BY <1>14, <2>1
  <2> QED BY <1>8, <1>9, <2>1, <2>2
<1>13. CASE OperatorReopens \/ OperatorCloses
  <2>1. a1 = a + 1 /\ UNCHANGED <<pc, result>> /\ s1 = s /\ r1 = r
    <3>1. Acted' = Acted + 1 /\ UNCHANGED <<pc, result, sent, bounds, hidden>>
      BY <1>13, OperatorMarks
    <3>2. WhatsAppCauses' = hidden + (Acted + 1)
      BY <3>1 DEF WhatsAppCauses
    <3>3. hidden + (Acted + 1) = (hidden + Acted) + 1
      BY <1>2
    <3> QED BY <3>1, <3>2, <3>3 DEF WhatsAppCauses, bounds, a, a1, s, s1, r, r1
  <2>2. o1 + a + r <= o + a1 + r1
    BY <1>14, <2>1
  <2> QED BY <1>8, <1>9, <2>1, <2>2
<1> QED BY <1>6, <1>7, <1>10, <1>11, <1>12, <1>13 DEF Next, Environment

-----------------------------------------------------------------------------
(* A mail is accepted again only for a cause *)

\* What may be sent by mail is between deliver and the outcome.
LEMMA MailSteps ==
    ASSUME TypeInv, channel = "email", NEW p \in Passes, Deliver(p)
    PROVE  DeliverEmail(p) \/ SendEmail(p)
BY DEF Deliver, DeliverThread, DeliverWebhook, EnsureWhatsApp, UnresolvedWhatsApp,
   ClaimWhatsApp, SendWhatsApp, SettleWhatsApp, At, TypeInv, ResultInv

LEMMA FenceNext ==
    ASSUME TypeInv, [Next]_vars, channel = "email", FenceInv
    PROVE  FenceInv'
<1>1. /\ outer \in Row /\ pc \in [Passes -> Steps]
      /\ job \in [Passes -> [attempts : Nat, fence : BOOLEAN]]
      /\ result \in [Passes -> Outcomes \cup SendResults \cup {"none"}]
    BY DEF TypeInv, TypeOK
\* Passes go on as they were, and whoever holds the row held it.
<1>2. ASSUME \A q \in Passes : pc'[q] \in Dispatching =>
                /\ pc'[q] = pc[q] /\ job'[q] = job[q] /\ result'[q] = result[q]
                /\ HoldsRow(q)' => HoldsRow(q) /\ (outer.fence => outer'.fence)
      PROVE  FenceInv'
    BY <1>2 DEF FenceInv, HoldsRow, Mailed, Dispatching
<1>3. CASE Beside
    BY <1>2, <1>3, BesideHolds
<1>4. ASSUME NEW p \in Passes, Enqueue(p) \/ Record(p) \/ Crash(p) PROVE FenceInv'
  <2>1. \A q \in Passes : pc'[q] \in Dispatching =>
           pc'[q] = pc[q] /\ job'[q] = job[q] /\ result'[q] = result[q]
    BY <1>1, <1>4 DEF Enqueue, Record, Crash, Goto, Dispatching
  <2>2. outer'.state = "claimed" => outer' = outer
    <3>1. CASE Enqueue(p) \/ Crash(p)
      BY <3>1 DEF Enqueue, Crash, Ensure, FreshRow, NoRow, rows
    <3>2. CASE Record(p)
      <4>1. RecordedState(p) # "claimed"
        BY <3>2 DEF Record, At, RecordedState, TypeInv, ResultInv, Outcomes
      <4> QED BY <1>1, <3>2, <4>1, MarkOnly DEF Record
    <3> QED BY <1>4, <3>1, <3>2
  <2> QED BY <1>2, <2>1, <2>2 DEF HoldsRow
<1>5. ASSUME NEW p \in Passes, ClaimRow(p) PROVE FenceInv'
  <2>1. /\ pc'[p] = "deliver" /\ outer'.by = p /\ job'[p].fence = outer'.fence
        /\ \A q \in Passes \ {p} : pc'[q] = pc[q] /\ job'[q] = job[q]
    BY <1>1, <1>5 DEF ClaimRow, Claim, Row, Goto
  <2> QED BY <2>1 DEF FenceInv, HoldsRow, Mailed
<1>6. ASSUME NEW p \in Passes, Deliver(p) PROVE FenceInv'
  <2>1. /\ \A q \in Passes \ {p} : pc'[q] = pc[q] /\ result'[q] = result[q]
        /\ job' = job /\ (\A q \in Passes : HoldsRow(q)' = HoldsRow(q))
        /\ outer.fence => outer'.fence
    BY <1>1, <1>6, DeliverMoves, DeliverHolds, FenceOnly
  <2>2. /\ pc'[p] = "mailSend" => ~job'[p].fence
        /\ HoldsRow(p)' /\ (job'[p].fence \/ Mailed(p)' \/ pc'[p] = "mailSend") => outer'.fence
    <3>1. CASE DeliverEmail(p)
      <4>1. HoldsRow(p) => Exists(outer)
        BY DEF HoldsRow, Exists
      <4>2. CASE Goto(p, "mailSend") /\ outer' = MarkFence(outer) /\ ~MailIsFenced(p)
        BY <1>1, <2>1, <4>1, <4>2, FenceOnly DEF MailIsFenced, Goto
      <4>3. CASE \E x \in {"dead_letter", "delivery_uncertain"} : Outcome(p, x)
        BY <1>1, <2>1, <4>3 DEF Outcome, Goto, Mailed, FenceInv
      <4> QED BY <3>1, <4>2, <4>3 DEF DeliverEmail
    <3>2. CASE SendEmail(p)
      <4>1. pc[p] = "mailSend" /\ pc'[p] # "mailSend"
        BY <1>1, <3>2 DEF SendEmail, At, Outcome, Goto
      <4> QED BY <2>1, <4>1 DEF FenceInv
    <3> QED BY <1>6, <3>1, <3>2, MailSteps
  <2>3. \A q \in Passes \ {p} : Mailed(q)' = Mailed(q)
    BY <2>1 DEF Mailed
  <2> QED BY <2>1, <2>2, <2>3 DEF FenceInv
<1>7. CASE RowComesDue
    BY <1>1, <1>2, <1>7 DEF RowComesDue, HoldsRow, Row
<1>8. CASE Prune
    BY <1>1, <1>2, <1>8 DEF Prune, HoldsRow, NoRow
<1>9. CASE OperatorReads
    BY <1>1, <1>2, <1>9 DEF OperatorReads, HoldsRow, rows
<1>10. CASE OperatorReopens \/ OperatorCloses
  <2>1. outer'.state = "claimed" => outer' = outer
    BY <1>1, <1>10, OperatorMarks, MarkOnly
  <2> QED BY <1>2, <1>10, <2>1, OperatorMarks DEF HoldsRow
<1> QED BY <1>3, <1>4, <1>5, <1>6, <1>7, <1>8, <1>9, <1>10
    DEF Next, Environment, PassSteps, Beside

LEMMA MailNext ==
    ASSUME TypeInv, TypeInv', [Next]_vars, MailInv
    PROVE  MailInv'
<1>1. /\ outer \in Row /\ pc \in [Passes -> Steps]
      /\ job \in [Passes -> [attempts : Nat, fence : BOOLEAN]]
      /\ result \in [Passes -> Outcomes \cup SendResults \cup {"none"}]
    BY DEF TypeInv, TypeOK
<1> SUFFICES ASSUME channel = "email"
             PROVE  sent' + Cardinality(MailPermits') + MailOpen' <= 1 + Causes'
    BY ChannelFixed, FenceNext DEF MailInv
<1>2. FenceInv
    BY DEF MailInv
\* The two sides before and after the step, as numbers: sent, permits, the row
\* and causes.
<1> DEFINE n == Cardinality(MailPermits)
           m == Cardinality(MailPermits')
           o == MailOpen
           o1 == MailOpen'
           s == sent
           s1 == sent'
           c == Causes
           c1 == Causes'
           Kept == s1 + m + o1 <= 1 + c1
<1>3. s + n + o <= 1 + c
    BY DEF MailInv
<1>4. MailPermits \subseteq Passes /\ MailPermits' \subseteq Passes
    BY DEF MailPermits, Busy
<1>5. /\ n \in Nat /\ m \in Nat /\ s \in Nat /\ s1 \in Nat /\ c \in Nat /\ c1 \in Nat
      /\ o \in Nat /\ o1 \in Nat /\ o <= 1 /\ o1 <= 1
  <2>1. n \in Nat /\ m \in Nat
    BY <1>4, Finite
  <2>2. c \in Nat /\ s \in Nat
    BY Numbers DEF Causes
  <2>3. lapses' \in Nat /\ hidden' \in Nat /\ Acted' \in Nat /\ prunes' \in Nat /\ sent' \in Nat
    BY NumbersNext
  <2>4. c1 \in Nat /\ s1 \in Nat
    <3> DEFINE l == lapses'
               h == hidden'
               b == Acted'
               r == prunes'
    <3>1. l \in Nat /\ h \in Nat /\ b \in Nat /\ r \in Nat
      BY <2>3
    <3>2. c1 = l + h + b + r
      BY DEF Causes
    <3> HIDE DEF l, h, b, r
    <3>3. c1 \in Nat
      BY <3>1, <3>2
    <3> QED BY <2>3, <3>3
  <2> QED BY <2>1, <2>2, <2>4 DEF MailOpen
<1> SUFFICES Kept
    OBVIOUS
<1> HIDE DEF n, m, o, o1, s, s1, c, c1
\* Nobody gets a permit, and the row one only for a cause.
<1>6. ASSUME \A q \in Passes : pc'[q] \in Dispatching =>
                pc'[q] = pc[q] /\ job'[q] = job[q] /\ result'[q] = result[q],
             s1 = s, o1 + c <= o + c1
      PROVE  Kept
  <2>1. MailPermits' \subseteq MailPermits
    BY <1>6 DEF MailPermits, Busy, Mailed
  <2>2. m <= n
    BY <1>4, <2>1, Counting DEF n, m
  <2> QED BY <1>3, <1>5, <1>6, <2>2
\* One pass moves: it has its permit before and after, or neither.
<1>7. ASSUME NEW p \in Passes, s1 + o1 + c <= s + o + c1,
             \A q \in Passes \ {p} : pc'[q] = pc[q] /\ job'[q] = job[q] /\ result'[q] = result[q],
             p \in MailPermits' => p \in MailPermits
      PROVE  Kept
  <2>1. MailPermits' \subseteq MailPermits
    BY <1>7 DEF MailPermits, Busy, Mailed
  <2>2. m <= n
    BY <1>4, <2>1, Counting DEF n, m
  <2> QED BY <1>3, <1>5, <1>7, <2>2
\* One pass moves, and gives its permit away.
<1>8. ASSUME NEW p \in Passes, s1 + o1 + c <= s + o + c1 + 1,
             \A q \in Passes \ {p} : pc'[q] = pc[q] /\ job'[q] = job[q] /\ result'[q] = result[q],
             p \in MailPermits, p \notin MailPermits'
      PROVE  Kept
  <2>1. MailPermits' = MailPermits \ {p}
    BY <1>8 DEF MailPermits, Busy, Mailed
  <2>2. m = n - 1
    BY <1>4, <1>8, <2>1, Counting DEF n, m
  <2>3. s1 + m + o1 + c <= s + n + o + c1
    BY <1>5, <1>8, <2>2
  <2> QED BY <1>3, <1>5, <2>3
<1>9. CASE Beside
  <2>1. s1 = s /\ c1 = c
    BY <1>9, BesideHolds DEF Causes, bounds, s, s1, c, c1
  <2>2. o1 = o
    BY <1>9, BesideHolds DEF MailOpen, Terminal, o, o1
  <2>3. o1 + c <= o + c1
    BY <1>5, <2>1, <2>2
  <2> QED BY <1>6, <1>9, <2>1, <2>3, BesideHolds
<1>10. ASSUME NEW p \in Passes, Enqueue(p) PROVE Kept
  <2>1. \A q \in Passes : pc[q] \in Dispatching \/ pc'[q] \in Dispatching => pc'[q] = pc[q]
    BY <1>1, <1>10 DEF Enqueue, At, Goto, Dispatching
  <2>2. s1 = s /\ c1 = c
    BY <1>10 DEF Enqueue, Causes, Acted, Reading, bounds, s, s1, c, c1
  <2>3. o1 <= o
    <3>1. CASE Exists(outer)
      <4>1. outer' = outer
        BY <1>10, <3>1 DEF Enqueue, Ensure
      <4>2. o1 = o
        BY <2>1, <4>1 DEF MailOpen, Held, HoldsRow, o, o1
      <4> QED BY <1>5, <4>2
    <3>2. CASE ~Exists(outer)
      <4>1. o = 1
        BY <3>2 DEF Exists, MailOpen, o
      <4> QED BY <1>5, <4>1
    <3> QED BY <3>1, <3>2
  <2>4. o1 + c <= o + c1
    BY <1>5, <2>2, <2>3
  <2> QED BY <1>6, <1>10, <2>1, <2>2, <2>4 DEF Enqueue
<1>11. ASSUME NEW p \in Passes, ClaimRow(p) PROVE Kept
  <2>1. /\ pc[p] = "idle" /\ pc'[p] = "deliver" /\ job'[p].fence = outer.fence
        /\ \A q \in Passes \ {p} : pc'[q] = pc[q] /\ job'[q] = job[q] /\ result'[q] = result[q]
        /\ outer'.state = "claimed" /\ outer'.by = p /\ ~outer'.due
    BY <1>1, <1>11 DEF ClaimRow, Claim, Row, At, Goto
  <2>2. s1 = s /\ c1 = c
    BY <1>11 DEF ClaimRow, Causes, Acted, Reading, bounds, s, s1, c, c1
  <2>3. o1 = 0
    BY <2>1 DEF MailOpen, Held, HoldsRow, Dispatching, o1
  <2>4. CASE outer.fence
    <3>1. p \notin MailPermits'
      BY <2>1, <2>4 DEF MailPermits
    <3>2. s1 + o1 + c <= s + o + c1
      BY <1>5, <2>2, <2>3
    <3> QED BY <1>7, <2>1, <3>1, <3>2
  <2>5. CASE ~outer.fence
    <3>1. o = 1
      <4>1. Held = 0 /\ ~Terminal(outer)
        BY <1>11 DEF ClaimRow, Claimable, ClaimExpired, Held, HoldsRow
      <4> QED BY <2>5, <4>1 DEF MailOpen, o
    <3>2. p \notin MailPermits /\ MailPermits' \subseteq MailPermits \cup {p}
      BY <2>1 DEF MailPermits, Busy, Mailed, Dispatching
    <3>3. IsFiniteSet(MailPermits) /\ MailPermits \cup {p} \subseteq Passes
      BY <1>4, Finite
    <3>4. Cardinality(MailPermits \cup {p}) = Cardinality(MailPermits) + 1
      BY <1>4, <3>2, Counting
    <3>5. Cardinality(MailPermits') <= Cardinality(MailPermits \cup {p})
      BY <3>2, <3>3, Counting
    <3>6. m <= n + 1
      BY <3>4, <3>5, <1>5 DEF m, n
    <3> QED BY <1>3, <1>5, <2>2, <2>3, <3>1, <3>6
  <2> QED BY <2>4, <2>5
<1>12. ASSUME NEW p \in Passes, Deliver(p) PROVE Kept
  <2>1. /\ \A q \in Passes \ {p} : pc'[q] = pc[q] /\ job'[q] = job[q] /\ result'[q] = result[q]
        /\ job' = job /\ pc[p] \in Dispatching /\ pc[p] # "record"
        /\ UNCHANGED <<lapses, prunes>> /\ Acted' = Acted
    BY <1>12, DeliverMoves, DeliverHolds DEF bounds
  <2>2. p \in MailPermits <=> ~job[p].fence
    BY <2>1 DEF MailPermits, Busy, Mailed
  <2>3. p \in MailPermits' => ~job[p].fence
    BY <2>1 DEF MailPermits
  <2>4. o1 <= o
    <3>1. /\ outer'.state = outer.state /\ Held' = Held
          /\ outer.fence => outer'.fence
      BY <1>1, <1>12, DeliverMoves, DeliverHolds, FenceOnly
    <3>2. CASE o = 1
      BY <1>5, <3>2
    <3>3. CASE o # 1
      <4>1. o1 = 0
        BY <3>1, <3>3 DEF MailOpen, Terminal, o, o1
      <4> QED BY <1>5, <4>1
    <3> QED BY <3>2, <3>3
  <2>5. CASE sent' = sent /\ hidden' = hidden
    <3>1. s1 = s /\ c1 = c
      BY <2>1, <2>5 DEF Causes, s, s1, c, c1
    <3>2. s1 + o1 + c <= s + o + c1
      BY <1>5, <2>4, <3>1
    <3> QED BY <1>7, <2>1, <2>2, <2>3, <3>2
  <2>6. CASE SendEmail(p) /\ sent' = sent + 1
    <3>1. p \in MailPermits
      BY <1>2, <2>2, <2>6 DEF SendEmail, At, FenceInv
    <3>2. s1 = s + 1
      BY <2>6 DEF s, s1
    <3>3. CASE hidden' = hidden + 1
      <4>1. c1 = c + 1
        <5>1. lapses \in Nat /\ hidden \in Nat /\ Acted \in Nat /\ prunes \in Nat
          BY Numbers
        <5> QED BY <2>1, <3>3, <5>1 DEF Causes, c, c1
      <4>2. s1 + o1 + c <= s + o + c1
        BY <1>5, <2>4, <3>2, <4>1
      <4> QED BY <1>7, <2>1, <3>1, <4>2
    <3>4. CASE Outcome(p, "delivered") /\ hidden' = hidden
      <4>1. p \notin MailPermits'
        BY <1>1, <3>4 DEF MailPermits, Mailed, Outcome, Goto
      <4>2. c1 = c
        BY <2>1, <3>4 DEF Causes, c, c1
      <4>3. s1 + o1 + c <= s + o + c1 + 1
        BY <1>5, <2>4, <3>2, <4>2
      <4> QED BY <1>8, <2>1, <3>1, <4>1, <4>3
    <3>5. sent \in Nat
      BY DEF TypeInv, TypeOK
    <3> QED BY <2>6, <3>3, <3>4, <3>5 DEF SendEmail
  <2>7. DeliverEmail(p) \/ SendEmail(p)
    BY <1>12, MailSteps
  <2> QED BY <2>5, <2>6, <2>7 DEF DeliverEmail, SendEmail
<1>13. ASSUME NEW p \in Passes, Record(p) PROVE Kept
  <2>1. /\ pc[p] = "record" /\ pc'[p] = "idle" /\ result[p] \in Outcomes
        /\ \A q \in Passes \ {p} : pc'[q] = pc[q] /\ job'[q] = job[q] /\ result'[q] = result[q]
    BY <1>1, <1>13 DEF Record, At, Goto, TypeInv, ResultInv
  <2>2. s1 = s /\ c1 = c
    BY <1>13 DEF Record, Causes, Acted, Reading, bounds, s, s1, c, c1
  <2>3. p \notin MailPermits'
    BY <2>1 DEF MailPermits, Busy, Dispatching
  <2>4. CASE p \in MailPermits
    <3>1. s1 + o1 + c <= s + o + c1 + 1
      BY <1>5, <2>2
    <3> QED BY <1>8, <2>1, <2>3, <2>4, <3>1
  \* Without a permit the row is settled, or keeps its fence.
  <2>5. CASE p \notin MailPermits
    <3>1. job[p].fence \/ result[p] = "delivered"
      BY <2>1, <2>5 DEF MailPermits, Busy, Mailed, Dispatching
    <3>2. o1 <= o
      <4>1. CASE ~Exists(outer)
        <5>1. o = 1
          BY <4>1 DEF Exists, MailOpen, o
        <5> QED BY <1>5, <5>1
      <4>2. CASE Exists(outer)
        <5>1. outer'.state = RecordedState(p) /\ outer'.fence = job[p].fence
          BY <1>1, <1>13, <4>2, MarkOnly DEF Record
        <5>2. outer'.state # "none" /\ (Terminal(outer') \/ outer'.fence)
          BY <2>1, <3>1, <5>1 DEF RecordedState, Outcomes, Terminal, TerminalStates
        <5>3. o1 = 0
          BY <5>2 DEF MailOpen, o1
        <5> QED BY <1>5, <5>3
      <4> QED BY <4>1, <4>2
    <3>3. s1 + o1 + c <= s + o + c1
      BY <1>5, <2>2, <3>2
    <3> QED BY <1>7, <2>1, <2>3, <3>3
  <2> QED BY <2>4, <2>5
<1>14. ASSUME NEW p \in Passes, Crash(p) PROVE Kept
  <2>1. /\ pc'[p] = "idle" /\ outer' = outer
        /\ \A q \in Passes \ {p} : pc'[q] = pc[q] /\ job'[q] = job[q] /\ result'[q] = result[q]
    BY <1>1, <1>14 DEF Crash, Goto, rows
  <2>2. s1 = s /\ c1 = c
    BY <1>14 DEF Crash, Causes, Acted, Reading, s, s1, c, c1
  <2>3. p \notin MailPermits'
    BY <2>1 DEF MailPermits, Busy, Dispatching
  <2>4. CASE p \in MailPermits
    <3>1. s1 + o1 + c <= s + o + c1 + 1
      BY <1>5, <2>2
    <3> QED BY <1>8, <2>1, <2>3, <2>4, <3>1
  \* Without a permit a holder leaves the fence set.
  <2>5. CASE p \notin MailPermits
    <3>1. HoldsRow(p) => outer.fence
      BY <1>2, <2>5 DEF FenceInv, HoldsRow, MailPermits, Busy
    <3>2. o1 = o
      <4>1. \A q \in Passes \ {p} : HoldsRow(q)' = HoldsRow(q)
        BY <2>1 DEF HoldsRow
      <4>2. ~HoldsRow(p)'
        BY <2>1 DEF HoldsRow, Dispatching
      <4>3. CASE HoldsRow(p)
        BY <2>1, <3>1, <4>3 DEF MailOpen, o, o1
      <4>4. CASE ~HoldsRow(p)
        <5>1. Held' = Held
          BY <2>1, <4>1, <4>2, <4>4 DEF Held
        <5> QED BY <2>1, <5>1 DEF MailOpen, o, o1
      <4> QED BY <4>3, <4>4
    <3>3. s1 + o1 + c <= s + o + c1
      BY <1>5, <2>2, <3>2
    <3> QED BY <1>7, <2>1, <2>3, <3>3
  <2> QED BY <2>4, <2>5
<1>15. CASE RowComesDue
  <2>1. UNCHANGED <<pc, job, result>> /\ s1 = s
    BY <1>15 DEF RowComesDue, s, s1
  <2>2. /\ lapses \in Nat /\ hidden \in Nat /\ Acted \in Nat /\ prunes \in Nat
        /\ UNCHANGED <<hidden, prunes>> /\ Acted' = Acted
    BY <1>15, Numbers DEF RowComesDue, Acted, Reading
  <2>3. CASE \E p \in Passes : HoldsRow(p)
    <3>1. lapses' = lapses + 1
      BY <1>15, <2>3 DEF RowComesDue
    <3>2. c1 = c + 1
      BY <2>2, <3>1 DEF Causes, c, c1
    <3>3. o1 + c <= o + c1
      BY <1>5, <3>2
    <3> QED BY <1>6, <2>1, <3>3
  <2>4. CASE ~\E p \in Passes : HoldsRow(p)
    <3>1. c1 = c
      BY <1>15, <2>2, <2>4 DEF RowComesDue, Causes, c, c1
    <3>2. outer'.state = outer.state /\ outer'.fence = outer.fence /\ Held = 0 /\ Held' = 0
      BY <1>1, <1>15, <2>4 DEF RowComesDue, Row, Held
    <3>3. o1 = o
      BY <3>2 DEF MailOpen, Terminal, o, o1
    <3>4. o1 + c <= o + c1
      BY <1>5, <3>1, <3>3
    <3> QED BY <1>6, <2>1, <3>4
  <2> QED BY <2>3, <2>4
<1>16. CASE Prune \/ OperatorReopens \/ OperatorCloses
  <2>1. UNCHANGED <<pc, job, result>> /\ s1 = s
    BY <1>16, OperatorMarks DEF Prune, s, s1
  <2>2. lapses \in Nat /\ hidden \in Nat /\ Acted \in Nat /\ prunes \in Nat
    BY Numbers
  <2>3. CASE Prune
    <3>1. UNCHANGED <<lapses, hidden>> /\ Acted' = Acted /\ prunes' = prunes + 1
      BY <2>3 DEF Prune, Acted, Reading
    <3>2. c1 = c + 1
      BY <2>2, <3>1 DEF Causes, c, c1
    <3>3. o1 + c <= o + c1
      BY <1>5, <3>2
    <3> QED BY <1>6, <2>1, <3>3
  <2>4. CASE OperatorReopens \/ OperatorCloses
    <3>1. UNCHANGED <<lapses, hidden, prunes>> /\ Acted' = Acted + 1
      BY <2>4, OperatorMarks DEF bounds
    <3>2. c1 = c + 1
      BY <2>2, <3>1 DEF Causes, c, c1
    <3>3. o1 + c <= o + c1
      BY <1>5, <3>2
    <3> QED BY <1>6, <2>1, <3>3
  <2> QED BY <1>16, <2>3, <2>4
<1>17. CASE OperatorReads
  <2>1. UNCHANGED <<pc, job, result, outer>> /\ s1 = s
    BY <1>17 DEF OperatorReads, rows, s, s1
  <2>2. c1 = c
    BY <1>17, ReadingCounted DEF OperatorReads, Causes, c, c1
  <2>3. o1 = o
    BY <2>1 DEF MailOpen, Held, HoldsRow, o, o1
  <2>4. o1 + c <= o + c1
    BY <1>5, <2>2, <2>3
  <2> QED BY <1>6, <2>1, <2>4
<1> QED BY <1>9, <1>10, <1>11, <1>12, <1>13, <1>14, <1>15, <1>16, <1>17
    DEF Next, Environment, PassSteps, Beside

-----------------------------------------------------------------------------
(* The theorems *)

LEMMA InvInit == Init => Inv
<1> SUFFICES ASSUME Init PROVE Inv
    OBVIOUS
<1>1. TypeInv
    BY TypeInit
<1>2. /\ outer = NoRow /\ inner = NoRow /\ operator = NoRead
      /\ sent = 0 /\ enqueued = 0 /\ crashes = 0 /\ lapses = 0 /\ actions = 0 /\ prunes = 0
      /\ hidden = 0 /\ \A p \in Passes : pc[p] = "idle"
    BY DEF Init
<1>3. /\ Busy = {} /\ Young = {} /\ MailPermits = {} /\ WhatsAppPermits = {}
      /\ \A p \in Passes : ~HoldsRow(p)
    BY <1>2 DEF Busy, Young, MailPermits, WhatsAppPermits, HoldsRow, Dispatching
<1>4. Acted = 0 /\ Faulty = 0 /\ Held = 0 /\ Causes = 0 /\ WhatsAppCauses = 0
    BY <1>2, <1>3 DEF Acted, Reading, Faulty, Held, Causes, WhatsAppCauses
<1>5. ClaimsInv
    BY <1>2, <1>3, <1>4, FS_EmptySet, NotifyAssumption DEF ClaimsInv, NoRow
<1>6. WhatsAppInv /\ MailInv
  <2>1. WhatsAppOpen = 1 /\ MailOpen = 1
    BY <1>2 DEF WhatsAppOpen, MailOpen, NoRow
  <2>2. FenceInv
    BY <1>2, <1>3 DEF FenceInv
  <2> QED BY <1>2, <1>3, <1>4, <2>1, <2>2, FS_EmptySet DEF WhatsAppInv, MailInv
<1>7. EnqueuedInv /\ DeliveredInv /\ HeldInv
    BY <1>2 DEF EnqueuedInv, DeliveredInv, HeldInv, NoRow, Exists, Dispatching
<1> QED BY <1>1, <1>5, <1>6, <1>7 DEF Inv

LEMMA InvNext == Inv /\ [Next]_vars => Inv'
<1> SUFFICES ASSUME Inv, [Next]_vars PROVE Inv'
    OBVIOUS
<1>1. TypeInv'
    BY TypeNext DEF Inv
<1> QED BY <1>1, EnqueuedNext, DeliveredNext, HeldNext, ClaimsNext, WhatsAppNext, MailNext
    DEF Inv

LEMMA InvAlways == Spec => []Inv
BY InvInit, InvNext, PTL DEF Spec

\* The intent of a run is enqueued once, and again only after retention deleted
\* the row, whichever relays die between the insert and the mark (EnqueuedOnce).
THEOREM EnqueuedOnceAlways == Spec => []EnqueuedOnce
<1>1. Inv => EnqueuedOnce
  <2> SUFFICES ASSUME Inv PROVE EnqueuedOnce
      OBVIOUS
  <2>1. enqueued \in Nat /\ prunes \in Nat
      BY DEF Inv, TypeInv, TypeOK
  <2> QED BY <2>1 DEF Inv, EnqueuedInv, EnqueuedOnce
<1> QED BY <1>1, InvAlways, PTL

\* What the outbox calls delivered has reached its channel, unless an operator
\* acted on a row (DeliveredReached).
THEOREM DeliveredReachedAlways == Spec => []DeliveredReached
<1>1. Inv => DeliveredReached
    BY DEF Inv, DeliveredInv, DeliveredReached
<1> QED BY <1>1, InvAlways, PTL

\* A row is claimed as often as is configured, and once more for each pass that
\* dies, is late or is overruled (ClaimsBounded).
THEOREM ClaimsBoundedAlways == Spec => []ClaimsBounded
<1>1. Inv => ClaimsBounded
  <2> SUFFICES ASSUME Inv PROVE ClaimsBounded
      OBVIOUS
  <2>1. /\ Faulty \in Nat /\ Held \in {0, 1} /\ outer.attempts \in Nat /\ MaxAttempts \in Nat
        /\ crashes \in Nat /\ lapses \in Nat /\ actions \in Nat
      BY Numbers DEF Inv, TypeInv, TypeOK
  <2>2. Faulty <= crashes + lapses + actions
      BY <2>1 DEF Faulty, Acted, Reading
  <2>3. Young \in SUBSET Passes
      BY DEF Young, Busy
  <2> DEFINE room == IF Terminal(outer) THEN 1 ELSE Held
             young == Cardinality(Young)
  <2>4. room \in {0, 1} /\ young \in Nat
      BY <2>1, <2>3, Finite
  <2>5. outer.attempts >= MaxAttempts => outer.attempts + young <= MaxAttempts - 1 + Faulty + room
      BY DEF Inv, ClaimsInv
  <2> HIDE DEF room, young
  <2>6. outer.attempts <= MaxAttempts + Faulty
      BY <2>1, <2>4, <2>5
  <2> QED BY <2>1, <2>2, <2>6 DEF ClaimsBounded
<1> QED BY <1>1, InvAlways, PTL

\* A WhatsApp message is accepted once, and again only after an operator or
\* retention made it possible, or where the transport hid an acceptance: sent it
\* again in one call, or threw what the dispatcher takes for a refusal.  Deaths,
\* lapsed claims and answers lost in the open never do (WhatsAppOnce).
THEOREM WhatsAppOnceAlways == Spec => []WhatsAppOnce
<1>1. Inv => WhatsAppOnce
  <2> SUFFICES ASSUME Inv, channel = "whatsapp" PROVE sent <= 1 + hidden + actions + prunes
      BY DEF WhatsAppOnce
  <2>1. /\ sent \in Nat /\ actions \in Nat /\ prunes \in Nat /\ hidden \in Nat
        /\ Acted \in Nat /\ Acted <= actions
      BY Numbers DEF Inv, Acted, Reading
  <2>2. Cardinality(WhatsAppPermits) \in Nat
      BY Finite DEF WhatsAppPermits
  <2>3. sent + Cardinality(WhatsAppPermits) + WhatsAppOpen <= 1 + (hidden + Acted) + prunes
      BY DEF Inv, WhatsAppInv, WhatsAppCauses
  <2>4. WhatsAppOpen \in {0, 1}
      BY DEF WhatsAppOpen
  <2> QED BY <2>1, <2>2, <2>3, <2>4
<1> QED BY <1>1, InvAlways, PTL

\* Acceptances stay hidden only behind a transport that throws after one.
LEMMA NothingHidden ==
    ASSUME "lost" \notin ThrowsAfter
    PROVE  Spec => [](hidden = 0)
<1>1. Init => hidden = 0
  BY DEF Init
<1>2. ASSUME TypeInv, hidden = 0, [Next]_vars PROVE hidden' = 0
  <2>1. ASSUME NEW p \in Passes, Deliver(p) PROVE hidden' = 0
    <3>1. CASE SendEmail(p)
      BY <1>2, <3>1 DEF SendEmail
    <3>2. CASE SendWhatsApp(p)
      <4>1. PICK r \in SendResults, first \in {0}, last \in {0, 1} :
               /\ r = "rejected" => last \in {0}
               /\ hidden' = hidden + first + (IF r = "rejected" THEN last ELSE 0)
        BY <3>2 DEF SendWhatsApp, Unseen
      <4> QED BY <1>2, <4>1
    <3>3. CASE DeliverThread(p) \/ DeliverWebhook(p) \/ DeliverEmail(p) \/ UnresolvedWhatsApp(p)
               \/ EnsureWhatsApp(p) \/ ClaimWhatsApp(p) \/ SettleWhatsApp(p)
      BY <1>2, <3>3 DEF DeliverThread, DeliverWebhook, DeliverEmail, UnresolvedWhatsApp,
         EnsureWhatsApp, ClaimWhatsApp, SettleWhatsApp
    <3> QED BY <2>1, <3>1, <3>2, <3>3 DEF Deliver
  <2>2. CASE (\E p \in Passes : PassSteps(p) /\ ~Deliver(p)) \/ (\E p \in Passes : Crash(p))
    BY <1>2, <2>2 DEF PassSteps, ReadIntent, Enqueue, MarkRelayed, ClaimRow, Record, Crash
  <2>3. CASE OperatorReopens \/ OperatorCloses
    BY <1>2, <2>3, OperatorMarks
  <2>4. CASE \/ RowComesDue \/ WhatsAppClaimExpires \/ Prune \/ Sweep \/ OperatorReads
             \/ UNCHANGED vars
    BY <1>2, <2>4 DEF RowComesDue, WhatsAppClaimExpires, Prune, Sweep, OperatorReads, vars
  <2> QED BY <1>2, <2>1, <2>2, <2>3, <2>4 DEF Next, Environment
<1>3. Inv /\ hidden = 0 /\ [Next]_vars => (hidden = 0)'
  BY <1>2 DEF Inv
<1> QED BY <1>1, <1>3, InvAlways, PTL DEF Spec

\* With transports that never throw after an acceptance, only an operator or
\* retention lets a WhatsApp message be accepted again: on this assumption the
\* dispatcher delivers as its header (lines 2-14) promises.
THEOREM WhatsAppOnceInTheOpen ==
    ASSUME "lost" \notin ThrowsAfter
    PROVE  Spec => [](channel = "whatsapp" => sent <= 1 + actions + prunes)
<1>1. Inv /\ hidden = 0 /\ WhatsAppOnce
        => (channel = "whatsapp" => sent <= 1 + actions + prunes)
  <2>1. Inv => actions \in Nat /\ prunes \in Nat /\ sent \in Nat
    BY Numbers DEF Inv
  <2> QED BY <2>1 DEF WhatsAppOnce
<1> QED BY <1>1, NothingHidden, InvAlways, WhatsAppOnceAlways, PTL

\* A mail is accepted once, and again only for a cause: a claim that ran out
\* under its pass, a transport that threw after it was accepted, an operator or
\* retention; a pass that dies anywhere is none (MailedAgainForCause).
THEOREM MailedAgainForCauseAlways == Spec => []MailedAgainForCause
<1>1. Inv => MailedAgainForCause
  <2> SUFFICES ASSUME Inv, channel = "email"
               PROVE  sent <= 1 + lapses + hidden + actions + prunes
      BY DEF MailedAgainForCause
  <2>1. /\ sent \in Nat /\ actions \in Nat /\ prunes \in Nat /\ lapses \in Nat /\ hidden \in Nat
        /\ Acted \in Nat /\ Acted <= actions
      BY Numbers DEF Inv, Acted, Reading
  <2>2. Cardinality(MailPermits) \in Nat
      BY Finite DEF MailPermits, Busy
  <2>3. sent + Cardinality(MailPermits) + MailOpen <= 1 + Causes
      BY DEF Inv, MailInv
  <2>4. MailOpen \in {0, 1}
      BY DEF MailOpen
  <2> QED BY <2>1, <2>2, <2>3, <2>4 DEF Causes
<1> QED BY <1>1, InvAlways, PTL

\* A settled row is opened again only after a lapse or by an operator, however
\* many passes die or race for it (SettledStays).
THEOREM SettledStaysAlways == Spec => SettledStays
<1>1. Inv /\ [Next]_vars =>
         [Terminal(outer) /\ lapses = 0 /\ actions = 0
          => Terminal(outer') \/ outer' = NoRow]_vars
  <2> SUFFICES ASSUME Inv, [Next]_vars, Terminal(outer), lapses = 0, actions = 0
               PROVE  Terminal(outer') \/ outer' = NoRow
      OBVIOUS
  <2>1. \A p \in Passes : pc[p] \notin Dispatching
      BY DEF Inv, HeldInv, HoldsRow, Terminal, TerminalStates
  <2>2. operator = NoRead
      BY DEF Inv, TypeInv
  <2>3. ASSUME NEW p \in Passes, PassSteps(p) \/ Crash(p) PROVE Terminal(outer')
    <3>1. ~(ClaimRow(p) \/ Deliver(p) \/ Record(p))
      BY <2>1, DeliverMoves DEF ClaimRow, Claimable, Record, At, Dispatching, Inv
    <3>2. outer' = outer
      BY <2>3, <3>1 DEF PassSteps, ReadIntent, MarkRelayed, Enqueue, Ensure, Exists, Terminal,
         TerminalStates, Crash, rows
    <3> QED BY <3>2
  <2>4. CASE Environment
    BY <2>2, <2>4 DEF Environment, RowComesDue, WhatsAppClaimExpires, Prune, Sweep,
       OperatorReads, OperatorReopens, OperatorCloses, rows, Terminal, TerminalStates
  <2>5. CASE UNCHANGED vars
    BY <2>5 DEF vars
  <2> QED BY <2>3, <2>4, <2>5 DEF Next
<1> QED BY <1>1, InvAlways, PTL DEF Spec, SettledStays
=============================================================================
