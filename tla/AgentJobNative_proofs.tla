------------------------ MODULE AgentJobNative_proofs ------------------------
(***************************************************************************)
(* Proofs about AgentJobNative, for any processes and keys, and for any    *)
(* number of attempts, calls, turns nobody awaits, deaths and lapses.      *)
(***************************************************************************)
EXTENDS AgentJobNative, AgentJobLedger_proofs

-----------------------------------------------------------------------------
(* The inductive invariant *)

\* The tables; an approval is about the args that are its key.
DataOK ==
    /\ run \in [sealed : BOOLEAN, cancel : BOOLEAN]
    /\ lease \in [holder : Processes \cup {NoProcess}, live : BOOLEAN]
    /\ attempts \in Seq({"running", "wait", "over"})
    /\ effects \in [Keys -> EffectRow]
    /\ approvals \in Seq(ApprovalRow)
    /\ turns \in Seq(Turn)
    /\ calls \in Seq(Call)
    /\ faults \in Nat
    /\ \A i \in DOMAIN approvals : approvals[i].args = approvals[i].key

\* A driver in an attempt has a turn.
TypeInv ==
    /\ DataOK
    /\ pc \in [Processes -> Steps] /\ cx \in [Processes -> Context]
    /\ \A p \in Processes : pc[p] = "attempt" => cx[p].turn \in DOMAIN turns

\* A call was granted on an approval that is consumed since, and that was the
\* latest of its key at that time.
CallSound(call) ==
    /\ call.approval \in DOMAIN approvals
    /\ call.approval <= call.asked /\ call.asked <= Len(approvals)
    /\ approvals[call.approval].key = call.key
    /\ approvals[call.approval].state = "approved" /\ approvals[call.approval].consumed
    /\ \A i \in DOMAIN approvals :
          approvals[i].key = call.key /\ i <= call.asked => i <= call.approval

\* The calls the provider reports as ok.
DoneCalls(k) == {c \in DOMAIN calls : calls[c].key = k /\ calls[c].state = "done"}

\* How the ledger may account for a call that was granted, whatever became of it.
Accounted(k) ==
    \/ effects[k].state \in {"committed", "unknown"} \/ InDoubt(effects[k])
    \/ effects[k].state = "failed" /\ effects[k].outcome = "expired"
    \/ /\ effects[k].state = "failed" /\ effects[k].outcome = "failed"
       /\ \E c \in DOMAIN calls :
            calls[c].key = k /\ calls[c].state = "failed" /\ calls[c].heard

RowSound(k) ==
    /\ effects[k].args \in {k, NoArgs}
    /\ effects[k].state = "committed" => DoneCalls(k) # {}
    /\ \A c \in DOMAIN calls : calls[c].key = k => Accounted(k)

Inv ==
    /\ TypeInv
    /\ \A c \in DOMAIN calls : CallSound(calls[c])
    /\ RepeatedByPerson
    /\ \A k \in Keys : RowSound(k)

-----------------------------------------------------------------------------
(* The tables *)

LEMMA Consts == Keys \subseteq Args /\ IsFiniteSet(Keys)
BY NativeAssumption

LEMMA Sequences ==
    ASSUME DataOK
    PROVE  /\ Len(approvals) \in Nat /\ DOMAIN approvals = 1..Len(approvals)
           /\ \A i \in DOMAIN approvals : approvals[i] \in ApprovalRow /\ approvals[i].key \in Keys
           /\ Len(calls) \in Nat /\ DOMAIN calls = 1..Len(calls)
           /\ \A c \in DOMAIN calls : calls[c] \in Call /\ calls[c].key \in Keys
           /\ Len(turns) \in Nat /\ DOMAIN turns = 1..Len(turns)
           /\ \A t \in DOMAIN turns : turns[t] \in Turn
           /\ Len(attempts) \in Nat /\ DOMAIN attempts = 1..Len(attempts)
<1>1. /\ Len(approvals) \in Nat /\ DOMAIN approvals = 1..Len(approvals)
      /\ \A i \in DOMAIN approvals : approvals[i] \in ApprovalRow
  BY LenProperties, ElementOfSeq DEF DataOK
<1>2. /\ Len(calls) \in Nat /\ DOMAIN calls = 1..Len(calls)
      /\ \A c \in DOMAIN calls : calls[c] \in Call
  BY LenProperties, ElementOfSeq DEF DataOK
<1>3. /\ Len(turns) \in Nat /\ DOMAIN turns = 1..Len(turns)
      /\ \A t \in DOMAIN turns : turns[t] \in Turn
  BY LenProperties, ElementOfSeq DEF DataOK
<1>4. Len(attempts) \in Nat /\ DOMAIN attempts = 1..Len(attempts)
  BY LenProperties DEF DataOK
<1> QED  BY <1>1, <1>2, <1>3, <1>4 DEF ApprovalRow, Call

\* What every statement on approvals keeps.
ApprovalsStep(aps) ==
    /\ aps \in Seq(ApprovalRow) /\ DOMAIN approvals \subseteq DOMAIN aps
    /\ \A i \in DOMAIN approvals :
          /\ aps[i].key = approvals[i].key
          /\ approvals[i].state = "approved" => aps[i].state = "approved"
          /\ approvals[i].consumed => aps[i].consumed
    /\ \A i \in DOMAIN aps : aps[i].args = aps[i].key

LEMMA SameApprovals == ASSUME DataOK PROVE ApprovalsStep(approvals)
BY DEF DataOK, ApprovalsStep

\* One row changes, if there is one.
LEMMA RowStep ==
    ASSUME DataOK, NEW i, NEW row,
           i \in DOMAIN approvals =>
              /\ row \in ApprovalRow
              /\ row.key = approvals[i].key /\ row.args = approvals[i].args
              /\ approvals[i].state = "approved" => row.state = "approved"
              /\ approvals[i].consumed => row.consumed
    PROVE  ApprovalsStep([approvals EXCEPT ![i] = row])
<1>1. /\ [approvals EXCEPT ![i] = row] \in Seq(ApprovalRow)
      /\ DOMAIN [approvals EXCEPT ![i] = row] = DOMAIN approvals
  BY ExceptInSeq DEF DataOK
<1> QED  BY <1>1 DEF ApprovalsStep, DataOK

LEMMA ExpireStep ==
    ASSUME DataOK, NEW i
    PROVE  ApprovalsStep(ExpireApproval(approvals, i))
<1> DEFINE row == [approvals[i] EXCEPT !.state = "expired"]
<1>1. CASE approvals[i].state = "pending"
  <2>1. i \in DOMAIN approvals => /\ row \in ApprovalRow /\ row.key = approvals[i].key
                                  /\ row.args = approvals[i].args
                                  /\ row.consumed = approvals[i].consumed
    BY Sequences DEF ApprovalRow, ApprovalStates
  <2>2. ExpireApproval(approvals, i) = [approvals EXCEPT ![i] = row]
    BY <1>1 DEF ExpireApproval
  <2> HIDE DEF row
  <2>3. ApprovalsStep([approvals EXCEPT ![i] = row])
    BY <1>1, <2>1, RowStep
  <2> QED  BY <2>2, <2>3
<1>2. CASE approvals[i].state # "pending"
  BY <1>2, SameApprovals DEF ExpireApproval
<1> QED  BY <1>1, <1>2

LEMMA ConsumeStep ==
    ASSUME DataOK, NEW i \in DOMAIN approvals, approvals[i].state = "approved"
    PROVE  /\ ApprovalsStep(ConsumeApproval(approvals, i))
           /\ DOMAIN ConsumeApproval(approvals, i) = DOMAIN approvals
           /\ Len(ConsumeApproval(approvals, i)) = Len(approvals)
           /\ ConsumeApproval(approvals, i)[i].consumed
           /\ ConsumeApproval(approvals, i)[i].state = "approved"
<1> DEFINE row == [approvals[i] EXCEPT !.consumed = TRUE]
<1>1. CASE ~approvals[i].consumed
  <2>1. /\ row \in ApprovalRow /\ row.key = approvals[i].key /\ row.args = approvals[i].args
        /\ row.consumed /\ row.state = approvals[i].state
    BY Sequences DEF ApprovalRow
  <2>2. ConsumeApproval(approvals, i) = [approvals EXCEPT ![i] = row]
    BY <1>1 DEF ConsumeApproval
  <2> HIDE DEF row
  <2>3. ApprovalsStep([approvals EXCEPT ![i] = row])
    BY <2>1, RowStep
  <2>4. /\ [approvals EXCEPT ![i] = row][i] = row
        /\ DOMAIN [approvals EXCEPT ![i] = row] = DOMAIN approvals
        /\ Len([approvals EXCEPT ![i] = row]) = Len(approvals)
    BY <2>1, ExceptInSeq DEF DataOK
  <2> QED  BY <2>1, <2>2, <2>3, <2>4
<1>2. CASE approvals[i].consumed
  BY <1>2, SameApprovals DEF ConsumeApproval
<1> QED  BY <1>1, <1>2

LEMMA CreateStep ==
    ASSUME DataOK, NEW k \in Keys, NEW reason \in GateReasons
    PROVE  ApprovalsStep(CreateApproval(approvals, k, k, reason))
<1> DEFINE row == [key |-> k, args |-> k, reason |-> reason, state |-> "pending",
                   due |-> FALSE, consumed |-> FALSE]
<1>1. row \in ApprovalRow /\ row.key = k /\ row.args = k
  BY Consts DEF ApprovalRow, ApprovalStates
<1>2. CreateApproval(approvals, k, k, reason) = Append(approvals, row)
  BY DEF CreateApproval
<1> HIDE DEF row
<1>3. /\ Append(approvals, row) \in Seq(ApprovalRow)
      /\ Len(Append(approvals, row)) = Len(approvals) + 1
      /\ \A i \in 1..Len(approvals) : Append(approvals, row)[i] = approvals[i]
      /\ Append(approvals, row)[Len(approvals) + 1] = row
  BY <1>1, AppendProperties DEF DataOK
<1>4. DOMAIN Append(approvals, row) = 1..(Len(approvals) + 1)
  BY <1>3, LenProperties
<1>5. Len(approvals) \in Nat /\ DOMAIN approvals = 1..Len(approvals)
  BY Sequences
<1>6. ApprovalsStep(Append(approvals, row))
  BY <1>1, <1>3, <1>4, <1>5 DEF ApprovalsStep, DataOK
<1> QED  BY <1>2, <1>6

\* The row a call is bound to is the latest of its key.
LEMMA LatestFacts ==
    ASSUME DataOK, NEW k \in Keys, Latest(k) # 0
    PROVE  /\ Latest(k) \in DOMAIN approvals /\ approvals[Latest(k)].key = k
           /\ ~approvals[Latest(k)].consumed
           /\ \A i \in DOMAIN approvals : approvals[i].key = k => i <= Latest(k)
<1> DEFINE rows == MatchingApprovals(approvals, k, k)
           i == FindApproval(approvals, k, k)
<1>1. i # 0 /\ ~approvals[i].consumed /\ Latest(k) = i
  BY DEF Latest
<1>2. rows \in SUBSET (1..Len(approvals)) /\ Len(approvals) \in Nat
  BY Sequences DEF MatchingApprovals
<1>3. rows # {}
  BY <1>1 DEF FindApproval
<1>4. \E j \in rows : \A n \in rows : n <= j
  BY <1>2, <1>3, LargestIn
<1>5. i \in rows /\ \A n \in rows : n <= i
  BY <1>3, <1>4 DEF FindApproval
<1>6. \A n \in DOMAIN approvals : approvals[n].key = k => n \in rows
  BY DEF MatchingApprovals, DataOK
<1> QED  BY <1>1, <1>5, <1>6 DEF MatchingApprovals

-----------------------------------------------------------------------------
(* Shapes of steps *)

LEMMA SequenceFacts ==
    ASSUME Inv
    PROVE  DataOK /\ TypeInv
BY DEF Inv, TypeInv

\* The calls stay, but for their state: what is known of them stays.
LEMMA KeepsInv ==
    ASSUME Inv, TypeInv', ApprovalsStep(approvals'), DOMAIN calls' = DOMAIN calls,
           \A c \in DOMAIN calls : /\ calls'[c].key = calls[c].key
                                   /\ calls'[c].approval = calls[c].approval
                                   /\ calls'[c].asked = calls[c].asked,
           \A k \in Keys : RowSound(k)'
    PROVE  Inv'
<1>1. /\ DOMAIN approvals = 1..Len(approvals) /\ Len(approvals) \in Nat
      /\ DOMAIN approvals' = 1..Len(approvals') /\ Len(approvals') \in Nat
      /\ Len(approvals) <= Len(approvals')
  <2>1. DOMAIN approvals = 1..Len(approvals) /\ Len(approvals) \in Nat
    BY Sequences, SequenceFacts
  <2>2. DOMAIN approvals' = 1..Len(approvals') /\ Len(approvals') \in Nat
    BY LenProperties DEF ApprovalsStep
  <2> QED  BY <2>1, <2>2 DEF ApprovalsStep
<1>2. ASSUME NEW c \in DOMAIN calls PROVE CallSound(calls[c])'
  <2>1. CallSound(calls[c]) /\ calls[c] \in Call
    BY Sequences, SequenceFacts DEF Inv
  <2>2. calls[c].asked \in Nat /\ calls[c].approval \in Nat
    BY <2>1 DEF Call
  <2>3. calls'[c].key = calls[c].key /\ calls'[c].approval = calls[c].approval
        /\ calls'[c].asked = calls[c].asked
    OBVIOUS
  <2>4. \A i \in DOMAIN approvals' : i <= calls[c].asked => i \in DOMAIN approvals
    BY <1>1, <2>1, <2>2 DEF CallSound
  <2> QED  BY <1>1, <2>1, <2>2, <2>3, <2>4 DEF CallSound, ApprovalsStep
<1>3. RepeatedByPerson'
  <2> SUFFICES ASSUME NEW i \in DOMAIN calls, NEW j \in DOMAIN calls, i < j,
                      calls'[i].key = calls'[j].key
               PROVE  /\ calls'[j].approval > calls'[i].asked
                      /\ approvals'[calls'[j].approval].state = "approved"
    BY DEF RepeatedByPerson
  <2>1. CallSound(calls[j])'
    BY <1>2
  <2> QED  BY <2>1 DEF RepeatedByPerson, Inv, CallSound
<1> QED  BY <1>2, <1>3 DEF Inv

\* A step on approvals, or on nothing, under the calls and effects as they are.
LEMMA QuietInv ==
    ASSUME Inv, TypeInv', ApprovalsStep(approvals'), UNCHANGED <<effects, calls>>
    PROVE  Inv'
<1>1. \A k \in Keys : RowSound(k)'
  BY DEF Inv, RowSound, Accounted, DoneCalls
<1> QED  BY <1>1, KeepsInv

\* A step on one effect that takes nothing out of the account.
LEMMA EffectInv ==
    ASSUME Inv, TypeInv', ApprovalsStep(approvals'), UNCHANGED calls, NEW k, NEW row,
           SetEffect(k, row),
           k \in Keys =>
              \/ row = effects[k]
              \/ row.state = "unknown" /\ row.args = effects[k].args
              \/ row.state = "failed" /\ row.outcome = "expired" /\ row.args = effects[k].args
    PROVE  Inv'
<1>1. \A j \in Keys : effects'[j] = IF j = k THEN row ELSE effects[j]
  BY SequenceFacts DEF DataOK, SetEffect
<1>2. ASSUME NEW j \in Keys PROVE RowSound(j)'
  <2>1. RowSound(j) /\ DoneCalls(j)' = DoneCalls(j)
    BY DEF Inv, DoneCalls
  <2>2. CASE j = k /\ row # effects[k]
    BY <1>1, <2>1, <2>2 DEF RowSound, Accounted
  <2>3. CASE ~(j = k /\ row # effects[k])
    <3>1. effects'[j] = effects[j]
      BY <1>1, <2>3
    <3> QED  BY <2>1, <3>1 DEF RowSound, Accounted
  <2> QED  BY <2>2, <2>3
<1> QED  BY <1>2, KeepsInv

\* A driver moves, and the tables keep their types.
LEMMA DriverType ==
    ASSUME TypeInv, NEW p \in Processes, NEW l \in Steps, NEW c \in Context,
           pc' = [pc EXCEPT ![p] = l], cx' = [cx EXCEPT ![p] = c],
           DataOK', DOMAIN turns \subseteq DOMAIN turns',
           l = "attempt" => c.turn \in DOMAIN turns'
    PROVE  TypeInv'
BY DEF TypeInv

\* A driver moves and keeps what it holds.
LEMMA GotoType ==
    ASSUME TypeInv, NEW p \in Processes, NEW l \in Steps, l # "attempt",
           Goto(p, l), cx' = cx, DataOK', DOMAIN turns \subseteq DOMAIN turns'
    PROVE  TypeInv'
<1>1. cx' = [cx EXCEPT ![p] = cx[p]] /\ cx[p] \in Context /\ pc' = [pc EXCEPT ![p] = l]
  BY DEF TypeInv, Goto
<1> QED  BY <1>1, DriverType

LEMMA StillType ==
    ASSUME TypeInv, UNCHANGED driver, DataOK', DOMAIN turns \subseteq DOMAIN turns'
    PROVE  TypeInv'
BY DEF TypeInv, driver

LEMMA ContextPieces ==
    /\ Nothing \in Context
    /\ \A n \in Nat, m \in Nat : [Nothing EXCEPT !.rows = n, !.turn = m] \in Context
    /\ \A n \in Nat : [Nothing EXCEPT !.rows = n] \in Context
    /\ \A c \in Context :
         /\ \A t \in SUBSET Keys : [c EXCEPT !.todo = t] \in Context
         /\ \A a \in Aborts : [c EXCEPT !.abort = a] \in Context
         /\ \A i \in Nat, n \in Nat : [c EXCEPT !.ask = i, !.rows = n] \in Context
         /\ \A o \in Results \cup Aborts, i \in Nat : [c EXCEPT !.out = o, !.ask = i] \in Context
<1>1. Nothing \in Context
  BY DEF Nothing, Context, Results, Aborts
<1> QED  BY <1>1, Zenon DEF Context

\* A turn changes, if there is one.
LEMMA TurnStep ==
    ASSUME DataOK, NEW t, NEW row, t \in DOMAIN turns => row \in Turn
    PROVE  /\ [turns EXCEPT ![t] = row] \in Seq(Turn)
           /\ DOMAIN [turns EXCEPT ![t] = row] = DOMAIN turns
BY ExceptInSeq DEF DataOK

LEMMA TurnPieces ==
    ASSUME NEW r \in Turn
    PROVE  /\ \A o \in Results, i \in Nat, x \in {"on", "stopping", "over"} :
                 [r EXCEPT !.state = x, !.out = o, !.ask = i] \in Turn
           /\ \A o \in Results, x \in {"on", "stopping", "over"} : [r EXCEPT !.state = x, !.out = o] \in Turn
           /\ \A o \in Results, i \in Nat : [r EXCEPT !.out = o, !.ask = i] \in Turn
           /\ r.out \in Results /\ r.ask \in Nat
<1>1. \A o \in Results, i \in Nat, x \in {"on", "stopping", "over"} :
         [r EXCEPT !.state = x, !.out = o, !.ask = i] \in Turn
  BY Zenon DEF Turn
<1>2. \A o \in Results, x \in {"on", "stopping", "over"} : [r EXCEPT !.state = x, !.out = o] \in Turn
  BY Zenon DEF Turn
<1>3. \A o \in Results, i \in Nat : [r EXCEPT !.out = o, !.ask = i] \in Turn
  BY Zenon DEF Turn
<1> QED  BY <1>1, <1>2, <1>3 DEF Turn

-----------------------------------------------------------------------------
(* The hook *)

LEMMA StopTurnType ==
    ASSUME DataOK, NEW t \in DOMAIN turns, NEW out \in Results, NEW ask \in Nat,
           StopTurn(t, out, ask)
    PROVE  turns' \in Seq(Turn) /\ DOMAIN turns' = DOMAIN turns
<1> DEFINE o == IF Awaited(t) THEN out ELSE "none"
           i == IF Awaited(t) THEN ask ELSE 0
           r == [turns[t] EXCEPT !.state = "stopping", !.out = o, !.ask = i]
<1>1. o \in Results /\ i \in Nat /\ turns[t] \in Turn
  BY Sequences DEF Results
<1>2. r \in Turn
  BY <1>1, TurnPieces
<1>3. turns' = [turns EXCEPT ![t] = r]
  BY Zenon DEF StopTurn
<1> HIDE DEF r
<1> QED  BY <1>2, <1>3, TurnStep

\* The hook stops a turn, and asks or expires an approval on the way.
LEMMA HookStopsInv ==
    ASSUME Inv, NEW t \in DOMAIN turns, NEW out \in Results, NEW ask \in Nat,
           StopTurn(t, out, ask), ApprovalsStep(approvals'),
           UNCHANGED <<run, lease, attempts, effects, driver, calls, faults>>
    PROVE  Inv'
<1>1. turns' \in Seq(Turn) /\ DOMAIN turns' = DOMAIN turns
  BY SequenceFacts, StopTurnType
<1>2. DataOK'
  BY <1>1, SequenceFacts DEF DataOK, ApprovalsStep
<1>3. TypeInv'
  BY <1>1, <1>2, SequenceFacts, StillType
<1> QED  BY <1>3, QuietInv

LEMMA HookAnswersInv ==
    ASSUME Inv, NEW t \in DOMAIN turns, NEW k \in Keys,
           HookCancels(t) \/ HookWaits(t, k) \/ HookExpires(t, k) \/ HookAsks(t, k)
    PROVE  Inv'
<1>1. DataOK /\ Len(approvals) + 1 \in Nat /\ 0 \in Nat
      /\ {"cancelled", "park", "expired"} \subseteq Results
  BY SequenceFacts, Sequences DEF Results
<1>2. CASE HookCancels(t)
  BY <1>1, <1>2, SameApprovals, HookStopsInv DEF HookCancels, tables
<1>3. CASE HookWaits(t, k)
  <2>1. Latest(k) \in Nat
    BY <1>1, <1>3, LatestFacts, Sequences DEF HookWaits
  <2> QED  BY <1>1, <1>3, <2>1, SameApprovals, HookStopsInv DEF HookWaits, tables
<1>4. CASE HookExpires(t, k)
  <2>1. Latest(k) \in Nat
    BY <1>1, <1>4, LatestFacts, Sequences DEF HookExpires
  <2>2. ApprovalsStep(approvals')
    BY <1>1, <1>4, ExpireStep DEF HookExpires
  <2> QED  BY <1>1, <1>4, <2>1, <2>2, HookStopsInv DEF HookExpires
<1>5. CASE HookAsks(t, k)
  <2>1. ApprovalsStep(approvals')
    BY <1>1, <1>5, CreateStep DEF HookAsks, GateReasons
  <2> QED  BY <1>1, <1>5, <2>1, HookStopsInv DEF HookAsks
<1> QED  BY <1>2, <1>3, <1>4, <1>5

\* What a grant makes of an effect: in doubt, or committed if it was.
LEMMA GrantedRow ==
    ASSUME NEW k \in Keys, NEW row \in EffectRow, row.args \in {k, NoArgs}
    PROVE  /\ Granted(row, k) \in EffectRow /\ Granted(row, k).args \in {k, NoArgs}
           /\ Granted(row, k).state = "committed" <=> row.state = "committed"
           /\ Granted(row, k).state = "committed" \/ InDoubt(Granted(row, k))
<1> DEFINE i == Intend(row, k)
           o == IF i.state \in {"unknown", "failed"} THEN Reopen(i) ELSE i
<1>1. i \in EffectRow /\ i.state # "none" /\ i.args \in {k, NoArgs}
      /\ (i.state = "committed" <=> row.state = "committed")
  BY Consts DEF Intend, EffectRow, EffectStates, Outcomes
<1> HIDE DEF i
<1>2. o \in EffectRow /\ o.state \in {"intended", "committed"} /\ o.args \in {k, NoArgs}
      /\ (o.state = "committed" <=> row.state = "committed")
  BY <1>1, EffectRowOps DEF Reopen, EffectRow, EffectStates
<1>3. Granted(row, k) = MarkDispatched(o)
  BY DEF Granted, i
<1> HIDE DEF o
<1>4. /\ MarkDispatched(o) \in EffectRow /\ MarkDispatched(o).args \in {k, NoArgs}
      /\ MarkDispatched(o).state = o.state
      /\ o.state = "intended" => MarkDispatched(o).dispatched
  BY <1>2, EffectRowOps DEF MarkDispatched, EffectRow
<1> QED  BY <1>2, <1>3, <1>4 DEF InDoubt

LEMMA HookGrantsInv ==
    ASSUME Inv, NEW t \in DOMAIN turns, NEW k \in Keys, HookGrants(t, k)
    PROVE  Inv'
<1> DEFINE a == Latest(k)
           new == [key |-> k, turn |-> t, approval |-> a, state |-> "granted",
                   heard |-> FALSE, asked |-> Len(approvals)]
           row == Granted(effects[k], k)
           n == Len(calls)
<1>1. /\ DataOK /\ a \in DOMAIN approvals /\ approvals[a].key = k /\ ~approvals[a].consumed
      /\ \A i \in DOMAIN approvals : approvals[i].key = k => i <= a
  BY SequenceFacts, LatestFacts DEF HookGrants
<1>2. /\ Len(approvals) \in Nat /\ DOMAIN approvals = 1..Len(approvals) /\ a \in Nat
      /\ n \in Nat /\ DOMAIN calls = 1..n /\ t \in Nat
      /\ \A c \in DOMAIN calls : calls[c] \in Call
  BY <1>1, Sequences
<1>3. /\ approvals[a].state = "approved" /\ approvals' = ConsumeApproval(approvals, a)
      /\ SetEffect(k, row) /\ calls' = Append(calls, new)
      /\ UNCHANGED <<run, lease, attempts, driver, turns, faults>>
  BY DEF HookGrants
<1>4. /\ ApprovalsStep(approvals') /\ DOMAIN approvals' = DOMAIN approvals
      /\ Len(approvals') = Len(approvals)
      /\ approvals'[a].consumed /\ approvals'[a].state = "approved"
  BY <1>1, <1>3, ConsumeStep
<1>5. /\ row \in EffectRow /\ row.args \in {k, NoArgs}
      /\ row.state = "committed" <=> effects[k].state = "committed"
      /\ row.state = "committed" \/ InDoubt(row)
  BY <1>1, GrantedRow DEF DataOK, Inv, RowSound
<1>6. /\ new \in Call /\ new.key = k /\ new.approval = a /\ new.asked = Len(approvals)
      /\ new.state = "granted"
  BY <1>1, <1>2 DEF Call
<1> HIDE DEF row, new
<1>7. /\ calls' \in Seq(Call) /\ DOMAIN calls' = 1..(n + 1) /\ calls'[n + 1] = new
      /\ \A c \in 1..n : calls'[c] = calls[c]
  <2>1. /\ calls' \in Seq(Call) /\ Len(calls') = n + 1 /\ calls'[n + 1] = new
        /\ \A c \in 1..n : calls'[c] = calls[c]
    BY <1>1, <1>3, <1>6, AppendProperties DEF DataOK
  <2> QED  BY <2>1, LenProperties
<1>8. \A j \in Keys : effects'[j] = IF j = k THEN row ELSE effects[j]
  BY <1>1, <1>3 DEF SetEffect, DataOK
<1>9. TypeInv'
  <2>1. effects' \in [Keys -> EffectRow]
    BY <1>1, <1>3, <1>5 DEF SetEffect, DataOK
  <2>2. DataOK'
    BY <1>1, <1>3, <1>4, <1>7, <2>1 DEF DataOK, ApprovalsStep
  <2> QED  BY <1>3, <2>2, SequenceFacts, StillType
<1>10. ASSUME NEW c \in DOMAIN calls' PROVE CallSound(calls[c])'
  <2>1. CASE c = n + 1
    <3>1. /\ calls'[c].key = k /\ calls'[c].approval = a
          /\ calls'[c].asked = Len(approvals')
      BY <1>4, <1>6, <1>7, <2>1
    <3>2. a \in DOMAIN approvals' /\ a <= Len(approvals') /\ approvals'[a].key = k
      BY <1>1, <1>2, <1>4 DEF ApprovalsStep
    <3>3. \A i \in DOMAIN approvals' : approvals'[i].key = k => i <= a
      BY <1>1, <1>4 DEF ApprovalsStep
    <3>4. Len(approvals') <= Len(approvals')
      BY <1>2, <1>4
    <3> QED  BY <1>4, <3>1, <3>2, <3>3, <3>4 DEF CallSound
  <2>2. CASE c # n + 1
    <3>1. c \in DOMAIN calls /\ calls'[c] = calls[c] /\ CallSound(calls[c])
      BY <1>2, <1>7, <2>2 DEF Inv
    <3> QED  BY <1>4, <3>1 DEF CallSound, ApprovalsStep
  <2> QED  BY <2>1, <2>2
<1>11. RepeatedByPerson'
  <2> SUFFICES ASSUME NEW i \in DOMAIN calls', NEW j \in DOMAIN calls', i < j,
                      calls'[i].key = calls'[j].key
               PROVE  /\ calls'[j].approval > calls'[i].asked
                      /\ approvals'[calls'[j].approval].state = "approved"
    BY DEF RepeatedByPerson
  <2>1. i \in 1..n /\ calls'[i] = calls[i] /\ CallSound(calls[i]) /\ calls[i] \in Call
    BY <1>2, <1>7 DEF Inv
  <2>2. CASE j = n + 1
    <3>1. calls[i].key = k /\ calls'[j] = new
      BY <1>6, <1>7, <2>1, <2>2
    <3>2. ~(a <= calls[i].asked)
      <4>1. SUFFICES ASSUME a <= calls[i].asked PROVE FALSE
        OBVIOUS
      <4>2. a <= calls[i].approval /\ calls[i].approval <= a
        BY <1>1, <2>1, <3>1, <4>1 DEF CallSound
      <4>3. calls[i].approval = a
        BY <1>2, <2>1, <4>2 DEF Call
      <4> QED  BY <1>1, <2>1, <4>3 DEF CallSound
    <3>3. calls[i].asked \in Nat
      BY <2>1 DEF Call
    <3> QED  BY <1>2, <1>4, <1>6, <2>1, <3>1, <3>2, <3>3
  <2>3. CASE j # n + 1
    <3>1. j \in DOMAIN calls /\ i \in DOMAIN calls /\ calls'[j] = calls[j]
      BY <1>2, <1>7, <2>1, <2>3
    <3>2. CallSound(calls[j])'
      BY <1>10
    <3> QED  BY <2>1, <3>1, <3>2 DEF RepeatedByPerson, Inv, CallSound
  <2> QED  BY <2>2, <2>3
<1>12. ASSUME NEW j \in Keys PROVE RowSound(j)'
  <2>1. RowSound(j) /\ DoneCalls(j) \subseteq DoneCalls(j)'
    BY <1>2, <1>7 DEF Inv, DoneCalls
  <2>2. CASE j = k
    BY <1>5, <1>8, <2>1, <2>2 DEF RowSound, Accounted
  <2>3. CASE j # k
    <3>1. effects'[j] = effects[j]
      BY <1>8, <2>3
    <3>2. \A c \in DOMAIN calls' : calls'[c].key = j => c \in DOMAIN calls /\ calls'[c] = calls[c]
      BY <1>2, <1>6, <1>7, <2>3
    <3>3. Accounted(j) => Accounted(j)'
      BY <1>2, <1>7, <3>1 DEF Accounted
    <3> QED  BY <2>1, <3>1, <3>2, <3>3 DEF RowSound
  <2> QED  BY <2>2, <2>3
<1> QED  BY <1>9, <1>10, <1>11, <1>12 DEF Inv

-----------------------------------------------------------------------------
(* The provider *)

\* One call changes its state or is heard of.
LEMMA CallStep ==
    ASSUME DataOK, NEW c \in DOMAIN calls, NEW r \in Call,
           r.key = calls[c].key, r.approval = calls[c].approval, r.asked = calls[c].asked,
           calls' = [calls EXCEPT ![c] = r]
    PROVE  /\ calls' \in Seq(Call) /\ DOMAIN calls' = DOMAIN calls
           /\ \A d \in DOMAIN calls : /\ calls'[d] = IF d = c THEN r ELSE calls[d]
                                      /\ calls'[d].key = calls[d].key
                                      /\ calls'[d].approval = calls[d].approval
                                      /\ calls'[d].asked = calls[d].asked
<1>1. calls' \in Seq(Call) /\ DOMAIN calls' = DOMAIN calls
  BY ExceptInSeq DEF DataOK
<1>2. \A d \in DOMAIN calls : calls'[d] = IF d = c THEN r ELSE calls[d]
  OBVIOUS
<1> QED  BY <1>1, <1>2

LEMMA CallEndsInv ==
    ASSUME Inv, NEW c \in DOMAIN calls, CallEnds(c)
    PROVE  Inv'
<1>1. PICK s \in {"done", "failed"} : calls' = [calls EXCEPT ![c] = [calls[c] EXCEPT !.state = s]]
  BY DEF CallEnds
<1> DEFINE r == [calls[c] EXCEPT !.state = s]
<1>2. calls[c] \in Call /\ calls[c].state = "granted" /\ DataOK
  BY SequenceFacts, Sequences DEF CallEnds
<1>3. r \in Call /\ r.key = calls[c].key /\ r.approval = calls[c].approval
      /\ r.asked = calls[c].asked /\ r.state = s
  BY <1>2 DEF Call
<1>4. calls' = [calls EXCEPT ![c] = r]
  BY <1>1
<1> HIDE DEF r
<1>5. /\ calls' \in Seq(Call) /\ DOMAIN calls' = DOMAIN calls
      /\ \A d \in DOMAIN calls : /\ calls'[d] = IF d = c THEN r ELSE calls[d]
                                 /\ calls'[d].key = calls[d].key
                                 /\ calls'[d].approval = calls[d].approval
                                 /\ calls'[d].asked = calls[d].asked
  BY <1>2, <1>3, <1>4, CallStep
<1>6. UNCHANGED <<run, lease, attempts, tables, driver, turns, faults>>
  BY DEF CallEnds
<1>7. TypeInv'
  <2>1. DataOK'
    BY <1>2, <1>5, <1>6 DEF DataOK, tables
  <2> QED  BY <1>6, <2>1, SequenceFacts, StillType
<1>8. ApprovalsStep(approvals')
  BY <1>2, <1>6, SameApprovals DEF tables
<1>9. ASSUME NEW k \in Keys PROVE RowSound(k)'
  <2>1. RowSound(k) /\ effects'[k] = effects[k]
    BY <1>6 DEF Inv, tables
  <2>2. DoneCalls(k) \subseteq DoneCalls(k)'
    BY <1>2, <1>5 DEF DoneCalls
  <2>3. Accounted(k) => Accounted(k)'
    BY <1>2, <1>5, <2>1 DEF Accounted
  <2> QED  BY <1>5, <2>1, <2>2, <2>3 DEF RowSound
<1> QED  BY <1>5, <1>7, <1>8, <1>9, KeepsInv

LEMMA CompletedInv ==
    ASSUME Inv, NEW c \in DOMAIN calls, Completed(c)
    PROVE  Inv'
<1> DEFINE r == [calls[c] EXCEPT !.heard = TRUE]
           k == calls[c].key
           row == Settled(effects[k], calls[c].state = "done")
<1>1. /\ calls[c] \in Call /\ calls[c].state # "granted" /\ DataOK /\ k \in Keys
      /\ effects[k] \in EffectRow
  BY SequenceFacts, Sequences DEF Completed, DataOK
<1>2. /\ r \in Call /\ r.key = calls[c].key /\ r.approval = calls[c].approval
      /\ r.asked = calls[c].asked /\ r.state = calls[c].state /\ r.heard
  BY <1>1 DEF Call
<1>3. calls' = [calls EXCEPT ![c] = r] /\ SetEffect(k, row)
      /\ UNCHANGED <<run, lease, attempts, approvals, driver, turns, faults>>
  BY DEF Completed
<1>4. /\ row \in EffectRow /\ row.args = effects[k].args
      /\ row.state = "none" <=> effects[k].state = "none"
      /\ \/ row = effects[k]
         \/ row.state = "committed" /\ calls[c].state = "done"
         \/ row.state = "failed" /\ row.outcome = "failed" /\ calls[c].state = "failed"
  <2>1. "failed" \in Outcomes
    BY DEF Outcomes
  <2>2. CASE effects[k].state = "intended" /\ calls[c].state = "done"
    <3>1. row = Commit(effects[k])
      BY <2>2 DEF Settled
    <3> QED  BY <1>1, <2>2, <3>1, EffectRowOps DEF Commit, EffectRow
  <2>3. CASE effects[k].state = "intended" /\ calls[c].state # "done"
    <3>1. row = Fail(effects[k], "failed") /\ calls[c].state = "failed"
      BY <1>1, <2>3 DEF Settled, Call
    <3> QED  BY <1>1, <2>1, <2>3, <3>1, EffectRowOps DEF Fail, EffectRow
  <2>4. CASE effects[k].state # "intended"
    BY <1>1, <2>4 DEF Settled
  <2> QED  BY <2>2, <2>3, <2>4
<1> HIDE DEF r, row
<1>5. /\ calls' \in Seq(Call) /\ DOMAIN calls' = DOMAIN calls
      /\ \A d \in DOMAIN calls : /\ calls'[d] = IF d = c THEN r ELSE calls[d]
                                 /\ calls'[d].key = calls[d].key
                                 /\ calls'[d].approval = calls[d].approval
                                 /\ calls'[d].asked = calls[d].asked
  BY <1>1, <1>2, <1>3, CallStep
<1>6. \A j \in Keys : effects'[j] = IF j = k THEN row ELSE effects[j]
  BY <1>1, <1>3 DEF SetEffect, DataOK
<1>7. TypeInv'
  <2>1. effects' \in [Keys -> EffectRow]
    BY <1>1, <1>3, <1>4 DEF SetEffect, DataOK
  <2>2. DataOK'
    BY <1>1, <1>3, <1>5, <2>1 DEF DataOK
  <2> QED  BY <1>3, <2>2, SequenceFacts, StillType
<1>8. ApprovalsStep(approvals')
  BY <1>1, <1>3, SameApprovals
<1>9. ASSUME NEW j \in Keys PROVE RowSound(j)'
  <2>1. RowSound(j) /\ \A d \in DOMAIN calls : calls'[d].state = calls[d].state
    BY <1>2, <1>5 DEF Inv
  <2>2. DoneCalls(j)' = DoneCalls(j)
    BY <1>5, <2>1 DEF DoneCalls
  <2>3. effects'[j] = effects[j] => (Accounted(j) => Accounted(j)')
    BY <1>2, <1>5, <2>1 DEF Accounted
  <2>4. CASE j = k /\ row # effects[k]
    <3>1. row.state = "committed" => c \in DoneCalls(j)
      BY <1>4, <2>4 DEF DoneCalls
    <3>2. Accounted(j)'
      BY <1>2, <1>4, <1>5, <1>6, <2>4 DEF Accounted
    <3>3. effects'[j].args = effects[j].args /\ effects[j].state # "none"
      BY <1>1, <1>4, <1>6, <2>4 DEF Settled, row
    <3> QED  BY <1>6, <2>1, <2>2, <2>4, <3>1, <3>2, <3>3 DEF RowSound
  <2>5. CASE ~(j = k /\ row # effects[k])
    <3>1. effects'[j] = effects[j]
      BY <1>6, <2>5
    <3> QED  BY <1>5, <2>1, <2>2, <2>3, <3>1 DEF RowSound
  <2> QED  BY <2>4, <2>5
<1> QED  BY <1>5, <1>7, <1>8, <1>9, KeepsInv

LEMMA TurnReturnsInv ==
    ASSUME Inv, NEW t \in DOMAIN turns, TurnReturns(t)
    PROVE  Inv'
<1>1. turns[t] \in Turn /\ DataOK
  BY SequenceFacts, Sequences
<1>2. PICK o \in Results : turns' = [turns EXCEPT ![t] = [turns[t] EXCEPT !.state = "over", !.out = o]]
  <2>1. PICK out \in {"final", "error"} :
           turns' = [turns EXCEPT ![t] =
                        [turns[t] EXCEPT !.state = "over",
                                         !.out = CASE ~Awaited(t)           -> "none"
                                                   [] turns[t].state = "on" -> out
                                                   [] OTHER                 -> turns[t].out]]
    BY Zenon DEF TurnReturns
  <2> DEFINE o == CASE ~Awaited(t) -> "none" [] turns[t].state = "on" -> out [] OTHER -> turns[t].out
  <2>2. CASE ~Awaited(t) /\ turns[t].state = "on"
    <3>1. o \in {"none", out}
      BY <2>2, Zenon
    <3>2. o \in Results
      BY <3>1 DEF Results
    <3> QED  BY <2>1, <3>2, Zenon
  <2>3. CASE ~(~Awaited(t) /\ turns[t].state = "on")
    <3>1. o \in {"none", out, turns[t].out}
      BY <2>3
    <3>2. o \in Results
      BY <1>1, <3>1, TurnPieces DEF Results
    <3> QED  BY <2>1, <3>2, Zenon
  <2> QED  BY <2>2, <2>3
<1>3. [turns[t] EXCEPT !.state = "over", !.out = o] \in Turn
  BY <1>1, TurnPieces
<1>4. turns' \in Seq(Turn) /\ DOMAIN turns' = DOMAIN turns
  BY <1>1, <1>2, <1>3, TurnStep, Zenon
<1>5. UNCHANGED <<run, lease, attempts, tables, driver, calls, faults>>
  BY DEF TurnReturns
<1>6. DataOK'
  BY <1>1, <1>4, <1>5 DEF DataOK, tables
<1>7. TypeInv'
  BY <1>4, <1>5, <1>6, SequenceFacts, StillType
<1> QED  BY <1>1, <1>5, <1>7, SameApprovals, QuietInv DEF tables

-----------------------------------------------------------------------------
(* People, time and faults *)

LEMMA PeopleInv ==
    ASSUME Inv, NEW i \in DOMAIN approvals, Decide(i) \/ ApprovalTimeout(i)
    PROVE  Inv'
<1>1. DataOK /\ approvals[i] \in ApprovalRow /\ approvals[i].state = "pending"
      /\ UNCHANGED <<run, lease, attempts, effects, driver, turns, calls, faults>>
  BY SequenceFacts, Sequences DEF Decide, ApprovalTimeout
<1>2. ApprovalsStep(approvals')
  <2>1. ASSUME NEW s \in {"approved", "denied"}
        PROVE  ApprovalsStep([approvals EXCEPT ![i] = [approvals[i] EXCEPT !.state = s]])
    <3>1. /\ [approvals[i] EXCEPT !.state = s] \in ApprovalRow
          /\ [approvals[i] EXCEPT !.state = s].key = approvals[i].key
          /\ [approvals[i] EXCEPT !.state = s].args = approvals[i].args
          /\ [approvals[i] EXCEPT !.state = s].consumed = approvals[i].consumed
      BY <1>1 DEF ApprovalRow, ApprovalStates
    <3> QED  BY <1>1, <3>1, RowStep
  <2>2. ApprovalsStep([approvals EXCEPT ![i] = [approvals[i] EXCEPT !.due = TRUE]])
    <3>1. /\ [approvals[i] EXCEPT !.due = TRUE] \in ApprovalRow
          /\ [approvals[i] EXCEPT !.due = TRUE].key = approvals[i].key
          /\ [approvals[i] EXCEPT !.due = TRUE].args = approvals[i].args
          /\ [approvals[i] EXCEPT !.due = TRUE].consumed = approvals[i].consumed
      BY <1>1 DEF ApprovalRow
    <3> QED  BY <1>1, <3>1, RowStep
  <2> QED  BY <1>1, <2>1, <2>2, ExpireStep DEF Decide, ApprovalTimeout
<1>3. DataOK'
  BY <1>1, <1>2 DEF DataOK, ApprovalsStep
<1>4. TypeInv'
  BY <1>1, <1>3, SequenceFacts, StillType
<1> QED  BY <1>1, <1>2, <1>4, QuietInv

LEMMA CrashInv ==
    ASSUME Inv, NEW p \in Processes, Crash(p)
    PROVE  Inv'
<1>1. DataOK /\ TypeInv
  BY SequenceFacts
<1>2. ASSUME NEW t \in DOMAIN turns
      PROVE  [turns[t] EXCEPT !.state = "over", !.out = "none", !.ask = 0] \in Turn
  BY <1>1, Sequences, TurnPieces DEF Results
<1>3. turns' = [t \in DOMAIN turns |->
                  IF turns[t].by = p
                  THEN [turns[t] EXCEPT !.state = "over", !.out = "none", !.ask = 0]
                  ELSE turns[t]]
  BY DEF Crash
<1>4. turns' \in Seq(Turn) /\ DOMAIN turns' = DOMAIN turns
  <2>1. DOMAIN turns = 1..Len(turns) /\ Len(turns) \in Nat /\ \A t \in DOMAIN turns : turns[t] \in Turn
    BY <1>1, Sequences
  <2>2. turns' \in [1..Len(turns) -> Turn]
    BY <1>2, <1>3, <2>1
  <2> QED  BY <2>1, <2>2, SeqDef
<1>5. /\ UNCHANGED <<run, lease, attempts, tables, calls>>
      /\ pc' = [pc EXCEPT ![p] = "idle"] /\ cx' = [cx EXCEPT ![p] = Nothing]
      /\ faults' = faults + 1
  BY Zenon DEF Crash, Fault, Goto, Hold
<1>6. DataOK'
  BY <1>1, <1>4, <1>5 DEF DataOK, tables
<1>7. TypeInv'
  BY <1>1, <1>4, <1>5, <1>6, ContextPieces, DriverType DEF Steps
<1> QED  BY <1>1, <1>5, <1>7, SameApprovals, QuietInv DEF tables

\* A cancel is recorded, a lease lapses or is renewed.
LEMMA FlagsInv ==
    ASSUME Inv, RequestCancel \/ LeaseLapses \/ \E p \in Processes : RenewLease(p)
    PROVE  Inv'
<1>1. DataOK /\ TypeInv
  BY SequenceFacts
<1>2. /\ UNCHANGED <<attempts, tables, driver, turns, calls>>
      /\ \/ run' = [run EXCEPT !.cancel = TRUE] /\ UNCHANGED <<lease, faults>>
         \/ lease' = [lease EXCEPT !.live = FALSE] /\ run' = run /\ faults' = faults + 1
         \/ lease' = [lease EXCEPT !.live = TRUE] /\ UNCHANGED <<run, faults>>
  BY Zenon DEF RequestCancel, LeaseLapses, RenewLease, Fault
<1>3. DataOK'
  <2>1. run' \in [sealed : BOOLEAN, cancel : BOOLEAN]
    BY <1>1, <1>2 DEF DataOK
  <2>2. lease' \in [holder : Processes \cup {NoProcess}, live : BOOLEAN]
    BY <1>1, <1>2 DEF DataOK
  <2>3. faults' \in Nat
    BY <1>1, <1>2 DEF DataOK
  <2> QED  BY <1>1, <1>2, <2>1, <2>2, <2>3 DEF DataOK, tables
<1>4. TypeInv'
  BY <1>1, <1>2, <1>3, StillType
<1> QED  BY <1>1, <1>2, <1>4, SameApprovals, QuietInv DEF tables

-----------------------------------------------------------------------------
(* The driver *)

\* A step that leaves calls, approvals and effects alone.
LEMMA MoveInv ==
    ASSUME Inv, TypeInv', UNCHANGED <<tables, calls>>
    PROVE  Inv'
BY SequenceFacts, SameApprovals, QuietInv DEF tables

LEMMA AcquireInv ==
    ASSUME Inv, NEW p \in Processes, Acquire(p)
    PROVE  Inv'
<1>1. /\ DataOK /\ TypeInv /\ Goto(p, "loop") /\ cx' = cx
      /\ UNCHANGED <<run, attempts, tables, turns, calls, faults>>
      /\ lease' = [holder |-> p, live |-> TRUE]
  BY SequenceFacts DEF Acquire
<1>2. DataOK'
  BY <1>1 DEF DataOK, tables
<1>3. TypeInv'
  BY <1>1, <1>2, GotoType DEF Steps
<1> QED  BY <1>1, <1>3, MoveInv

LEMMA ReleaseInv ==
    ASSUME Inv, NEW p \in Processes, Release(p)
    PROVE  Inv'
<1>1. /\ DataOK /\ TypeInv /\ pc' = [pc EXCEPT ![p] = "idle"] /\ cx' = [cx EXCEPT ![p] = Nothing]
      /\ UNCHANGED <<run, attempts, tables, turns, calls, faults>>
      /\ lease' = IF lease.holder = p THEN [holder |-> NoProcess, live |-> FALSE] ELSE lease
  BY SequenceFacts DEF Release, Goto, Hold
<1>2. DataOK'
  BY <1>1 DEF DataOK, tables
<1>3. TypeInv'
  BY <1>1, <1>2, ContextPieces, DriverType DEF Steps
<1> QED  BY <1>1, <1>3, MoveInv

LEMMA ReadRunInv ==
    ASSUME Inv, NEW p \in Processes, ReadRun(p)
    PROVE  Inv'
<1>1. /\ DataOK /\ TypeInv /\ UNCHANGED <<run, lease, attempts, tables, turns, calls, faults>>
      /\ cx' = [cx EXCEPT ![p] = [Nothing EXCEPT !.rows = Len(attempts)]]
  BY SequenceFacts DEF ReadRun, Hold
<1>2. PICK l \in {"release", "seal", "recover", "ensure"} : pc' = [pc EXCEPT ![p] = l]
  BY DEF ReadRun, Goto
<1>3. [Nothing EXCEPT !.rows = Len(attempts)] \in Context
  BY <1>1, Sequences, ContextPieces
<1>4. DataOK' /\ DOMAIN turns \subseteq DOMAIN turns'
  BY <1>1 DEF DataOK, tables
<1>5. TypeInv'
  BY <1>1, <1>2, <1>3, <1>4, DriverType DEF Steps
<1> QED  BY <1>1, <1>5, MoveInv

\* An attempt ends, if the row the driver has counted is there.
LEMMA EndAttemptType ==
    ASSUME DataOK, NEW p \in Processes, NEW how \in {"running", "wait", "over"}, EndAttempt(p, how)
    PROVE  attempts' \in Seq({"running", "wait", "over"})
BY ExceptInSeq DEF EndAttempt, DataOK

LEMMA RecoverInv ==
    ASSUME Inv, NEW p \in Processes, Recover(p)
    PROVE  Inv'
<1> DEFINE todo == {k \in Keys : InDoubt(effects[k])}
<1>1. /\ DataOK /\ TypeInv /\ UNCHANGED <<run, lease, tables, turns, calls, faults>>
      /\ EndAttempt(p, "over") /\ pc' = [pc EXCEPT ![p] = "reconcile"]
      /\ cx' = [cx EXCEPT ![p] = [cx[p] EXCEPT !.todo = todo]]
  BY SequenceFacts DEF Recover, Goto, Hold
<1>2. cx[p] \in Context /\ todo \in SUBSET Keys
  BY <1>1 DEF TypeInv
<1>3. [cx[p] EXCEPT !.todo = todo] \in Context
  BY <1>2, ContextPieces
<1> HIDE DEF todo
<1>4. DataOK' /\ DOMAIN turns \subseteq DOMAIN turns'
  BY <1>1, EndAttemptType DEF DataOK, tables
<1>5. TypeInv'
  BY <1>1, <1>3, <1>4, DriverType DEF Steps
<1> QED  BY <1>1, <1>5, MoveInv

LEMMA ReconcileInv ==
    ASSUME Inv, NEW p \in Processes, Reconcile(p)
    PROVE  Inv'
<1>1. DataOK /\ TypeInv /\ UNCHANGED <<run, lease, attempts, approvals, turns, calls, faults>>
  BY SequenceFacts DEF Reconcile
<1>2. CASE Goto(p, "ensure") /\ UNCHANGED <<cx, effects>>
  <2>1. DataOK' /\ DOMAIN turns \subseteq DOMAIN turns'
    BY <1>1, <1>2 DEF DataOK
  <2>2. TypeInv'
    BY <1>1, <1>2, <2>1, GotoType DEF Steps
  <2> QED  BY <1>1, <1>2, <2>2, MoveInv DEF tables
<1>3. ASSUME NEW k \in cx[p].todo, SetEffect(k, Reconciled(effects[k])),
             Hold(p, [cx[p] EXCEPT !.todo = @ \ {k}]), pc' = pc
      PROVE  Inv'
  <2> DEFINE row == MarkUnknown(effects[k])
             c == [cx[p] EXCEPT !.todo = cx[p].todo \ {k}]
  <2>1. cx[p] \in Context /\ cx[p].todo \subseteq Keys /\ k \in Keys /\ effects[k] \in EffectRow
    BY <1>1 DEF TypeInv, DataOK, Context
  <2>2. row \in EffectRow /\ row.args = effects[k].args /\ row.state = "unknown"
    BY <2>1, EffectRowOps DEF MarkUnknown, EffectRow
  <2>3. c \in Context /\ c.turn = cx[p].turn
    BY <2>1, ContextPieces DEF Context
  <2>4. cx' = [cx EXCEPT ![p] = c] /\ SetEffect(k, row)
    BY <1>3 DEF Hold, Reconciled
  <2> HIDE DEF row, c
  <2>5. effects' \in [Keys -> EffectRow]
    BY <1>1, <2>2, <2>4 DEF SetEffect, DataOK
  <2>6. DataOK'
    BY <1>1, <2>5 DEF DataOK
  <2>7. TypeInv'
    BY <1>1, <1>3, <2>3, <2>4, <2>6 DEF TypeInv
  <2> QED  BY <1>1, <2>2, <2>4, <2>7, SameApprovals, EffectInv
<1> QED  BY <1>2, <1>3 DEF Reconcile

\* The questions Ensure appends are about keys of effects.
LEMMA QuestionsStep ==
    ASSUME DataOK, NEW order \in SetToSeqs(Unasked)
    PROVE  ApprovalsStep(approvals \o
              [i \in 1..Len(order) |->
                 [key |-> order[i], args |-> order[i], reason |-> "effect_unknown",
                  state |-> "pending", due |-> FALSE, consumed |-> FALSE]])
<1> DEFINE row(k) == [key |-> k, args |-> k, reason |-> "effect_unknown",
                      state |-> "pending", due |-> FALSE, consumed |-> FALSE]
           new == [i \in 1..Len(order) |-> row(order[i])]
           aps == approvals \o new
<1>1. Unasked \subseteq Keys
  BY DEF Unasked, Unknown
<1>2. Cardinality(Unasked) \in Nat
  BY <1>1, Consts, FS_Subset, FS_CardinalityType
<1>3. order \in [1..Cardinality(Unasked) -> Unasked]
  BY DEF SetToSeqs
<1>4. Len(order) \in Nat /\ \A i \in 1..Len(order) : order[i] \in Keys
  BY <1>1, <1>2, <1>3
<1>5. \A k \in Keys : row(k) \in ApprovalRow /\ row(k).key = k /\ row(k).args = k
  BY Consts DEF ApprovalRow, ApprovalStates, GateReasons
<1>6. approvals \in Seq(ApprovalRow) /\ Len(approvals) \in Nat
      /\ DOMAIN approvals = 1..Len(approvals)
  BY Sequences DEF DataOK
<1> HIDE DEF row
<1>7. new \in [1..Len(order) -> ApprovalRow]
  BY <1>4, <1>5
<1>8. new \in Seq(ApprovalRow) /\ Len(new) = Len(order)
  BY <1>4, <1>7, SeqDef
<1>9. \A i \in 1..Len(new) : new[i].args = new[i].key
  BY <1>4, <1>5, <1>8
<1> HIDE DEF new
<1>10. /\ aps \in Seq(ApprovalRow) /\ Len(aps) = Len(approvals) + Len(new)
       /\ \A i \in 1..(Len(approvals) + Len(new)) :
             aps[i] = IF i <= Len(approvals) THEN approvals[i] ELSE new[i - Len(approvals)]
  BY <1>6, <1>8, ConcatProperties
<1>11. DOMAIN aps = 1..(Len(approvals) + Len(new)) /\ Len(new) \in Nat
  BY <1>8, <1>10, LenProperties
<1> HIDE DEF aps
<1>12. \A i \in DOMAIN approvals : aps[i] = approvals[i] /\ i \in DOMAIN aps
  BY <1>6, <1>10, <1>11
<1>13. ASSUME NEW i \in DOMAIN aps PROVE aps[i].args = aps[i].key
  <2>1. CASE i <= Len(approvals)
    BY <1>6, <1>10, <1>11, <2>1 DEF DataOK
  <2>2. CASE ~(i <= Len(approvals))
    <3>1. i - Len(approvals) \in 1..Len(new) /\ aps[i] = new[i - Len(approvals)]
      BY <1>6, <1>10, <1>11, <2>2
    <3> QED  BY <1>9, <3>1
  <2> QED  BY <2>1, <2>2
<1> QED  BY <1>10, <1>12, <1>13 DEF ApprovalsStep, aps, new, row

\* What Ensure may wait for is a row, or nothing.
LEMMA QuestionsType ==
    ASSUME NEW aps \in Seq(ApprovalRow), NEW i \in Questions(aps)
    PROVE  i \in Nat
<1>1. DOMAIN aps \subseteq Nat
  BY LenProperties
<1>2. PendingApprovals(aps) \subseteq DOMAIN aps
  BY DEF PendingApprovals
<1>3. PendingApprovalForRun(aps) \in Nat
  <2>1. CASE PendingApprovals(aps) = {}
    BY <2>1 DEF PendingApprovalForRun
  <2>2. CASE PendingApprovals(aps) # {}
    <3>1. \E x \in PendingApprovals(aps) : \A y \in PendingApprovals(aps) : x <= y
      BY <1>1, <1>2, <2>2, SmallestIn
    <3>2. PendingApprovalForRun(aps) \in PendingApprovals(aps)
      BY <2>2, <3>1 DEF PendingApprovalForRun
    <3> QED  BY <1>1, <1>2, <3>2
  <2> QED  BY <2>1, <2>2
<1>4. i \in PendingApprovals(aps) \/ i = PendingApprovalForRun(aps)
  BY DEF Questions
<1> QED  BY <1>1, <1>2, <1>3, <1>4

LEMMA EnsureInv ==
    ASSUME Inv, NEW p \in Processes, Ensure(p)
    PROVE  Inv'
<1>1. /\ DataOK /\ TypeInv /\ cx[p] \in Context /\ Len(attempts) \in Nat
      /\ UNCHANGED <<run, lease, attempts, effects, turns, calls, faults>>
  BY SequenceFacts, Sequences DEF Ensure, TypeInv
<1>2. ApprovalsStep(approvals')
  BY <1>1, QuestionsStep DEF Ensure
<1>3. PICK i \in Questions(approvals') :
         /\ Hold(p, [cx[p] EXCEPT !.ask = i, !.rows = Len(attempts)])
         /\ \E l \in {"expire", "release", "seal", "start"} : Goto(p, l)
  BY DEF Ensure
<1> DEFINE c == [cx[p] EXCEPT !.ask = i, !.rows = Len(attempts)]
<1>4. i \in Nat
  BY <1>2, <1>3, QuestionsType DEF ApprovalsStep
<1>5. c \in Context /\ cx' = [cx EXCEPT ![p] = c]
  BY <1>1, <1>3, <1>4, ContextPieces DEF Hold
<1> HIDE DEF c
<1>6. PICK l \in {"expire", "release", "seal", "start"} : pc' = [pc EXCEPT ![p] = l]
  BY <1>3 DEF Goto
<1>7. DataOK' /\ DOMAIN turns \subseteq DOMAIN turns'
  BY <1>1, <1>2 DEF DataOK, ApprovalsStep
<1>8. TypeInv'
  BY <1>1, <1>5, <1>6, <1>7, DriverType DEF Steps
<1> QED  BY <1>1, <1>2, <1>8, QuietInv

LEMMA StartAttemptInv ==
    ASSUME Inv, NEW p \in Processes, StartAttempt(p)
    PROVE  Inv'
<1>1. /\ DataOK /\ TypeInv /\ UNCHANGED <<run, lease, tables, calls, faults>>
      /\ Len(attempts) \in Nat /\ Len(turns) \in Nat /\ DOMAIN turns = 1..Len(turns)
  BY SequenceFacts, Sequences DEF StartAttempt
<1>2. CASE Goto(p, "release") /\ UNCHANGED <<attempts, turns, cx>>
  <2>1. DataOK' /\ DOMAIN turns \subseteq DOMAIN turns'
    BY <1>1, <1>2 DEF DataOK, tables
  <2>2. TypeInv'
    BY <1>1, <1>2, <2>1, GotoType DEF Steps
  <2> QED  BY <1>1, <2>2, MoveInv
<1>3. CASE /\ attempts' = Append(attempts, "running")
           /\ turns' = Append(turns, [by |-> p, state |-> "on", out |-> "none", ask |-> 0])
           /\ Hold(p, [Nothing EXCEPT !.rows = Len(attempts) + 1, !.turn = Len(turns) + 1])
           /\ Goto(p, "attempt")
  <2> DEFINE new == [by |-> p, state |-> "on", out |-> "none", ask |-> 0]
             c == [Nothing EXCEPT !.rows = Len(attempts) + 1, !.turn = Len(turns) + 1]
  <2>1. new \in Turn
    BY DEF Turn, Results
  <2>2. c \in Context
    <3>1. Len(attempts) + 1 \in Nat /\ Len(turns) + 1 \in Nat
      BY <1>1
    <3> QED  BY <3>1, ContextPieces
  <2>3. c.turn = Len(turns) + 1
    BY DEF Nothing
  <2>4. cx' = [cx EXCEPT ![p] = c] /\ pc' = [pc EXCEPT ![p] = "attempt"] /\ turns' = Append(turns, new)
    BY <1>3 DEF Hold, Goto
  <2> HIDE DEF new, c
  <2>5. attempts' \in Seq({"running", "wait", "over"})
    BY <1>1, <1>3, AppendProperties DEF DataOK
  <2>6. turns' \in Seq(Turn) /\ Len(turns') = Len(turns) + 1
    BY <1>1, <2>1, <2>4, AppendProperties DEF DataOK
  <2>7. DOMAIN turns' = 1..(Len(turns) + 1)
    BY <2>6, LenProperties
  <2>8. DataOK'
    BY <1>1, <2>5, <2>6 DEF DataOK, tables
  <2>9. DOMAIN turns \subseteq DOMAIN turns' /\ c.turn \in DOMAIN turns'
    BY <1>1, <2>3, <2>7
  <2>10. TypeInv'
    BY <1>1, <2>2, <2>4, <2>8, <2>9, DriverType DEF Steps
  <2> QED  BY <1>1, <2>10, MoveInv
<1> QED  BY <1>2, <1>3 DEF StartAttempt

LEMMA AbortInv ==
    ASSUME Inv, NEW p \in Processes, Abort(p)
    PROVE  Inv'
<1>1. /\ DataOK /\ TypeInv /\ UNCHANGED <<run, lease, attempts, tables, pc, turns, calls, faults>>
      /\ cx[p] \in Context
  BY SequenceFacts DEF Abort, TypeInv
<1>2. PICK reason \in Aborts : cx' = [cx EXCEPT ![p] = [cx[p] EXCEPT !.abort = reason]]
  BY DEF Abort, Hold, Aborts
<1> DEFINE c == [cx[p] EXCEPT !.abort = reason]
<1>3. c \in Context /\ c.turn = cx[p].turn
  BY <1>1, ContextPieces DEF Context
<1>4. cx' = [cx EXCEPT ![p] = c]
  BY <1>2
<1> HIDE DEF c
<1>5. DataOK'
  BY <1>1 DEF DataOK, tables
<1>6. TypeInv'
  BY <1>1, <1>3, <1>4, <1>5 DEF TypeInv
<1> QED  BY <1>1, <1>6, MoveInv

\* The driver leaves an attempt.
LEMMA OutcomeInv ==
    ASSUME Inv, NEW p \in Processes, NEW out \in Results \cup Aborts, pc[p] = "attempt",
           Outcome(p, out), UNCHANGED <<run, lease, attempts, tables, calls, faults>>
    PROVE  Inv'
<1> DEFINE t == cx[p].turn
           r == [turns[t] EXCEPT !.out = "none", !.ask = 0]
           c == [cx[p] EXCEPT !.out = out, !.ask = turns[t].ask]
<1>1. DataOK /\ TypeInv /\ cx[p] \in Context /\ t \in DOMAIN turns
  BY SequenceFacts DEF TypeInv
<1>2. turns[t] \in Turn
  BY <1>1, Sequences
<1>3. r \in Turn /\ turns[t].ask \in Nat
  BY <1>2, TurnPieces DEF Results
<1>4. c \in Context
  BY <1>1, <1>3, ContextPieces
<1>5. /\ turns' = [turns EXCEPT ![t] = r]
      /\ \/ pc' = [pc EXCEPT ![p] = "idle"] /\ cx' = [cx EXCEPT ![p] = Nothing]
         \/ pc' = [pc EXCEPT ![p] = "close"] /\ cx' = [cx EXCEPT ![p] = c]
  BY Zenon DEF Outcome, Goto, Hold
<1> HIDE DEF r, c, t
<1>6. turns' \in Seq(Turn) /\ DOMAIN turns' = DOMAIN turns
  BY <1>1, <1>3, <1>5, TurnStep
<1>7. DataOK' /\ DOMAIN turns \subseteq DOMAIN turns'
  BY <1>1, <1>6 DEF DataOK, tables
<1>8. TypeInv'
  <2>1. CASE pc' = [pc EXCEPT ![p] = "idle"] /\ cx' = [cx EXCEPT ![p] = Nothing]
    BY <1>1, <1>7, <2>1, ContextPieces, DriverType DEF Steps
  <2>2. CASE pc' = [pc EXCEPT ![p] = "close"] /\ cx' = [cx EXCEPT ![p] = c]
    BY <1>1, <1>4, <1>7, <2>2, DriverType DEF Steps
  <2> QED  BY <1>5, <2>1, <2>2
<1> QED  BY <1>8, MoveInv

LEMMA AttemptEndsInv ==
    ASSUME Inv, NEW p \in Processes, TurnOver(p) \/ GraceOver(p)
    PROVE  Inv'
<1>1. DataOK /\ TypeInv /\ cx[p].abort \in Aborts
  BY SequenceFacts DEF TypeInv, Context
<1>2. CASE TurnOver(p)
  <2> DEFINE out == turns[cx[p].turn].out
             o == IF out \in {"park", "expired"} \/ cx[p].abort = "none" THEN out ELSE cx[p].abort
  <2>1. cx[p].turn \in DOMAIN turns
    BY <1>1, <1>2 DEF TypeInv, TurnOver
  <2>2. out \in Results
    BY <1>1, <2>1, Sequences, TurnPieces
  <2>3. o \in Results \cup Aborts
    BY <1>1, <2>2
  <2>4. /\ pc[p] = "attempt" /\ Outcome(p, o)
        /\ UNCHANGED <<run, lease, attempts, tables, calls, faults>>
    BY <1>2, Zenon DEF TurnOver
  <2> HIDE DEF o
  <2> QED  BY <2>3, <2>4, OutcomeInv
<1>3. CASE GraceOver(p)
  BY <1>1, <1>3, OutcomeInv DEF GraceOver
<1> QED  BY <1>2, <1>3

LEMMA CloseInv ==
    ASSUME Inv, NEW p \in Processes, Close(p)
    PROVE  Inv'
<1>1. DataOK /\ TypeInv /\ UNCHANGED <<run, lease, tables, cx, turns, calls, faults>>
  BY SequenceFacts DEF Close
<1>2. PICK how \in {"running", "wait", "over"} : EndAttempt(p, how)
  BY DEF Close
<1>3. PICK l \in {"release", "expire", "seal", "loop"} : Goto(p, l)
  BY DEF Close
<1>4. DataOK' /\ DOMAIN turns \subseteq DOMAIN turns'
  BY <1>1, <1>2, EndAttemptType DEF DataOK, tables
<1>5. TypeInv'
  BY <1>1, <1>3, <1>4, GotoType DEF Steps
<1> QED  BY <1>1, <1>5, MoveInv

LEMMA ExpireInv ==
    ASSUME Inv, NEW p \in Processes, Expire(p)
    PROVE  Inv'
<1> DEFINE k == approvals[cx[p].ask].key
           row == IF effects[k].state = "none" THEN effects[k] ELSE Fail(effects[k], "expired")
<1>1. /\ DataOK /\ TypeInv /\ UNCHANGED <<run, lease, attempts, cx, turns, calls, faults>>
      /\ approvals' = ExpireApproval(approvals, cx[p].ask) /\ SetEffect(k, row) /\ Goto(p, "seal")
  BY SequenceFacts DEF Expire
<1>2. k \in Keys => /\ row \in EffectRow /\ row.args = effects[k].args
                   /\ \/ row = effects[k]
                      \/ row.state = "failed" /\ row.outcome = "expired"
  <2> SUFFICES ASSUME k \in Keys
               PROVE  /\ row \in EffectRow /\ row.args = effects[k].args
                      /\ \/ row = effects[k]
                         \/ row.state = "failed" /\ row.outcome = "expired"
    OBVIOUS
  <2>1. effects[k] \in EffectRow /\ "expired" \in Outcomes
    BY <1>1 DEF DataOK, Outcomes
  <2>2. /\ Fail(effects[k], "expired") \in EffectRow
        /\ Fail(effects[k], "expired").args = effects[k].args
        /\ Fail(effects[k], "expired").state = "failed"
        /\ Fail(effects[k], "expired").outcome = "expired"
    BY <2>1, EffectRowOps DEF Fail, EffectRow
  <2> QED  BY <2>1, <2>2
<1> HIDE DEF k, row
<1>3. effects' \in [Keys -> EffectRow]
  BY <1>1, <1>2 DEF SetEffect, DataOK
<1>4. ApprovalsStep(approvals')
  BY <1>1, ExpireStep
<1>5. DataOK' /\ DOMAIN turns \subseteq DOMAIN turns'
  BY <1>1, <1>3, <1>4 DEF DataOK, ApprovalsStep
<1>6. TypeInv'
  BY <1>1, <1>5, GotoType DEF Steps
<1> QED  BY <1>1, <1>2, <1>4, <1>6, EffectInv

LEMMA SealInv ==
    ASSUME Inv, NEW p \in Processes, Seal(p)
    PROVE  Inv'
<1>1. /\ DataOK /\ TypeInv /\ UNCHANGED <<lease, attempts, tables, cx, turns, calls, faults>>
      /\ run' = [run EXCEPT !.sealed = TRUE] /\ Goto(p, "release")
  BY SequenceFacts DEF Seal
<1>2. DataOK' /\ DOMAIN turns \subseteq DOMAIN turns'
  BY <1>1 DEF DataOK, tables
<1>3. TypeInv'
  BY <1>1, <1>2, GotoType DEF Steps
<1> QED  BY <1>1, <1>3, MoveInv

-----------------------------------------------------------------------------
(* The theorems *)

LEMMA InitInv == ASSUME Init PROVE Inv
<1>1. DataOK
  <2>1. NoEffect \in EffectRow
    BY DEF NoEffect, EffectRow, Outcomes
  <2>2. \A S : <<>> \in Seq(S)
    BY EmptySeq
  <2> QED  BY <2>1, <2>2 DEF Init, DataOK
<1>2. TypeInv
  BY <1>1, ContextPieces DEF Init, TypeInv, Steps
<1>3. DOMAIN calls = {}
  BY DEF Init
<1>4. \A k \in Keys : effects[k] = NoEffect
  BY DEF Init
<1> QED  BY <1>2, <1>3, <1>4 DEF Inv, RepeatedByPerson, RowSound, NoEffect

LEMMA NextInv == ASSUME Inv, [Next]_vars PROVE Inv'
<1>1. ASSUME NEW p \in Processes, Acquire(p) \/ RenewLease(p) \/ Crash(p) PROVE Inv'
  BY <1>1, AcquireInv, FlagsInv, CrashInv
<1>2. ASSUME NEW p \in Processes, Drive(p) PROVE Inv'
  BY <1>2, ReleaseInv, ReadRunInv, RecoverInv, ReconcileInv, EnsureInv, StartAttemptInv,
     AbortInv, AttemptEndsInv, CloseInv, ExpireInv, SealInv DEF Drive
<1>3. ASSUME NEW t \in DOMAIN turns, Hook(t) PROVE Inv'
  <2>1. CASE HookCancels(t)
    <3>1. DataOK /\ "cancelled" \in Results /\ 0 \in Nat
      BY SequenceFacts DEF Results
    <3> QED  BY <2>1, <3>1, SameApprovals, HookStopsInv DEF HookCancels, tables
  <2>2. ASSUME NEW k \in Keys, HookWaits(t, k) \/ HookExpires(t, k) \/ HookAsks(t, k) \/ HookGrants(t, k)
        PROVE  Inv'
    BY <2>2, HookAnswersInv, HookGrantsInv
  <2> QED  BY <1>3, <2>1, <2>2 DEF Hook
<1>4. ASSUME NEW t \in DOMAIN turns, TurnReturns(t) PROVE Inv'
  BY <1>4, TurnReturnsInv
<1>5. ASSUME NEW c \in DOMAIN calls, CallEnds(c) \/ Completed(c) PROVE Inv'
  BY <1>5, CallEndsInv, CompletedInv
<1>6. ASSUME NEW i \in DOMAIN approvals, Decide(i) \/ ApprovalTimeout(i) PROVE Inv'
  BY <1>6, PeopleInv
<1>7. CASE RequestCancel \/ LeaseLapses
  BY <1>7, FlagsInv
<1>8. CASE UNCHANGED vars
  BY <1>8 DEF vars, tables, driver, Inv, TypeInv, DataOK, CallSound, RepeatedByPerson,
     RowSound, Accounted, DoneCalls
<1> QED  BY <1>1, <1>2, <1>3, <1>4, <1>5, <1>6, <1>7, <1>8 DEF Next

LEMMA InvAlways == Spec => []Inv
BY InitInv, NextInv, PTL DEF Spec

\* The tables of a native attempt, its turns and its calls keep their types.
THEOREM TypeAlways == Spec => []TypeOK
<1>1. Inv => TypeOK
  BY DEF Inv, TypeInv, DataOK, TypeOK
<1> QED  BY <1>1, InvAlways, PTL

\* authorizeNativeToolCall: however many turns outlive their attempts, calls are
\* repeated only on an answer that was asked for after the call before.
THEOREM RepeatedByPersonAlways == Spec => []RepeatedByPerson
<1>1. Inv => RepeatedByPerson
  BY DEF Inv
<1> QED  BY <1>1, InvAlways, PTL

\* settleNativeEffect, recover and expire: the ledger does not forget a call that
\* may have run, unless the provider reported one of its key as not ok or its
\* question expired, and commits none that was not reported as ok.
THEOREM CallsAccountedForAlways == Spec => []CallsAccountedFor
<1>1. Inv => CallsAccountedFor
  BY DEF Inv, RowSound, Accounted, CallsAccountedFor, DoneCalls, CallsOf
<1> QED  BY <1>1, InvAlways, PTL

=============================================================================
