----------------------- MODULE AgentJobLedger_proofs -----------------------
(***************************************************************************)
(* Lemmas about the statements of AgentJobLedger, for the proofs about the *)
(* modules that compose them.                                              *)
(***************************************************************************)
EXTENDS AgentJobLedger, SequenceTheorems, FiniteSetTheorems, TLAPS

-----------------------------------------------------------------------------
(* Sequences and numbers *)

\* An update of one element keeps a sequence, also outside its domain.
LEMMA ExceptInSeq ==
    ASSUME NEW S, NEW s \in Seq(S), NEW n, NEW e, n \in DOMAIN s => e \in S
    PROVE  /\ [s EXCEPT ![n] = e] \in Seq(S)
           /\ DOMAIN [s EXCEPT ![n] = e] = DOMAIN s
           /\ Len([s EXCEPT ![n] = e]) = Len(s)
<1>1. s \in [1..Len(s) -> S] /\ DOMAIN s = 1..Len(s) /\ Len(s) \in Nat
    BY LenProperties
<1>2. [s EXCEPT ![n] = e] \in [1..Len(s) -> S]
    BY <1>1
<1>3. [s EXCEPT ![n] = e] \in Seq(S)
    BY <1>1, <1>2, SeqDef
<1> QED BY <1>1, <1>2, <1>3, LenProperties

\* A set of numbers up to n that is not empty has a smallest element.
LEMMA SmallestIn ==
    ASSUME NEW T, T \subseteq Nat, T # {}
    PROVE  \E x \in T : \A y \in T : x <= y
<1>1. PICK x \in T : \A y \in T : ~(<<y, x>> \in OpToRel(<, Nat))
    BY WFMin, NatLessThanWellFounded, Zenon
<1>2. x \in Nat /\ \A y \in T : y \in Nat
    OBVIOUS
<1>3. ASSUME NEW y \in T PROVE ~(y < x)
  <2>1. <<y, x>> \in Nat \X Nat /\ <<y, x>>[1] = y /\ <<y, x>>[2] = x
    BY <1>2
  <2> QED BY <1>1, <2>1, Zenon DEF OpToRel
<1> QED BY <1>2, <1>3

\* A set of numbers up to n that is not empty has a largest element.
LEMMA LargestIn ==
    ASSUME NEW n \in Nat, NEW T \in SUBSET (1..n), T # {}
    PROVE  \E x \in T : \A y \in T : y <= x
<1> DEFINE U == {n - x : x \in T}
<1>1. U \subseteq Nat
    OBVIOUS
<1>2. U # {}
  <2>1. PICK x \in T : TRUE
    OBVIOUS
  <2>2. n - x \in U
    OBVIOUS
  <2> QED BY <2>2
<1>3. \A y \in T : n - y \in U
    OBVIOUS
<1>4. \A u \in U : \E x \in T : u = n - x
    OBVIOUS
<1> HIDE DEF U
<1>5. PICK u \in U : \A y \in U : u <= y
    BY <1>1, <1>2, SmallestIn
<1>6. PICK x \in T : u = n - x
    BY <1>4
<1>7. \A y \in T : y <= x
    BY <1>3, <1>5, <1>6
<1> QED BY <1>7

-----------------------------------------------------------------------------
(* Effects *)

\* The statements on one effect row keep its type and its args.
LEMMA EffectRowOps ==
    ASSUME NEW row \in EffectRow
    PROVE  /\ \A new \in {Commit(row), MarkUnknown(row), Reopen(row)} :
                new \in EffectRow /\ new.args = row.args /\ new.state # "none"
           /\ \A o \in Outcomes :
                /\ Fail(row, o) \in EffectRow
                /\ Fail(row, o).args = row.args /\ Fail(row, o).state # "none"
           /\ MarkDispatched(row) \in EffectRow /\ MarkDispatched(row).args = row.args
           /\ row.state # "none" => MarkDispatched(row).state # "none"
<1>1. /\ Commit(row) \in EffectRow /\ MarkUnknown(row) \in EffectRow
      /\ Reopen(row) \in EffectRow /\ Commit(row).args = row.args
      /\ MarkUnknown(row).args = row.args /\ Reopen(row).args = row.args
      /\ Commit(row).state # "none" /\ MarkUnknown(row).state # "none"
      /\ Reopen(row).state # "none"
    BY DEF Commit, MarkUnknown, Reopen, EffectRow, EffectStates, Outcomes
<1>2. ASSUME NEW o \in Outcomes
      PROVE  /\ Fail(row, o) \in EffectRow
             /\ Fail(row, o).args = row.args /\ Fail(row, o).state # "none"
    BY DEF Fail, EffectRow, EffectStates
<1>3. /\ MarkDispatched(row) \in EffectRow /\ MarkDispatched(row).args = row.args
      /\ row.state # "none" => MarkDispatched(row).state # "none"
    BY DEF MarkDispatched, EffectRow, EffectStates
<1> QED BY <1>1, <1>2, <1>3

\* intendSync leaves a row with the state "intended" or later, and with args.
LEMMA IntendType ==
    ASSUME NEW row \in EffectRow, NEW a \in Args,
           row.state # "none" => row.args \in Args
    PROVE  /\ Intend(row, a) \in EffectRow
           /\ Intend(row, a).state # "none" /\ Intend(row, a).args \in Args
    BY DEF Intend, EffectRow, EffectStates, Outcomes

=============================================================================
