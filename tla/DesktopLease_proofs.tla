------------------------- MODULE DesktopLease_proofs -------------------------
(***************************************************************************)
(* Proofs about DesktopLease, for any number of processes, desktops and    *)
(* calls.  As long as no operator replaces the lock file or loses the      *)
(* state, one process at a time holds the lock; what it prepares differs   *)
(* from the file only in the desktop it is about, and there only for a     *)
(* cause.                                                                  *)
(***************************************************************************)
EXTENDS DesktopLease, TLAPS

Change == [state : State, ends : Nat, gives : Nat]

\* What a mutation does to the lease of its desktop.
Kept(s, op, m) ==
    /\ m.state.leases[op.desk].token = s.leases[op.desk].token
    /\ m.state.leases[op.desk].gen = s.leases[op.desk].gen
    /\ m.ends = 0
    /\ m.gives \in {0, s.leases[op.desk].token}

Granted(s, op, m) ==
    /\ op.kind = "acquire"
    /\ m.state.leases[op.desk].gen > s.counter
    /\ m.gives = m.state.leases[op.desk].token
    /\ m.ends = s.leases[op.desk].token
    /\ \/ s.leases[op.desk] = NoLease
       \/ op.way = "force"
       \/ Overdue(s.leases[op.desk])

Freed(s, op, m) ==
    /\ op.kind = "release"
    /\ m.state.leases[op.desk] = NoLease
    /\ m.ends = s.leases[op.desk].token
    /\ m.gives = 0
    /\ op.way = "force" \/ Owns(s.leases[op.desk], op)

Changed(s, op, m) ==
    /\ \A e \in Desks : e # op.desk => m.state.leases[e] = s.leases[e]
    /\ m.state.counter >= s.counter
    /\ m.state.leases[op.desk].gen <= m.state.counter
       \/ m.state.leases[op.desk].gen = s.leases[op.desk].gen
    /\ Kept(s, op, m) \/ Granted(s, op, m) \/ Freed(s, op, m)

\* The candidate an operation found was overdue when it was found.
SeenOverdue(op) == op.seen # NoLease => Overdue(op.seen)

-----------------------------------------------------------------------------
(* The pure part: what a mutation makes of a state.                        *)

LEMMA NoLeaseType == NoLease \in Lease
  BY DEF NoLease, Lease

LEMMA NoStateType == NoState \in State
  BY NoLeaseType DEF NoState, State

LEMMA NewLeaseType ==
  ASSUME NEW s \in State, NEW op \in Op, minted \in Nat
  PROVE  NewLease(s, op) \in Lease
  <1>1. op.thread \in Threads \cup {"nobody"} /\ op.at \in Nat
    BY DEF Op
  <1>2. s.counter + 1 \in Nat /\ minted + 1 \in Nat /\ op.at + Term \in Nat
    BY <1>1, LeaseAssumption DEF State
  <1> QED
    BY <1>1, <1>2 DEF NewLease, Lease

\* A state with another lease for one desktop.
LEMMA PutIs ==
  ASSUME NEW s \in State, NEW d \in Desks, NEW l \in Lease
  PROVE  /\ Put(s, d, l) \in State
         /\ Put(s, d, l).leases[d] = l
         /\ \A e \in Desks : e # d => Put(s, d, l).leases[e] = s.leases[e]
         /\ Put(s, d, l).counter = s.counter
  BY DEF State, Put

LEMMA PutCounted ==
  ASSUME NEW s \in State, NEW d \in Desks, NEW l \in Lease
  PROVE  LET t == [Put(s, d, l) EXCEPT !.counter = @ + 1] IN
         /\ t \in State
         /\ t.leases[d] = l
         /\ \A e \in Desks : e # d => t.leases[e] = s.leases[e]
         /\ t.counter = s.counter + 1
  <1> DEFINE put == Put(s, d, l)
             t == [put EXCEPT !.counter = @ + 1]
  <1>1. put \in State
    BY PutIs
  <1>2. t \in State /\ t.leases = put.leases /\ t.counter = put.counter + 1
    <2> HIDE DEF put
    <2> QED
      BY <1>1 DEF State
  <1> QED
    BY <1>2, PutIs

LEMMA SameIs ==
  ASSUME NEW s \in State, NEW op \in Op
  PROVE  Same(s) \in Change /\ Changed(s, op, Same(s))
  <1>1. s.counter \in Nat /\ op.desk \in Desks
    BY DEF State, Op
  <1> QED
    BY <1>1 DEF Same, Change, Changed, Kept

LEMMA AcquiredIs ==
  ASSUME NEW s \in State, NEW op \in Op, minted \in Nat, clock \in Nat,
         op.kind = "acquire"
  PROVE  /\ Acquired(s, op) \in Change
         /\ SeenOverdue(op) => Changed(s, op, Acquired(s, op))
  <1> DEFINE active == Active(s, op)
  <1>1. op.desk \in Desks /\ op.at + Term \in Nat
    BY LeaseAssumption DEF Op
  <1>2. active \in Lease /\ active = s.leases[op.desk] /\ s.counter \in Nat
    BY <1>1 DEF State, Active
  <1>3. active.token \in Nat /\ active.gen \in Nat
    BY <1>2 DEF Lease
  <1>4. CASE active.thread = op.thread /\ op.way = "reuse"
    <2>1. Acquired(s, op) = [state |-> s, ends |-> 0, gives |-> active.token]
      BY <1>4 DEF Acquired
    <2> QED
      BY <2>1, <1>2, <1>3 DEF Change, Changed, Kept
  <1>5. CASE active.thread = op.thread /\ op.way # "reuse"
    <2> DEFINE l == [active EXCEPT !.beat = clock, !.until = op.at + Term]
    <2>1. Acquired(s, op) = [state |-> Put(s, op.desk, l), ends |-> 0, gives |-> active.token]
      BY <1>5 DEF Acquired
    <2>2. l \in Lease /\ l.token = active.token /\ l.gen = active.gen
      BY <1>1, <1>2 DEF Lease
    <2> HIDE DEF l, active
    <2> QED
      BY <2>1, <2>2, <1>1, <1>2, <1>3, PutIs DEF Change, Changed, Kept
  <1>6. CASE active.thread # op.thread /\ MayTake(active, op)
    <2> DEFINE l == NewLease(s, op)
               t == [Put(s, op.desk, l) EXCEPT !.counter = @ + 1]
    <2>1. Acquired(s, op) = [state |-> t, ends |-> active.token, gives |-> minted + 1]
      BY <1>6 DEF Acquired
    <2>2. l \in Lease
      BY NewLeaseType
    <2>3. /\ t \in State /\ t.leases[op.desk] = l
          /\ \A e \in Desks : e # op.desk => t.leases[e] = s.leases[e]
          /\ t.counter = s.counter + 1
      BY <2>2, <1>1, PutCounted
    <2>4. l.token = minted + 1 /\ l.gen = s.counter + 1
      BY DEF NewLease
    <2>5. ASSUME SeenOverdue(op)
          PROVE  active = NoLease \/ op.way = "force" \/ Overdue(active)
      <3>1. CASE RecoveryMatches(active, op.seen)
        BY <2>5, <3>1 DEF RecoveryMatches, SeenOverdue, Overdue
      <3> QED
        BY <1>6, <3>1 DEF MayTake
    <2> HIDE DEF l, t, active
    <2>6. SeenOverdue(op) => Granted(s, op, Acquired(s, op))
      BY <2>1, <2>3, <2>4, <2>5, <1>2 DEF Granted
    <2> QED
      BY <2>1, <2>3, <2>4, <2>6, <1>2, <1>3 DEF Change, Changed
  <1>7. CASE active.thread # op.thread /\ ~MayTake(active, op)
    BY <1>7, SameIs DEF Acquired
  <1> QED
    BY <1>4, <1>5, <1>6, <1>7

LEMMA HeartbeatIs ==
  ASSUME NEW s \in State, NEW op \in Op, clock \in Nat
  PROVE  Heartbeat(s, op) \in Change /\ Changed(s, op, Heartbeat(s, op))
  <1> DEFINE active == Active(s, op)
             l == [active EXCEPT !.beat = clock]
  <1>1. op.desk \in Desks
    BY DEF Op
  <1>2. active \in Lease /\ active = s.leases[op.desk] /\ s.counter \in Nat
    BY <1>1 DEF State, Active
  <1>3. l \in Lease /\ l.token = active.token /\ l.gen = active.gen
    BY <1>2 DEF Lease
  <1>4. CASE Owns(active, op)
    <2>1. Heartbeat(s, op) = [state |-> Put(s, op.desk, l), ends |-> 0, gives |-> 0]
      BY <1>4 DEF Heartbeat, Same
    <2> HIDE DEF l, active
    <2> QED
      BY <2>1, <1>1, <1>2, <1>3, PutIs DEF Change, Changed, Kept
  <1>5. CASE ~Owns(active, op)
    BY <1>5, SameIs DEF Heartbeat
  <1> QED
    BY <1>4, <1>5

LEMMA ReleasedIs ==
  ASSUME NEW s \in State, NEW op \in Op, op.kind = "release"
  PROVE  Released(s, op) \in Change /\ Changed(s, op, Released(s, op))
  <1> DEFINE active == Active(s, op)
  <1>1. op.desk \in Desks
    BY DEF Op
  <1>2. active \in Lease /\ active = s.leases[op.desk] /\ s.counter \in Nat
    BY <1>1 DEF State, Active
  <1>3. active.token \in Nat
    BY <1>2 DEF Lease
  <1>4. CASE active # NoLease /\ (op.way = "force" \/ Owns(active, op))
    <2>1. Released(s, op) = [state |-> Put(s, op.desk, NoLease), ends |-> active.token,
                             gives |-> 0]
      BY <1>4 DEF Released
    <2>2. NoLease.gen = 0
      BY DEF NoLease
    <2> HIDE DEF active
    <2>3. /\ Put(s, op.desk, NoLease) \in State
          /\ Put(s, op.desk, NoLease).leases[op.desk] = NoLease
          /\ \A e \in Desks : e # op.desk => Put(s, op.desk, NoLease).leases[e] = s.leases[e]
          /\ Put(s, op.desk, NoLease).counter = s.counter
      BY <1>1, NoLeaseType, PutIs
    <2>4. Freed(s, op, Released(s, op))
      BY <2>1, <2>3, <1>2, <1>4 DEF Freed
    <2> QED
      BY <2>1, <2>2, <2>3, <2>4, <1>2, <1>3 DEF Change, Changed
  <1>5. CASE ~(active # NoLease /\ (op.way = "force" \/ Owns(active, op)))
    BY <1>5, SameIs DEF Released
  <1> QED
    BY <1>4, <1>5

LEMMA MutatedIs ==
  ASSUME NEW s \in State, NEW op \in Op, minted \in Nat, clock \in Nat
  PROVE  /\ Mutated(s, op) \in Change
         /\ SeenOverdue(op) => Changed(s, op, Mutated(s, op))
  BY SameIs, AcquiredIs, HeartbeatIs, ReleasedIs DEF Mutated

-----------------------------------------------------------------------------
(* The invariant.  Its second part is about a world without faults.        *)

\* One process at a time holds the lock, on the only lock file there is.
Alone == \A p, q \in Procs : pc[p] \in Locked /\ pc[q] \in Locked => p = q
InoOne == \A p \in Procs : pc[p] \in Locked \cup {"wait"} => cx[p].ino = 1

\* The lock file is marked when the state that belongs to it is in place.
Place ==
    /\ lockFile = 1 /\ marked \subseteq {1} /\ file.identity \in {0, 1}
    /\ 1 \in marked => file.present /\ file.identity = 1
Marking == \A p \in Procs : pc[p] = "mark" => file.present /\ file.identity = 1
CopyPresent == \A p \in Procs : pc[p] \in {"check", "rename"} => cx[p].copy.present

\* What an operation knows, what it prepared, and what it will answer.
Calls ==
    \A p \in Procs : pc[p] # "idle" =>
        /\ SeenOverdue(cx[p].op)
        /\ cx[p].op.kind = "act" => cx[p].op.token # 0
Result(c) == [state |-> c.copy, ends |-> c.ends, gives |-> c.gives]
Prepared ==
    \A p \in Procs : pc[p] \in {"check", "rename"} =>
        Changed(file, cx[p].op, Result(cx[p]))
Given ==
    \A p \in Procs : pc[p] = "mark" =>
        cx[p].gives \in {0, file.leases[cx[p].op.desk].token}
Acting ==
    \A p \in Procs : pc[p] = "act" =>
        cx[p].op.kind = "act" /\ cx[p].copy.leases = file.leases

\* What was answered is on file, and generations only grow.
Owed == \A d \in Desks : owed[d] # 0 => file.leases[d].token = owed[d]
Generations ==
    \A d \in Desks :
        /\ acted[d].gen <= file.counter
        /\ file.leases[d].gen <= file.counter
        /\ file.leases[d].token # 0 =>
              /\ acted[d].gen <= file.leases[d].gen
              /\ acted[d].gen = file.leases[d].gen => acted[d].token = file.leases[d].token

Locks == Alone /\ InoOne /\ Place /\ Marking /\ CopyPresent
Grants == Calls /\ Prepared /\ Given /\ Acting /\ Owed /\ Generations

Inv == TypeOK /\ faults <= MaxFaults /\ (faults = 0 => Locks /\ Grants)

-----------------------------------------------------------------------------
(* Types.                                                                  *)

LEMMA InitType == Init => TypeOK
  <1> SUFFICES ASSUME Init PROVE TypeOK
    OBVIOUS
  <1>1. file \in State /\ minted \in Nat
    <2>1. CASE file = NoState /\ minted = 0
      BY <2>1, NoStateType
    <2>2. ASSUME NEW d \in Desks, NEW t \in Threads,
                 file = [NoState EXCEPT !.present = TRUE, !.counter = 1,
                           !.leases[d] = [token |-> 1, gen |-> 1, thread |-> t,
                                          beat |-> 0, until |-> Term]],
                 minted = 1
          PROVE  file \in State /\ minted \in Nat
      <3> DEFINE l == [token |-> 1, gen |-> 1, thread |-> t, beat |-> 0, until |-> Term]
                 s == [NoState EXCEPT !.present = TRUE, !.counter = 1]
      <3>1. l \in Lease
        BY LeaseAssumption DEF Lease
      <3>2. s \in State
        BY NoStateType DEF State
      <3>3. file = Put(s, d, l)
        BY <2>2 DEF Put
      <3> HIDE DEF s, l
      <3> QED
        BY <2>2, <3>1, <3>2, <3>3, PutIs
    <2> QED
      BY <2>1, <2>2 DEF Init
  <1>2. pc \in [Procs -> Labels] /\ cx \in [Procs -> Cx \cup {NoCx}]
    BY DEF Init, Labels
  <1>3. \A p \in Procs : pc[p] = "idle"
    BY DEF Init
  <1>4. owed \in [Desks -> Nat] /\ acted \in [Desks -> [gen : Nat, token : Nat]]
    BY DEF Init, NoAct
  <1> QED
    BY <1>1, <1>2, <1>3, <1>4 DEF Init, TypeOK

\* One operation moves on with another context; nothing else in it changes.
LEMMA MoveType ==
  ASSUME TypeOK, NEW p \in Procs, NEW label \in Labels, NEW c \in Cx,
         pc' = [pc EXCEPT ![p] = label], cx' = [cx EXCEPT ![p] = c]
  PROVE  /\ pc' \in [Procs -> Labels]
         /\ cx' \in [Procs -> Cx \cup {NoCx}]
         /\ \A q \in Procs : pc'[q] # "idle" => cx'[q] \in Cx
  BY DEF TypeOK

LEMMA DoneType ==
  ASSUME TypeOK, NEW p \in Procs, Done(p)
  PROVE  /\ pc' \in [Procs -> Labels]
         /\ cx' \in [Procs -> Cx \cup {NoCx}]
         /\ \A q \in Procs : pc'[q] # "idle" => cx'[q] \in Cx
  BY DEF TypeOK, Done, Goto, Labels

LEMMA AskType ==
  ASSUME TypeOK, NEW p \in Procs, Ask(p)
  PROVE  TypeOK'
  <1>1. PICK kind \in {"init", "acquire", "heartbeat", "release", "act"},
             d \in Desks, t \in Threads \cup {"nobody"}, token \in 0 .. minted,
             way \in {"plain", "force", "recover", "reuse"} :
          Begin(p, Request(kind, d, t, token, way))
    BY DEF Ask
  <1> DEFINE op == Request(kind, d, t, token, way)
             c == [op |-> op, ino |-> 0, known |-> FALSE, copy |-> NoState, ends |-> 0,
                   gives |-> 0]
             label == IF op.kind = "acquire" THEN "look" ELSE "open"
  <1>2. op \in Op
    <2> DEFINE at == IF kind = "acquire" THEN clock ELSE 0
    <2>1. at \in Nat /\ token \in Nat
      BY DEF TypeOK
    <2>2. op = [kind |-> kind, desk |-> d, thread |-> t, token |-> token, way |-> way,
                at |-> at, seen |-> NoLease]
      BY DEF Request
    <2> HIDE DEF at, op
    <2> QED
      BY <2>1, <2>2, NoLeaseType DEF Op
  <1> HIDE DEF op
  <1>3. c \in Cx
    BY <1>2, NoStateType DEF Cx
  <1>4. label \in Labels /\ pc' = [pc EXCEPT ![p] = label] /\ cx' = [cx EXCEPT ![p] = c]
    BY <1>1 DEF Labels, Begin, Goto, op
  <1> HIDE DEF c, label
  <1>5. /\ pc' \in [Procs -> Labels]
        /\ cx' \in [Procs -> Cx \cup {NoCx}]
        /\ \A q \in Procs : pc'[q] # "idle" => cx'[q] \in Cx
    BY <1>3, <1>4, MoveType
  <1> QED
    BY <1>5 DEF Ask, TypeOK

LEMMA CandidateType ==
  ASSUME TypeOK, NEW op \in Op
  PROVE  Candidate(op) \in Lease
  BY NoLeaseType DEF Candidate, OnFile, TypeOK, State, Op

LEMMA LookType ==
  ASSUME TypeOK, NEW p \in Procs, Look(p)
  PROVE  TypeOK'
  <1> DEFINE op == [cx[p].op EXCEPT !.seen = Candidate(cx[p].op)]
             c == [cx[p] EXCEPT !.op = op]
  <1>1. cx[p] \in Cx
    BY DEF Look, TypeOK
  <1>2. op \in Op
    <2>1. cx[p].op \in Op
      BY <1>1 DEF Cx
    <2> QED
      BY <2>1, CandidateType DEF Op
  <1>3. c \in Cx
    <2> HIDE DEF op
    <2> QED
      BY <1>1, <1>2 DEF Cx
  <1>4. /\ pc' \in [Procs -> Labels]
        /\ cx' \in [Procs -> Cx \cup {NoCx}]
        /\ \A q \in Procs : pc'[q] # "idle" => cx'[q] \in Cx
    <2>1. CASE Accepts(lockFile, lockFile \in marked)
      <3>1. pc' = [pc EXCEPT ![p] = "open"] /\ cx' = [cx EXCEPT ![p] = c]
        BY <2>1 DEF Look, Goto
      <3> HIDE DEF c
      <3> QED
        BY <1>3, <3>1, MoveType DEF Labels
    <2>2. CASE ~Accepts(lockFile, lockFile \in marked)
      BY <2>2, DoneType DEF Look
    <2> QED
      BY <2>1, <2>2
  <1> QED
    BY <1>4 DEF Look, TypeOK

LEMMA OpenType ==
  ASSUME TypeOK, NEW p \in Procs, Open(p)
  PROVE  TypeOK'
  <1> DEFINE c == [cx[p] EXCEPT !.ino = lockFile]
  <1>1. c \in Cx
    BY DEF Open, TypeOK, Cx
  <1>2. pc' = [pc EXCEPT ![p] = "wait"] /\ cx' = [cx EXCEPT ![p] = c]
    BY DEF Open, Goto
  <1> HIDE DEF c
  <1>3. /\ pc' \in [Procs -> Labels]
        /\ cx' \in [Procs -> Cx \cup {NoCx}]
        /\ \A q \in Procs : pc'[q] # "idle" => cx'[q] \in Cx
    BY <1>1, <1>2, MoveType DEF Labels
  <1> QED
    BY <1>3 DEF Open, TypeOK

LEMMA EnterType ==
  ASSUME TypeOK, NEW p \in Procs, Enter(p)
  PROVE  TypeOK'
  <1> DEFINE c == [cx[p] EXCEPT !.known = cx[p].ino \in marked]
  <1>1. c \in Cx
    <2> DEFINE known == cx[p].ino \in marked
    <2>1. known \in BOOLEAN
      OBVIOUS
    <2>2. cx[p] \in Cx
      BY DEF Enter, TypeOK
    <2>3. [cx[p] EXCEPT !.known = TRUE] \in Cx /\ [cx[p] EXCEPT !.known = FALSE] \in Cx
      BY <2>2 DEF Cx
    <2> QED
      BY <2>1, <2>3
  <1>3. /\ pc' \in [Procs -> Labels]
        /\ cx' \in [Procs -> Cx \cup {NoCx}]
        /\ \A q \in Procs : pc'[q] # "idle" => cx'[q] \in Cx
    <2>1. CASE cx[p].ino = lockFile
      <3>1. pc' = [pc EXCEPT ![p] = "read"] /\ cx' = [cx EXCEPT ![p] = c]
        BY <2>1 DEF Enter, Goto
      <3> HIDE DEF c
      <3> QED
        BY <1>1, <3>1, MoveType DEF Labels
    <2>2. CASE cx[p].ino # lockFile
      BY <2>2, DoneType DEF Enter
    <2> QED
      BY <2>1, <2>2
  <1> QED
    BY <1>3 DEF Enter, TypeOK

LEMMA ReadType ==
  ASSUME TypeOK, NEW p \in Procs, Read(p)
  PROVE  TypeOK'
  <1> DEFINE m == Mutated(file, cx[p].op)
             copy == [m.state EXCEPT !.present = TRUE]
             c == [cx[p] EXCEPT !.copy = copy, !.ends = m.ends, !.gives = m.gives]
             next == AfterRead(cx[p])
  <1>1. cx[p] \in Cx
    BY DEF Read, TypeOK
  <1>2. m \in Change
    BY <1>1, MutatedIs DEF Cx, TypeOK
  <1>3. copy \in State
    <2> HIDE DEF m
    <2> QED
      BY <1>2 DEF Change, State
  <1>4. c \in Cx
    <2>1. m.ends \in Nat /\ m.gives \in Nat
      BY <1>2 DEF Change
    <2> HIDE DEF m, copy
    <2> QED
      BY <1>1, <1>3, <2>1 DEF Cx
  <1>5. next \in Labels
    BY DEF AfterRead, Labels
  <1>6. CASE Accepts(cx[p].ino, cx[p].known) /\ next # "idle"
    <2>1. /\ pc' = [pc EXCEPT ![p] = next] /\ cx' = [cx EXCEPT ![p] = c]
          /\ minted' = IF m.gives > minted THEN m.gives ELSE minted
      BY <1>6 DEF Read, Goto
    <2>2. minted' \in Nat
      BY <1>2, <2>1 DEF Change, TypeOK
    <2> HIDE DEF c, next
    <2>3. /\ pc' \in [Procs -> Labels]
          /\ cx' \in [Procs -> Cx \cup {NoCx}]
          /\ \A q \in Procs : pc'[q] # "idle" => cx'[q] \in Cx
      BY <1>4, <1>5, <2>1, MoveType
    <2> QED
      BY <2>2, <2>3 DEF Read, TypeOK
  <1>7. CASE ~(Accepts(cx[p].ino, cx[p].known) /\ next # "idle")
    <2>1. Done(p) /\ UNCHANGED minted
      BY <1>7 DEF Read
    <2>2. /\ pc' \in [Procs -> Labels]
          /\ cx' \in [Procs -> Cx \cup {NoCx}]
          /\ \A q \in Procs : pc'[q] # "idle" => cx'[q] \in Cx
      BY <2>1, DoneType
    <2> QED
      BY <2>1, <2>2 DEF Read, TypeOK
  <1> QED
    BY <1>6, <1>7

LEMMA ActType ==
  ASSUME TypeOK, NEW p \in Procs, Act(p)
  PROVE  TypeOK'
  <1>1. cx[p] \in Cx
    BY DEF Act, TypeOK
  <1> DEFINE d == cx[p].op.desk
             l == cx[p].copy.leases[d]
             a == [gen |-> l.gen, token |-> cx[p].op.token]
  <1>2. d \in Desks /\ l.gen \in Nat /\ cx[p].op.token \in Nat
    BY <1>1 DEF Cx, Op, State, Lease
  <1>3. acted' = [acted EXCEPT ![d] = a] \/ acted' = acted
    BY DEF Act
  <1>4. a \in [gen : Nat, token : Nat]
    BY <1>2
  <1> HIDE DEF a, d, l
  <1>5. acted' \in [Desks -> [gen : Nat, token : Nat]]
    BY <1>2, <1>3, <1>4 DEF TypeOK
  <1>6. /\ pc' \in [Procs -> Labels]
        /\ cx' \in [Procs -> Cx \cup {NoCx}]
        /\ \A q \in Procs : pc'[q] # "idle" => cx'[q] \in Cx
    BY DoneType DEF Act
  <1> QED
    BY <1>5, <1>6 DEF Act, TypeOK

LEMMA CheckType ==
  ASSUME TypeOK, NEW p \in Procs, Check(p)
  PROVE  TypeOK'
  <1>1. /\ pc' \in [Procs -> Labels]
        /\ cx' \in [Procs -> Cx \cup {NoCx}]
        /\ \A q \in Procs : pc'[q] # "idle" => cx'[q] \in Cx
    <2>1. CASE cx[p].ino = lockFile
      BY <2>1 DEF Check, Goto, TypeOK, Labels
    <2>2. CASE cx[p].ino # lockFile
      BY <2>2, DoneType DEF Check
    <2> QED
      BY <2>1, <2>2
  <1> QED
    BY <1>1 DEF Check, TypeOK

LEMMA RenameType ==
  ASSUME TypeOK, NEW p \in Procs, Rename(p)
  PROVE  TypeOK'
  <1>1. cx[p] \in Cx
    BY DEF Rename, TypeOK
  <1>2. file' \in State
    BY <1>1 DEF Rename, Cx, State
  <1>3. owed' \in [Desks -> Nat]
    BY DEF Rename, TypeOK
  <1>4. pc' \in [Procs -> Labels] /\ \A q \in Procs : pc'[q] # "idle" => cx'[q] \in Cx
    BY DEF Rename, Goto, TypeOK, Labels
  <1> QED
    BY <1>2, <1>3, <1>4 DEF Rename, TypeOK

LEMMA MarkType ==
  ASSUME TypeOK, NEW p \in Procs, Mark(p)
  PROVE  TypeOK'
  <1>1. cx[p].gives \in Nat
    BY DEF Mark, TypeOK, Cx
  <1>2. owed' \in [Desks -> Nat] /\ marked' \subseteq Nat
    BY <1>1 DEF Mark, TypeOK
  <1>3. /\ pc' \in [Procs -> Labels]
        /\ cx' \in [Procs -> Cx \cup {NoCx}]
        /\ \A q \in Procs : pc'[q] # "idle" => cx'[q] \in Cx
    BY DoneType DEF Mark
  <1> QED
    BY <1>2, <1>3 DEF Mark, TypeOK

LEMMA GiveUpType ==
  ASSUME TypeOK, NEW p \in Procs, GiveUp(p) \/ Crash(p)
  PROVE  TypeOK'
  <1>1. Done(p)
    BY DEF GiveUp, Crash
  <1>2. /\ pc' \in [Procs -> Labels]
        /\ cx' \in [Procs -> Cx \cup {NoCx}]
        /\ \A q \in Procs : pc'[q] # "idle" => cx'[q] \in Cx
    BY <1>1, DoneType
  <1>3. CASE GiveUp(p)
    BY <1>2, <1>3 DEF GiveUp, TypeOK
  <1>4. CASE Crash(p)
    BY <1>2, <1>4 DEF Crash, TypeOK
  <1> QED
    BY <1>3, <1>4

LEMMA WorldType ==
  ASSUME TypeOK, Tick \/ ReplaceLock \/ LoseState
  PROVE  TypeOK'
  <1>1. CASE Tick
    BY <1>1 DEF TypeOK, Tick
  <1>2. CASE ReplaceLock
    BY <1>2 DEF TypeOK, ReplaceLock
  <1>3. CASE LoseState
    BY <1>3, NoStateType DEF TypeOK, LoseState
  <1> QED
    BY <1>1, <1>2, <1>3
-----------------------------------------------------------------------------
(* One holder of the lock, and a marker that tells the truth.              *)

LEMMA DoneLocks ==
  ASSUME TypeOK, Locks, NEW p \in Procs, Done(p), UNCHANGED <<lockFile, file, marked>>
  PROVE  Locks'
  BY DEF TypeOK, Done, Goto, Locked, Locks, Alone, InoOne, Place, Marking, CopyPresent

LEMMA AskLocks ==
  ASSUME TypeOK, Locks, NEW p \in Procs, Ask(p)
  PROVE  Locks'
  <1>1. /\ \A q \in Procs : q # p => pc'[q] = pc[q] /\ cx'[q] = cx[q]
        /\ pc'[p] \in {"look", "open"}
        /\ UNCHANGED <<lockFile, file, marked>>
    BY DEF Ask, Begin, Goto, TypeOK
  <1> QED
    BY <1>1 DEF Locked, Locks, Alone, InoOne, Place, Marking, CopyPresent

LEMMA LookLocks ==
  ASSUME TypeOK, Locks, NEW p \in Procs, Look(p)
  PROVE  Locks'
  <1>1. CASE Accepts(lockFile, lockFile \in marked)
    <2>1. /\ \A q \in Procs : q # p => pc'[q] = pc[q] /\ cx'[q] = cx[q]
          /\ pc'[p] = "open"
          /\ UNCHANGED <<lockFile, file, marked>>
      BY <1>1 DEF Look, Goto, TypeOK
    <2> QED
      BY <2>1 DEF Locked, Locks, Alone, InoOne, Place, Marking, CopyPresent
  <1>2. CASE ~Accepts(lockFile, lockFile \in marked)
    BY <1>2, DoneLocks DEF Look
  <1> QED
    BY <1>1, <1>2

LEMMA OpenLocks ==
  ASSUME TypeOK, Locks, NEW p \in Procs, Open(p)
  PROVE  Locks'
  <1>1. /\ \A q \in Procs : q # p => pc'[q] = pc[q] /\ cx'[q] = cx[q]
        /\ pc'[p] = "wait" /\ cx'[p].ino = lockFile
        /\ UNCHANGED <<lockFile, file, marked>>
    BY DEF Open, Goto, TypeOK, Cx
  <1> QED
    BY <1>1 DEF Locked, Locks, Alone, InoOne, Place, Marking, CopyPresent

LEMMA EnterLocks ==
  ASSUME TypeOK, Locks, NEW p \in Procs, Enter(p)
  PROVE  Locks'
  <1>1. CASE cx[p].ino = lockFile
    <2>1. /\ \A q \in Procs : q # p => pc'[q] = pc[q] /\ cx'[q] = cx[q]
          /\ pc'[p] = "read" /\ cx'[p].ino = cx[p].ino
          /\ UNCHANGED <<lockFile, file, marked>>
      BY <1>1 DEF Enter, Goto, TypeOK, Cx
    <2>2. \A q \in Procs : pc[q] \notin Locked
      BY <1>1 DEF Enter, Held, Locks, InoOne, Place
    <2> QED
      BY <1>1, <2>1, <2>2 DEF Locked, Locks, Alone, InoOne, Place, Marking, CopyPresent
  <1>2. CASE cx[p].ino # lockFile
    BY <1>2, DoneLocks DEF Enter
  <1> QED
    BY <1>1, <1>2

LEMMA ReadLocks ==
  ASSUME TypeOK, Locks, NEW p \in Procs, Read(p)
  PROVE  Locks'
  <1> DEFINE m == Mutated(file, cx[p].op)
             next == AfterRead(cx[p])
  <1>1. CASE Accepts(cx[p].ino, cx[p].known) /\ next # "idle"
    <2>1. m.state \in State /\ cx[p] \in Cx
      BY MutatedIs DEF Change, Cx, TypeOK, Read
    <2>2. /\ \A q \in Procs : q # p => pc'[q] = pc[q] /\ cx'[q] = cx[q]
          /\ pc'[p] = next /\ cx'[p].ino = cx[p].ino
          /\ cx'[p].copy = [m.state EXCEPT !.present = TRUE]
          /\ UNCHANGED <<lockFile, file, marked>>
      <3> DEFINE copy == [m.state EXCEPT !.present = TRUE]
                 c == [cx[p] EXCEPT !.copy = copy, !.ends = m.ends, !.gives = m.gives]
      <3>1. pc' = [pc EXCEPT ![p] = next] /\ cx' = [cx EXCEPT ![p] = c]
        BY <1>1 DEF Read, Goto
      <3>2. c.copy = copy /\ c.ino = cx[p].ino
        <4> HIDE DEF m, copy
        <4> QED
          BY <2>1 DEF Cx
      <3> HIDE DEF m, next, c
      <3> QED
        BY <3>1, <3>2 DEF Read, TypeOK
    <2>3. cx'[p].copy.present
      <3> HIDE DEF m
      <3> QED
        BY <2>1, <2>2 DEF State
    <2>4. pc[p] = "read" /\ next \in Locked
      BY <1>1 DEF Read, AfterRead, Locked
    <2>5. next = "mark" => file.present /\ file.identity = 1
      BY DEF AfterRead, Locks, Place
    <2> HIDE DEF next, m
    <2>6. Alone' /\ InoOne'
      BY <2>2, <2>4 DEF Locked, Locks, Alone, InoOne
    <2>7. Place' /\ Marking'
      BY <2>2, <2>5 DEF Locks, Place, Marking
    <2>8. CopyPresent'
      BY <2>2, <2>3 DEF Locks, CopyPresent
    <2> QED
      BY <2>6, <2>7, <2>8 DEF Locks
  <1>2. CASE ~(Accepts(cx[p].ino, cx[p].known) /\ next # "idle")
    BY <1>2, DoneLocks DEF Read
  <1> QED
    BY <1>1, <1>2

LEMMA CheckLocks ==
  ASSUME TypeOK, Locks, NEW p \in Procs, Check(p)
  PROVE  Locks'
  <1>1. CASE cx[p].ino = lockFile
    BY <1>1 DEF TypeOK, Check, Goto, Locked, Locks, Alone, InoOne, Place, Marking, CopyPresent
  <1>2. CASE cx[p].ino # lockFile
    BY <1>2, DoneLocks DEF Check
  <1> QED
    BY <1>1, <1>2

LEMMA RenameLocks ==
  ASSUME TypeOK, Locks, NEW p \in Procs, Rename(p)
  PROVE  Locks'
  <1>1. cx[p].copy \in State /\ cx[p].copy.present /\ cx[p].ino = 1
    BY DEF Rename, TypeOK, Cx, Locks, CopyPresent, InoOne, Locked
  <1>2. file'.present /\ file'.identity = 1
    BY <1>1 DEF Rename, State
  <1>3. /\ \A q \in Procs : q # p => pc'[q] = pc[q] /\ pc[q] \notin Locked
        /\ pc[p] = "rename" /\ pc'[p] = "mark" /\ UNCHANGED <<cx, lockFile, marked>>
    BY DEF Rename, Goto, TypeOK, Locks, Alone, Locked
  <1> QED
    BY <1>2, <1>3 DEF Locked, Locks, Alone, InoOne, Place, Marking, CopyPresent

LEMMA MarkLocks ==
  ASSUME TypeOK, Locks, NEW p \in Procs, Mark(p)
  PROVE  Locks'
  <1>1. marked' \subseteq {1} /\ file.present /\ file.identity = 1
    BY DEF Mark, Locks, Place, Marking
  <1>2. /\ \A q \in Procs : q # p => pc'[q] = pc[q] /\ cx'[q] = cx[q]
        /\ pc'[p] = "idle" /\ UNCHANGED <<lockFile, file>>
    BY DEF Mark, Done, Goto, TypeOK
  <1> QED
    BY <1>1, <1>2 DEF Locked, Locks, Alone, InoOne, Place, Marking, CopyPresent
-----------------------------------------------------------------------------
(* What was granted stays, and generations grow.                           *)

\* Time passes: what is overdue stays so.
LEMMA TickGrants ==
  ASSUME TypeOK, Grants, Tick
  PROVE  Grants'
  <1>1. \A l \in Lease : Overdue(l) => Overdue(l)'
    BY LeaseAssumption DEF Tick, Overdue, Lease, TypeOK
  <1>2. UNCHANGED <<file, pc, cx, owed, acted>>
    BY DEF Tick
  <1>3. Calls'
    BY <1>1, <1>2 DEF Grants, Calls, SeenOverdue, TypeOK, Cx, Op
  <1>4. Prepared'
    <2> SUFFICES ASSUME NEW p \in Procs, pc[p] \in {"check", "rename"}
                 PROVE  Changed(file, cx[p].op, Result(cx[p]))'
      BY <1>2 DEF Prepared
    <2>1. Changed(file, cx[p].op, Result(cx[p]))
      BY DEF Grants, Prepared
    <2>2. file.leases[cx[p].op.desk] \in Lease
      BY DEF TypeOK, State, Cx, Op
    <2>3. Granted(file, cx[p].op, Result(cx[p])) => Granted(file, cx[p].op, Result(cx[p]))'
      BY <1>1, <1>2, <2>2 DEF Granted, Result
    <2>4. Kept(file, cx[p].op, Result(cx[p])) => Kept(file, cx[p].op, Result(cx[p]))'
      BY <1>2 DEF Kept, Result
    <2>5. Freed(file, cx[p].op, Result(cx[p])) => Freed(file, cx[p].op, Result(cx[p]))'
      BY <1>2 DEF Freed, Owns, Result
    <2> QED
      BY <1>2, <2>1, <2>3, <2>4, <2>5 DEF Changed, Result
  <1> QED
    BY <1>2, <1>3, <1>4 DEF Grants, Given, Acting, Owed, Generations

\* A change of one operation that leaves the file, the time and the promises.
LEMMA MoveCalls ==
  ASSUME TypeOK, Grants, NEW p \in Procs,
         UNCHANGED <<file, clock>>,
         \A q \in Procs : q # p => pc'[q] = pc[q] /\ cx'[q] = cx[q],
         pc'[p] # "idle" => /\ SeenOverdue(cx'[p].op)
                            /\ cx'[p].op.kind = "act" => cx'[p].op.token # 0,
         pc'[p] \in {"check", "rename"} => Changed(file, cx'[p].op, Result(cx'[p])),
         pc'[p] = "mark" => cx'[p].gives \in {0, file.leases[cx'[p].op.desk].token},
         pc'[p] = "act" => cx'[p].op.kind = "act" /\ cx'[p].copy.leases = file.leases
  PROVE  Calls' /\ Prepared' /\ Given' /\ Acting'
  <1>1. Calls'
    <2> SUFFICES ASSUME NEW q \in Procs, pc'[q] # "idle"
                 PROVE  /\ SeenOverdue(cx[q].op)'
                        /\ cx'[q].op.kind = "act" => cx'[q].op.token # 0
      BY DEF Calls
    <2>1. SeenOverdue(cx'[q].op) /\ (cx'[q].op.kind = "act" => cx'[q].op.token # 0)
      BY DEF Grants, Calls
    <2> QED
      BY <2>1 DEF SeenOverdue, Overdue
  <1>2. Prepared'
    <2> SUFFICES ASSUME NEW q \in Procs, pc'[q] \in {"check", "rename"}
                 PROVE  Changed(file, cx[q].op, Result(cx[q]))'
      BY DEF Prepared
    <2>1. Changed(file, cx'[q].op, Result(cx'[q]))
      BY DEF Grants, Prepared
    <2> QED
      BY <2>1 DEF Changed, Kept, Granted, Freed, Owns, Overdue, Result
  <1>3. Given' /\ Acting'
    BY DEF Grants, Given, Acting
  <1> QED
    BY <1>1, <1>2, <1>3

LEMMA MoveGrants ==
  ASSUME TypeOK, Grants, NEW p \in Procs,
         UNCHANGED <<file, clock, owed, acted>>,
         \A q \in Procs : q # p => pc'[q] = pc[q] /\ cx'[q] = cx[q],
         pc'[p] # "idle" => /\ SeenOverdue(cx'[p].op)
                            /\ cx'[p].op.kind = "act" => cx'[p].op.token # 0,
         pc'[p] \in {"check", "rename"} => Changed(file, cx'[p].op, Result(cx'[p])),
         pc'[p] = "mark" => cx'[p].gives \in {0, file.leases[cx'[p].op.desk].token},
         pc'[p] = "act" => cx'[p].op.kind = "act" /\ cx'[p].copy.leases = file.leases
  PROVE  Grants'
  <1>1. Calls' /\ Prepared' /\ Given' /\ Acting'
    BY MoveCalls
  <1> QED
    BY <1>1 DEF Grants, Owed, Generations

LEMMA DoneCalls ==
  ASSUME TypeOK, Grants, NEW p \in Procs, Done(p), UNCHANGED <<file, clock>>
  PROVE  Calls' /\ Prepared' /\ Given' /\ Acting'
  <1>1. /\ \A q \in Procs : q # p => pc'[q] = pc[q] /\ cx'[q] = cx[q]
        /\ pc'[p] = "idle"
    BY DEF Done, Goto, TypeOK
  <1> QED
    BY <1>1, MoveCalls

LEMMA DoneGrants ==
  ASSUME TypeOK, Grants, NEW p \in Procs, Done(p), UNCHANGED <<file, clock, owed, acted>>
  PROVE  Grants'
  <1>1. /\ \A q \in Procs : q # p => pc'[q] = pc[q] /\ cx'[q] = cx[q]
        /\ pc'[p] = "idle"
    BY DEF Done, Goto, TypeOK
  <1> QED
    BY <1>1, MoveGrants

LEMMA AskGrants ==
  ASSUME TypeOK, Grants, NEW p \in Procs, Ask(p)
  PROVE  Grants'
  <1>1. PICK kind \in {"init", "acquire", "heartbeat", "release", "act"},
             d \in Desks, t \in Threads \cup {"nobody"}, token \in 0 .. minted,
             way \in {"plain", "force", "recover", "reuse"} :
          /\ Legal(Request(kind, d, t, token, way))
          /\ Begin(p, Request(kind, d, t, token, way))
    BY DEF Ask
  <1> DEFINE op == Request(kind, d, t, token, way)
  <1>2. op.seen = NoLease
    BY DEF Request
  <1>3. op.kind = "act" => op.token # 0
    BY <1>1 DEF Legal
  <1> HIDE DEF op
  <1>4. /\ \A q \in Procs : q # p => pc'[q] = pc[q] /\ cx'[q] = cx[q]
        /\ pc'[p] \in {"look", "open"} /\ cx'[p].op = op
    BY <1>1 DEF Begin, Goto, TypeOK, op
  <1>5. UNCHANGED <<file, clock, owed, acted>>
    BY DEF Ask
  <1> QED
    BY <1>2, <1>3, <1>4, <1>5, MoveGrants DEF SeenOverdue

LEMMA LookGrants ==
  ASSUME TypeOK, Grants, NEW p \in Procs, Look(p)
  PROVE  Grants'
  <1>1. CASE Accepts(lockFile, lockFile \in marked)
    <2> DEFINE op == [cx[p].op EXCEPT !.seen = Candidate(cx[p].op)]
               c == [cx[p] EXCEPT !.op = op]
    <2>1. cx[p] \in Cx /\ cx[p].op \in Op
      BY DEF Look, TypeOK, Cx
    <2>2. /\ op.seen = Candidate(cx[p].op) /\ op.kind = cx[p].op.kind
          /\ op.token = cx[p].op.token
      BY <2>1 DEF Op
    <2>3. c.op = op
      <3> HIDE DEF op
      <3> QED
        BY <2>1 DEF Cx
    <2>4. pc' = [pc EXCEPT ![p] = "open"] /\ cx' = [cx EXCEPT ![p] = c]
      BY <1>1 DEF Look, Goto
    <2> HIDE DEF c
    <2>5. /\ \A q \in Procs : q # p => pc'[q] = pc[q] /\ cx'[q] = cx[q]
          /\ pc'[p] = "open" /\ cx'[p].op = op
      BY <2>3, <2>4 DEF TypeOK
    <2> HIDE DEF op
    <2>6. SeenOverdue(op)
      BY <2>2 DEF SeenOverdue, Candidate
    <2>7. op.kind = "act" => op.token # 0
      BY <2>2 DEF Grants, Calls, Look
    <2>8. UNCHANGED <<file, clock, owed, acted>>
      BY DEF Look
    <2> QED
      BY <2>5, <2>6, <2>7, <2>8, MoveGrants
  <1>2. CASE ~Accepts(lockFile, lockFile \in marked)
    BY <1>2, DoneGrants DEF Look
  <1> QED
    BY <1>1, <1>2

LEMMA OpenGrants ==
  ASSUME TypeOK, Grants, NEW p \in Procs, Open(p)
  PROVE  Grants'
  <1>1. /\ \A q \in Procs : q # p => pc'[q] = pc[q] /\ cx'[q] = cx[q]
        /\ pc'[p] = "wait" /\ cx'[p].op = cx[p].op
        /\ UNCHANGED <<file, clock, owed, acted>>
    BY DEF Open, Goto, TypeOK, Cx
  <1>2. SeenOverdue(cx[p].op) /\ (cx[p].op.kind = "act" => cx[p].op.token # 0)
    BY DEF Open, Grants, Calls
  <1> QED
    BY <1>1, <1>2, MoveGrants

LEMMA EnterGrants ==
  ASSUME TypeOK, Grants, NEW p \in Procs, Enter(p)
  PROVE  Grants'
  <1>1. CASE cx[p].ino = lockFile
    <2>1. /\ \A q \in Procs : q # p => pc'[q] = pc[q] /\ cx'[q] = cx[q]
          /\ pc'[p] = "read" /\ cx'[p].op = cx[p].op
          /\ UNCHANGED <<file, clock, owed, acted>>
      BY <1>1 DEF Enter, Goto, TypeOK, Cx
    <2>2. SeenOverdue(cx[p].op) /\ (cx[p].op.kind = "act" => cx[p].op.token # 0)
      BY DEF Enter, Grants, Calls
    <2> QED
      BY <2>1, <2>2, MoveGrants
  <1>2. CASE cx[p].ino # lockFile
    BY <1>2, DoneGrants DEF Enter
  <1> QED
    BY <1>1, <1>2

\* What is prepared differs from the file only as Changed allows.
LEMMA ReadGrants ==
  ASSUME TypeOK, Grants, NEW p \in Procs, Read(p)
  PROVE  Grants'
  <1> DEFINE m == Mutated(file, cx[p].op)
             next == AfterRead(cx[p])
             copy == [m.state EXCEPT !.present = TRUE]
             c == [cx[p] EXCEPT !.copy = copy, !.ends = m.ends, !.gives = m.gives]
  <1>1. CASE Accepts(cx[p].ino, cx[p].known) /\ next # "idle"
    <2>1. cx[p] \in Cx /\ cx[p].op \in Op /\ pc[p] = "read"
      BY DEF Read, TypeOK, Cx
    <2>2. SeenOverdue(cx[p].op) /\ (cx[p].op.kind = "act" => cx[p].op.token # 0)
      BY <2>1 DEF Grants, Calls
    <2>3. m \in Change /\ Changed(file, cx[p].op, m)
      BY <2>1, <2>2, MutatedIs DEF TypeOK
    <2>4. copy.leases = m.state.leases /\ copy.counter = m.state.counter
      <3> HIDE DEF m
      <3> QED
        BY <2>3 DEF Change, State
    <2>5. c.op = cx[p].op /\ c.copy = copy /\ c.ends = m.ends /\ c.gives = m.gives
      <3> HIDE DEF m, copy
      <3> QED
        BY <2>1 DEF Cx
    <2>6. pc' = [pc EXCEPT ![p] = next] /\ cx' = [cx EXCEPT ![p] = c]
      BY <1>1 DEF Read, Goto
    <2> HIDE DEF c, copy
    <2>7. /\ \A q \in Procs : q # p => pc'[q] = pc[q] /\ cx'[q] = cx[q]
          /\ pc'[p] = next /\ cx'[p] = c
      <3> HIDE DEF next
      <3> QED
        BY <2>6 DEF TypeOK
    <2>8. Changed(file, c.op, Result(c))
      <3> HIDE DEF m
      <3> QED
        BY <2>3, <2>4, <2>5 DEF Changed, Kept, Granted, Freed, Result
    <2>9. next = "mark" => c.gives = 0
      BY <2>5 DEF AfterRead, Mutated, Same
    <2>10. next = "act" => c.op.kind = "act" /\ c.copy.leases = file.leases
      BY <2>4, <2>5 DEF AfterRead, Mutated, Same
    <2>11. UNCHANGED <<file, clock, owed, acted>>
      BY DEF Read
    <2> HIDE DEF m, next
    <2> QED
      BY <2>2, <2>5, <2>7, <2>8, <2>9, <2>10, <2>11, MoveGrants
  <1>2. CASE ~(Accepts(cx[p].ino, cx[p].known) /\ next # "idle")
    BY <1>2, DoneGrants DEF Read
  <1> QED
    BY <1>1, <1>2

LEMMA CheckGrants ==
  ASSUME TypeOK, Grants, NEW p \in Procs, Check(p)
  PROVE  Grants'
  <1>1. CASE cx[p].ino = lockFile
    <2>1. /\ \A q \in Procs : q # p => pc'[q] = pc[q] /\ cx'[q] = cx[q]
          /\ pc[p] = "check" /\ pc'[p] = "rename" /\ cx'[p] = cx[p]
          /\ UNCHANGED <<file, clock, owed, acted>>
      BY <1>1 DEF Check, Goto, TypeOK
    <2>2. /\ SeenOverdue(cx[p].op) /\ (cx[p].op.kind = "act" => cx[p].op.token # 0)
          /\ Changed(file, cx[p].op, Result(cx[p]))
      BY <2>1 DEF Grants, Calls, Prepared
    <2> QED
      BY <2>1, <2>2, MoveGrants
  <1>2. CASE cx[p].ino # lockFile
    BY <1>2, DoneGrants DEF Check
  <1> QED
    BY <1>1, <1>2
\* What acts is the lease on file, and it becomes the last that acted.
LEMMA ActGrants ==
  ASSUME TypeOK, Grants, NEW p \in Procs, Act(p)
  PROVE  Grants'
  <1> DEFINE d == cx[p].op.desk
             l == file.leases[d]
  <1>1. cx[p] \in Cx /\ d \in Desks /\ l \in Lease /\ pc[p] = "act"
    BY DEF Act, TypeOK, Cx, Op, State
  <1>2. l = cx[p].copy.leases[d] /\ cx[p].op.token # 0
    BY <1>1 DEF Grants, Acting, Calls
  <1>3. Calls' /\ Prepared' /\ Given' /\ Acting'
    BY DoneCalls DEF Act
  <1>4. Owed' /\ UNCHANGED file
    BY DEF Act, Grants, Owed
  <1>5. Generations'
    <2>1. CASE Current(l, cx[p].op)
      <3>1. acted' = [acted EXCEPT ![d] = [gen |-> l.gen, token |-> cx[p].op.token]]
        BY <1>2, <2>1 DEF Act
      <3>2. l.token = cx[p].op.token
        BY <2>1 DEF Current
      <3>3. acted'[d].gen = l.gen /\ acted'[d].token = l.token
        BY <1>1, <3>1, <3>2 DEF TypeOK
      <3>4. \A e \in Desks : e # d => acted'[e] = acted[e]
        BY <3>1 DEF TypeOK
      <3>5. l.gen <= file.counter /\ l.gen <= l.gen
        BY <1>1 DEF Grants, Generations, Lease
      <3> HIDE DEF d
      <3> QED
        BY <1>4, <3>3, <3>4, <3>5 DEF Grants, Generations
    <2>2. CASE ~Current(l, cx[p].op)
      BY <1>2, <1>4, <2>2 DEF Act, Grants, Generations
    <2> QED
      BY <2>1, <2>2
  <1> QED
    BY <1>3, <1>4, <1>5 DEF Grants

LEMMA MarkGrants ==
  ASSUME TypeOK, Grants, NEW p \in Procs, Mark(p)
  PROVE  Grants'
  <1> DEFINE d == cx[p].op.desk
  <1>1. d \in Desks /\ pc[p] = "mark"
    BY DEF Mark, TypeOK, Cx, Op
  <1>2. Calls' /\ Prepared' /\ Given' /\ Acting'
    BY DoneCalls DEF Mark
  <1>3. cx[p].gives \in {0, file.leases[d].token}
    BY <1>1 DEF Grants, Given
  <1>4. Owed'
    BY <1>1, <1>3 DEF Mark, Grants, Owed, TypeOK
  <1>5. Generations'
    BY DEF Mark, Grants, Generations
  <1> QED
    BY <1>2, <1>4, <1>5 DEF Grants

LEMMA RenameGrants ==
  ASSUME TypeOK, Locks, Grants, NEW p \in Procs, Rename(p)
  PROVE  Grants'
  <1> DEFINE c == cx[p]
             d == c.op.desk
             old == file.leases[d]
             new == c.copy.leases[d]
  <1>1. c \in Cx /\ d \in Desks /\ c.copy \in State /\ pc[p] = "rename"
    BY DEF Rename, TypeOK, Cx, Op
  <1>2. /\ old \in Lease /\ new \in Lease /\ file.counter \in Nat
        /\ c.copy.counter \in Nat /\ c.ends \in Nat
    BY <1>1 DEF TypeOK, State, Cx
  <1>3. Changed(file, c.op, Result(c))
    BY <1>1 DEF Grants, Prepared
  <1>4. file'.leases = c.copy.leases /\ file'.counter = c.copy.counter
    BY <1>1 DEF Rename, State
  <1>5. /\ \A q \in Procs : q # p => pc'[q] = pc[q] /\ pc[q] \notin Locked
        /\ pc'[p] = "mark" /\ UNCHANGED <<cx, clock, acted>>
    BY DEF Rename, Goto, TypeOK, Locks, Alone, Locked
  <1>6. owed' = [owed EXCEPT ![d] = IF owed[d] = c.ends THEN 0 ELSE owed[d]]
    BY DEF Rename
  <1> DEFINE r == Result(c)
  <1>r. r.state = c.copy /\ r.ends = c.ends /\ r.gives = c.gives
    BY DEF Result
  <1> HIDE DEF r
  <1>7. /\ \A e \in Desks : e # d => c.copy.leases[e] = file.leases[e]
        /\ c.copy.counter >= file.counter
        /\ new.gen <= c.copy.counter \/ new.gen = old.gen
        /\ Kept(file, c.op, r) \/ Granted(file, c.op, r) \/ Freed(file, c.op, r)
    BY <1>3, <1>r DEF Changed, r
  <1>8. \/ /\ new.token = old.token /\ new.gen = old.gen
           /\ c.ends = 0 /\ c.gives \in {0, old.token}
        \/ /\ new.gen > file.counter /\ c.gives = new.token /\ c.ends = old.token
        \/ /\ new.token = 0 /\ c.gives = 0 /\ c.ends = old.token
    <2>1. CASE Kept(file, c.op, r)
      BY <2>1, <1>r DEF Kept
    <2>2. CASE Granted(file, c.op, r)
      BY <2>2, <1>r DEF Granted
    <2>3. CASE Freed(file, c.op, r)
      BY <2>3, <1>r DEF Freed, NoLease
    <2> QED
      BY <1>7, <2>1, <2>2, <2>3
  <1> HIDE DEF c, d, old, new
  <1>9. Calls'
    <2> SUFFICES ASSUME NEW q \in Procs, pc'[q] # "idle"
                 PROVE  /\ SeenOverdue(cx[q].op)'
                        /\ cx'[q].op.kind = "act" => cx'[q].op.token # 0
      BY DEF Calls
    <2>1. SeenOverdue(cx[q].op) /\ (cx[q].op.kind = "act" => cx[q].op.token # 0)
      BY <1>1, <1>5 DEF Grants, Calls
    <2> QED
      BY <1>5, <2>1 DEF SeenOverdue, Overdue
  <1>10. Prepared' /\ Acting'
    BY <1>5 DEF Prepared, Acting, Locked
  <1>11. Given'
    BY <1>4, <1>5, <1>8 DEF Given, Locked, c, d, old, new
  <1>12. Owed'
    <2> SUFFICES ASSUME NEW e \in Desks, owed'[e] # 0
                 PROVE  file'.leases[e].token = owed'[e]
      BY DEF Owed
    <2>1. CASE e = d
      <3>1. owed[d] # c.ends /\ owed'[d] = owed[d]
        BY <1>6, <2>1 DEF TypeOK
      <3>2. owed[d] = old.token
        BY <2>1, <3>1 DEF Grants, Owed, old
      <3> QED
        BY <1>4, <1>8, <2>1, <3>1, <3>2 DEF new
    <2>2. CASE e # d
      BY <1>4, <1>6, <1>7, <2>2 DEF Grants, Owed, TypeOK
    <2> QED
      BY <2>1, <2>2
  <1>13. Generations'
    <2> SUFFICES ASSUME NEW e \in Desks
                 PROVE  /\ acted[e].gen <= file'.counter
                        /\ file'.leases[e].gen <= file'.counter
                        /\ file'.leases[e].token # 0 =>
                             /\ acted[e].gen <= file'.leases[e].gen
                             /\ acted[e].gen = file'.leases[e].gen
                                => acted[e].token = file'.leases[e].token
      BY <1>5 DEF Generations
    <2>1. /\ acted[e].gen <= file.counter
          /\ file.leases[e].gen <= file.counter
          /\ file.leases[e].token # 0 =>
                /\ acted[e].gen <= file.leases[e].gen
                /\ acted[e].gen = file.leases[e].gen
                   => acted[e].token = file.leases[e].token
      BY DEF Grants, Generations
    <2>2. acted[e].gen \in Nat /\ file.leases[e].gen \in Nat
      BY DEF TypeOK, State, Lease
    <2>3. CASE e # d
      BY <1>2, <1>4, <1>7, <2>1, <2>2, <2>3
    <2>4. CASE e = d
      <3>1. file'.leases[e] = new /\ file.leases[e] = old
        BY <1>4, <2>4 DEF new, old
      <3>2. new.gen \in Nat
        BY <1>2 DEF Lease
      <3> QED
        BY <1>2, <1>4, <1>7, <1>8, <2>1, <2>2, <3>1, <3>2
    <2> QED
      BY <2>3, <2>4
  <1> QED
    BY <1>9, <1>10, <1>11, <1>12, <1>13 DEF Grants
-----------------------------------------------------------------------------
(* The invariant holds in every state.                                     *)

LEMMA InitInv == Init => Inv
  <1> SUFFICES ASSUME Init PROVE Inv
    OBVIOUS
  <1>1. TypeOK
    BY InitType
  <1>2. \A p \in Procs : pc[p] = "idle"
    BY DEF Init
  <1>3. /\ file.identity = 0 /\ file.counter \in Nat
        /\ \A d \in Desks : file.leases[d].gen <= file.counter /\ file.leases[d].gen \in Nat
    <2>1. CASE file = NoState
      BY <2>1 DEF NoState, NoLease
    <2>2. ASSUME NEW d \in Desks, NEW t \in Threads,
                 file = [NoState EXCEPT !.present = TRUE, !.counter = 1,
                           !.leases[d] = [token |-> 1, gen |-> 1, thread |-> t,
                                          beat |-> 0, until |-> Term]]
          PROVE  /\ file.identity = 0 /\ file.counter \in Nat
                 /\ \A e \in Desks : /\ file.leases[e].gen <= file.counter
                                    /\ file.leases[e].gen \in Nat
      <3> DEFINE l == [token |-> 1, gen |-> 1, thread |-> t, beat |-> 0, until |-> Term]
      <3>1. file.identity = 0 /\ file.counter = 1
        BY <2>2 DEF NoState
      <3>2. file.leases = [[e \in Desks |-> NoLease] EXCEPT ![d] = l]
        BY <2>2 DEF NoState
      <3>3. l.gen = 1 /\ NoLease.gen = 0
        BY DEF NoLease
      <3> HIDE DEF l
      <3>4. \A e \in Desks : file.leases[e] = l \/ file.leases[e] = NoLease
        BY <3>2
      <3> QED
        BY <3>1, <3>3, <3>4
    <2> QED
      BY <2>1, <2>2 DEF Init
  <1>4. Locks
    BY <1>2, <1>3 DEF Init, Locks, Alone, InoOne, Place, Marking, CopyPresent, Locked
  <1>5. Calls /\ Prepared /\ Given /\ Acting
    BY <1>2 DEF Calls, Prepared, Given, Acting
  <1>6. Owed
    BY DEF Init, Owed
  <1>7. \A d \in Desks : acted[d].gen = 0 /\ acted[d].token = 0
    BY DEF Init, NoAct
  <1>8. \A d \in Desks : file.leases[d].token # 0 => file.leases[d].gen = 1
    <2>1. CASE file = NoState
      BY <2>1 DEF NoState, NoLease
    <2>2. ASSUME NEW d \in Desks, NEW t \in Threads,
                 file = [NoState EXCEPT !.present = TRUE, !.counter = 1,
                           !.leases[d] = [token |-> 1, gen |-> 1, thread |-> t,
                                          beat |-> 0, until |-> Term]]
          PROVE  \A e \in Desks : file.leases[e].token # 0 => file.leases[e].gen = 1
      <3> DEFINE l == [token |-> 1, gen |-> 1, thread |-> t, beat |-> 0, until |-> Term]
      <3>1. file.leases = [[e \in Desks |-> NoLease] EXCEPT ![d] = l]
        BY <2>2 DEF NoState
      <3>2. l.gen = 1 /\ NoLease.token = 0
        BY DEF NoLease
      <3> HIDE DEF l
      <3>3. \A e \in Desks : file.leases[e] = l \/ file.leases[e] = NoLease
        BY <3>1
      <3> QED
        BY <3>2, <3>3
    <2> QED
      BY <2>1, <2>2 DEF Init
  <1>9. Generations
    BY <1>3, <1>7, <1>8 DEF Generations
  <1> QED
    <2>1. faults = 0
      BY ZenonT(20) DEF Init
    <2>2. faults <= MaxFaults
      BY <2>1, LeaseAssumption
    <2> QED
      BY <2>2, <1>1, <1>4, <1>5, <1>6, <1>9 DEF Inv, Grants

\* A step that is not a fault keeps the second part of the invariant.
LEMMA QuietStep ==
  ASSUME TypeOK, Locks, Grants, NEW p \in Procs,
         \/ Ask(p) \/ Look(p) \/ Open(p) \/ Enter(p) \/ GiveUp(p) \/ Read(p) \/ Act(p)
         \/ Check(p) \/ Rename(p) \/ Mark(p) \/ Crash(p)
  PROVE  Locks' /\ Grants'
  <1>1. CASE Ask(p)
    BY <1>1, AskLocks, AskGrants
  <1>2. CASE Look(p)
    BY <1>2, LookLocks, LookGrants
  <1>3. CASE Open(p)
    BY <1>3, OpenLocks, OpenGrants
  <1>4. CASE Enter(p)
    BY <1>4, EnterLocks, EnterGrants
  <1>5. CASE GiveUp(p)
    BY <1>5, DoneLocks, DoneGrants DEF GiveUp
  <1>6. CASE Read(p)
    <2>1. SeenOverdue(cx[p].op)
      BY <1>6 DEF Read, Grants, Calls
    <2> QED
      BY <1>6, <2>1, ReadLocks, ReadGrants
  <1>7. CASE Act(p)
    BY <1>7, DoneLocks, ActGrants DEF Act
  <1>8. CASE Check(p)
    BY <1>8, CheckLocks, CheckGrants
  <1>9. CASE Rename(p)
    BY <1>9, RenameLocks, RenameGrants
  <1>10. CASE Mark(p)
    BY <1>10, MarkLocks, MarkGrants
  <1>11. CASE Crash(p)
    BY <1>11, DoneLocks, DoneGrants DEF Crash
  <1> QED
    BY <1>1, <1>2, <1>3, <1>4, <1>5, <1>6, <1>7, <1>8, <1>9, <1>10, <1>11

LEMMA TypeStep ==
  ASSUME TypeOK, NEW p \in Procs,
         \/ Ask(p) \/ Look(p) \/ Open(p) \/ Enter(p) \/ GiveUp(p) \/ Read(p) \/ Act(p)
         \/ Check(p) \/ Rename(p) \/ Mark(p) \/ Crash(p)
  PROVE  TypeOK'
  BY AskType, LookType, OpenType, EnterType, GiveUpType, ReadType, ActType, CheckType,
     RenameType, MarkType

LEMMA NextInv == Inv /\ [Next]_vars => Inv'
  <1> SUFFICES ASSUME Inv, [Next]_vars PROVE Inv'
    OBVIOUS
  <1>1. ASSUME NEW p \in Procs,
               \/ Ask(p) \/ Look(p) \/ Open(p) \/ Enter(p) \/ GiveUp(p) \/ Read(p)
               \/ Act(p) \/ Check(p) \/ Rename(p) \/ Mark(p) \/ Crash(p)
        PROVE  Inv'
    <2>1. TypeOK'
      BY <1>1, TypeStep DEF Inv
    <2>2. faults' = faults
      BY <1>1 DEF Ask, Look, Open, Enter, GiveUp, Read, Act, Check, Rename, Mark, Crash
    <2>3. faults = 0 => Locks' /\ Grants'
      BY <1>1, QuietStep DEF Inv
    <2> QED
      BY <2>1, <2>2, <2>3 DEF Inv
  <1>2. CASE Tick
    <2>1. TypeOK' /\ faults' = faults
      BY <1>2, WorldType DEF Inv, Tick
    <2>2. Locks => Locks'
      BY <1>2 DEF Tick, Locks, Alone, InoOne, Place, Marking, CopyPresent
    <2>3. Grants => Grants'
      BY <1>2, TickGrants DEF Inv
    <2> QED
      BY <2>1, <2>2, <2>3 DEF Inv
  <1>3. CASE ReplaceLock \/ LoseState
    <2>1. TypeOK'
      BY <1>3, WorldType DEF Inv
    <2>2. faults' # 0 /\ faults' <= MaxFaults
      BY <1>3, LeaseAssumption DEF ReplaceLock, LoseState, Inv, TypeOK
    <2> QED
      BY <2>1, <2>2 DEF Inv
  <1>4. CASE UNCHANGED vars
    <2>1. UNCHANGED <<lockFile, marked, file, clock, minted, pc, cx>>
          /\ UNCHANGED <<owed, acted, asked, crashes, faults>>
      BY <1>4 DEF vars
    <2>2. TypeOK'
      BY <2>1 DEF Inv, TypeOK
    <2>3. Locks => Locks'
      BY <2>1 DEF Locks, Alone, InoOne, Place, Marking, CopyPresent
    <2>4. Grants => Grants'
      <3>1. Calls => Calls'
        BY <2>1 DEF Calls, SeenOverdue, Overdue
      <3>2. Prepared => Prepared'
        <4> SUFFICES ASSUME Prepared, NEW p \in Procs, pc'[p] \in {"check", "rename"}
                     PROVE  Changed(file, cx[p].op, Result(cx[p]))'
          BY DEF Prepared
        <4>1. Changed(file, cx[p].op, Result(cx[p]))
          BY <2>1 DEF Prepared
        <4>2. Granted(file, cx[p].op, Result(cx[p])) => Granted(file, cx[p].op, Result(cx[p]))'
          BY <2>1 DEF Granted, Result, Overdue
        <4>3. Kept(file, cx[p].op, Result(cx[p])) => Kept(file, cx[p].op, Result(cx[p]))'
          BY <2>1 DEF Kept, Result
        <4>4. Freed(file, cx[p].op, Result(cx[p])) => Freed(file, cx[p].op, Result(cx[p]))'
          BY <2>1 DEF Freed, Owns, Result
        <4> QED
          BY <2>1, <4>1, <4>2, <4>3, <4>4 DEF Changed, Result
      <3>3. Given => Given'
        BY <2>1 DEF Given
      <3>4. Acting => Acting'
        BY <2>1 DEF Acting
      <3>5. Owed => Owed'
        BY <2>1 DEF Owed
      <3>6. Generations => Generations'
        BY <2>1 DEF Generations
      <3> QED
        BY <3>1, <3>2, <3>3, <3>4, <3>5, <3>6 DEF Grants
    <2> QED
      BY <2>1, <2>2, <2>3, <2>4 DEF Inv
  <1> QED
    BY <1>1, <1>2, <1>3, <1>4 DEF Next

LEMMA Invariance == Spec => []Inv
  <1> QED
    BY InitInv, NextInv, PTL DEF Spec

-----------------------------------------------------------------------------
(* The theorems.                                                           *)

\* However many processes call desktop-lease-store.js, every state its file
\* and its callers reach is well formed.
THEOREM TypeAlways == Spec => []TypeOK
  <1>1. Inv => TypeOK
    BY DEF Inv
  <1> QED
    BY <1>1, Invariance, PTL

\* A process that dies at any step of a mutation never leaves the lock file
\* and the state in a combination that readLeaseState refuses.
THEOREM CrashNeverShutsAlways == Spec => []CrashNeverShuts
  <1>1. Inv => CrashNeverShuts
    BY DEF Inv, Locks, Place, CrashNeverShuts, Shut, Accepts
  <1> QED
    BY <1>1, Invariance, PTL

\* Without a replaced lock file or a lost state, a lease that was granted and
\* answered is on file until a release, a recovery or force takes it away.
THEOREM GrantsKeptAlways ==
  ASSUME MaxFaults = 0
  PROVE  Spec => []GrantsKept
  <1>1. Inv => GrantsKept
    <2> SUFFICES ASSUME Inv PROVE GrantsKept
      OBVIOUS
    <2>1. faults = 0
      BY DEF Inv, TypeOK
    <2> QED
      BY <2>1 DEF Inv, Grants, Owed, GrantsKept, OnFile
  <1> QED
    BY <1>1, Invariance, PTL

\* What withCurrentLeaseAction performs, it performs under the lease that is
\* on file at that moment, later than every lease that acted before.
LEMMA ActFenced ==
  ASSUME Inv, faults = 0, NEW p \in Procs, Act(p), NEW d \in Desks, acted'[d] # acted[d]
  PROVE  OnFile(d).token = acted'[d].token /\ acted'[d].gen > acted[d].gen
  <1> DEFINE op == cx[p].op
             l == cx[p].copy.leases[op.desk]
             a == [gen |-> l.gen, token |-> op.token]
  <1>1. cx[p] \in Cx /\ op.desk \in Desks /\ op.token # 0
    BY DEF Act, Inv, TypeOK, Cx, Op, Grants, Calls, Acting
  <1>2. l = file.leases[op.desk]
    BY DEF Act, Inv, Grants, Acting
  <1>3. acted' = [acted EXCEPT ![op.desk] = a] /\ l.token = op.token
    BY DEF Act, Current
  <1>4. acted \in [Desks -> [gen : Nat, token : Nat]]
    BY DEF Inv, TypeOK
  <1>5. a.gen = l.gen /\ a.token = op.token /\ a = [gen |-> a.gen, token |-> a.token]
    OBVIOUS
  <1> HIDE DEF a
  <1>6. op.desk = d /\ acted'[d] = a
    BY <1>1, <1>3, <1>4
  <1>7. acted[d] \in [gen : Nat, token : Nat] /\ file.leases[d].gen \in Nat
    BY <1>4 DEF Inv, TypeOK, State, Lease
  <1>8. /\ acted[d].gen <= file.leases[d].gen
        /\ acted[d].gen = file.leases[d].gen => acted[d].token = file.leases[d].token
    BY <1>1, <1>2, <1>3, <1>6 DEF Inv, Grants, Generations
  <1>9. acted[d].gen # file.leases[d].gen
    <2> SUFFICES ASSUME acted[d].gen = file.leases[d].gen PROVE FALSE
      OBVIOUS
    <2>1. acted[d].gen = a.gen /\ acted[d].token = a.token
      BY <1>2, <1>3, <1>5, <1>6, <1>8
    <2>2. acted[d] = [gen |-> acted[d].gen, token |-> acted[d].token]
      BY <1>7
    <2> QED
      BY <2>1, <2>2, <1>5, <1>6
  <1> QED
    BY <1>2, <1>3, <1>5, <1>6, <1>7, <1>8, <1>9 DEF OnFile

\* Without a fault, actions on a desktop happen under the lease on file, and
\* their generations grow.
THEOREM ActionsFencedAlways ==
  ASSUME MaxFaults = 0
  PROVE  Spec => ActionsFenced
  <1>1. Inv /\ [Next]_vars =>
          [\A d \in Desks : acted'[d] # acted[d] =>
              /\ OnFile(d).token = acted'[d].token \/ Shut
              /\ acted'[d].gen > acted[d].gen]_vars
    <2> SUFFICES ASSUME Inv, [Next]_vars, NEW d \in Desks, acted'[d] # acted[d]
                 PROVE  OnFile(d).token = acted'[d].token /\ acted'[d].gen > acted[d].gen
      OBVIOUS
    <2>1. faults = 0
      BY DEF Inv, TypeOK
    <2>2. PICK p \in Procs : Act(p)
      BY DEF Next, vars, Ask, Look, Open, Enter, GiveUp, Read, Check, Rename, Mark,
             Crash, Tick, ReplaceLock, LoseState
    <2> QED
      BY <2>1, <2>2, ActFenced
  <1> QED
    BY <1>1, Invariance, PTL DEF Spec, ActionsFenced

\* What the rename of a mutation takes away, it takes for one of the causes
\* desktop-leases.js and the mutators know.
LEMMA RenameForCause ==
  ASSUME Inv, faults = 0, NEW p \in Procs, Rename(p), NEW d \in Desks,
         owed[d] # 0, OnFile(d).token = owed[d], file'.leases[d].token # owed[d]
  PROVE  /\ cx[p].op.desk = d
         /\ \/ cx[p].op.way = "force"
            \/ cx[p].op.kind = "release" /\ Owns(OnFile(d), cx[p].op)
            \/ cx[p].op.kind = "acquire" /\ Overdue(OnFile(d))
  <1> DEFINE op == cx[p].op
             m == Result(cx[p])
  <1>1. cx[p] \in Cx /\ cx[p].copy \in State
    BY DEF Rename, Inv, TypeOK, Cx
  <1>2. file'.leases = cx[p].copy.leases /\ m.state = cx[p].copy
    BY <1>1 DEF Rename, State, Result
  <1>3. Changed(file, op, m)
    BY DEF Rename, Inv, Grants, Prepared
  <1>4. op.desk = d
    BY <1>2, <1>3 DEF Changed, OnFile
  <1>5. ~Kept(file, op, m)
    BY <1>2, <1>4 DEF Kept, OnFile
  <1>6. CASE Granted(file, op, m)
    <2>1. NoLease.token = 0
      BY DEF NoLease
    <2> QED
      BY <1>4, <1>6, <2>1 DEF Granted, OnFile
  <1>7. CASE Freed(file, op, m)
    BY <1>4, <1>7 DEF Freed, OnFile
  <1> QED
    BY <1>3, <1>4, <1>5, <1>6, <1>7 DEF Changed

\* Without a fault, an answered lease goes away only by force, by its own
\* thread, or because it is overdue when it is taken.
THEOREM TakenForCauseAlways ==
  ASSUME MaxFaults = 0
  PROVE  Spec => TakenForCause
  <1>1. Inv /\ [Next]_vars =>
          [\A d \in Desks :
             (/\ owed[d] # 0 /\ OnFile(d).token = owed[d]
              /\ file'.present /\ file'.leases[d].token # owed[d])
             => \/ Shut \/ Shut'
                \/ \E p \in Procs :
                     /\ pc[p] = "rename" /\ cx[p].op.desk = d
                     /\ \/ cx[p].op.way = "force"
                        \/ cx[p].op.kind = "release" /\ Owns(OnFile(d), cx[p].op)
                        \/ cx[p].op.kind = "acquire" /\ Overdue(OnFile(d))]_vars
    <2> SUFFICES ASSUME Inv, [Next]_vars, NEW d \in Desks, owed[d] # 0,
                        OnFile(d).token = owed[d], file'.present,
                        file'.leases[d].token # owed[d]
                 PROVE  \E p \in Procs :
                          /\ pc[p] = "rename" /\ cx[p].op.desk = d
                          /\ \/ cx[p].op.way = "force"
                             \/ cx[p].op.kind = "release" /\ Owns(OnFile(d), cx[p].op)
                             \/ cx[p].op.kind = "acquire" /\ Overdue(OnFile(d))
      OBVIOUS
    <2>1. faults = 0
      BY DEF Inv, TypeOK
    <2>2. file' # file
      BY DEF OnFile
    <2>3. PICK p \in Procs : Rename(p)
      <3>1. ~LoseState /\ ~ReplaceLock
        BY <2>1, LeaseAssumption DEF LoseState, ReplaceLock
      <3>2. ~Tick /\ ~UNCHANGED vars
        BY <2>2 DEF Tick, vars
      <3>3. \A p \in Procs : ~Ask(p) /\ ~Look(p) /\ ~Open(p) /\ ~Enter(p) /\ ~GiveUp(p)
        BY <2>2 DEF Ask, Look, Open, Enter, GiveUp
      <3>4. \A p \in Procs : ~Read(p) /\ ~Act(p) /\ ~Check(p) /\ ~Mark(p) /\ ~Crash(p)
        BY <2>2 DEF Read, Act, Check, Mark, Crash
      <3> QED
        BY <3>1, <3>2, <3>3, <3>4 DEF Next
    <2>4. pc[p] = "rename"
      BY <2>3 DEF Rename
    <2> QED
      BY <2>1, <2>3, <2>4, RenameForCause
  <1> QED
    BY <1>1, Invariance, PTL DEF Spec, TakenForCause

=============================================================================
