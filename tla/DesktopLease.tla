---------------------------- MODULE DesktopLease ----------------------------
(***************************************************************************)
(* Who may act on a desktop: the leases of desktop-lease-store.js, kept in *)
(* one JSON file that every process rewrites whole under a file lock       *)
(* (desktop-lease-lock.js), and the calls of desktop-leases.js on them.    *)
(*                                                                         *)
(* A mutation opens the lock file, takes the kernel's lock on it, reads    *)
(* the state, changes its copy, checks twice that the lock file is still   *)
(* in place, renames a new file over the old one and marks the lock file   *)
(* as initialized.  Every await is a step here, a process may die between  *)
(* any two, which frees the kernel's lock, and an operator may replace the *)
(* lock file or lose the state.  A read changes nothing and is one step.   *)
(*                                                                         *)
(* Left out: modes other than exclusive, released rows and their archive,  *)
(* the adoption of a retired cohort, access policies and warnings, and the *)
(* check-only assertDesktopLeaseForOperation.                              *)
(***************************************************************************)
EXTENDS Naturals

CONSTANTS
    Procs,          \* operations in flight, each as a process of its own
    Desks,          \* desktops, each with its owner
    Threads,        \* threads that reserve desktops
    Term,           \* ttl of a lease
    StaleAfter,     \* age of a heartbeat that makes a lease stale
    MaxOps,         \* bound: calls
    MaxClock,       \* bound: time
    MaxCrashes,     \* bound: processes that die
    MaxFaults       \* bound: lock files replaced, states lost

ASSUME LeaseAssumption ==
    /\ Term \in Nat /\ StaleAfter \in Nat /\ MaxOps \in Nat
    /\ MaxClock \in Nat /\ MaxCrashes \in Nat /\ MaxFaults \in Nat
    /\ Term > 0
    /\ "nobody" \notin Threads

VARIABLES
    lockFile,       \* the inode under the lock file's name
    marked,         \* the inodes that carry the marker "initialized"
    file,           \* the state file
    clock,          \* Date.now()
    minted,         \* tokens given out, each a randomUUID
    pc, cx,         \* where an operation is, and what it holds
    owed,           \* history: the lease a desktop's last answered grant gave
    acted,          \* history: the last action performed on a desktop
    asked, crashes, faults    \* what the bounds count

vars == <<lockFile, marked, file, clock, minted, pc, cx, owed, acted, asked,
          crashes, faults>>

NoLease == [token |-> 0, gen |-> 0, thread |-> "nobody", beat |-> 0, until |-> 0]
Lease == [token : Nat, gen : Nat, thread : Threads \cup {"nobody"}, beat : Nat,
          until : Nat]

\* identity is the inode the state belongs to, 0 before it is adopted.
State == [present : BOOLEAN, identity : Nat, counter : Nat, leases : [Desks -> Lease]]
NoState == [present |-> FALSE, identity |-> 0, counter |-> 0,
            leases |-> [d \in Desks |-> NoLease]]

\* way is how a lease is acquired or released; seen is the lease that a call
\* allowed to recover a stopped desktop found expired or stale.
Op == [kind : {"init", "acquire", "heartbeat", "release", "act"},
       desk : Desks, thread : Threads \cup {"nobody"}, token : Nat,
       way : {"plain", "force", "recover", "reuse"},
       at : Nat, seen : Lease]

Labels == {"idle", "look", "open", "wait", "read", "act", "check", "rename", "mark"}
Locked == {"read", "act", "check", "rename", "mark"}

\* copy is the state in memory, ends the lease this operation takes away and
\* gives the one it grants.
NoCx == [op |-> "none"]
Cx == [op : Op, ino : Nat, known : BOOLEAN, copy : State, ends : Nat, gives : Nat]

NoAct == [gen |-> 0, token |-> 0]

TypeOK ==
    /\ lockFile \in Nat /\ clock \in Nat /\ minted \in Nat /\ marked \subseteq Nat
    /\ asked \in Nat /\ crashes \in Nat /\ faults \in Nat
    /\ file \in State
    /\ pc \in [Procs -> Labels]
    /\ cx \in [Procs -> Cx \cup {NoCx}]
    /\ \A p \in Procs : pc[p] # "idle" => cx[p] \in Cx
    /\ owed \in [Desks -> Nat]
    /\ acted \in [Desks -> [gen : Nat, token : Nat]]

\* Nothing yet, or the leases of an older release that knew no lock identity.
Init ==
    /\ lockFile = 1 /\ marked = {} /\ clock = 0
    /\ \/ file = NoState /\ minted = 0
       \/ \E d \in Desks, t \in Threads :
            /\ file = [NoState EXCEPT !.present = TRUE, !.counter = 1,
                         !.leases[d] = [token |-> 1, gen |-> 1, thread |-> t,
                                        beat |-> 0, until |-> Term]]
            /\ minted = 1
    /\ pc = [p \in Procs |-> "idle"] /\ cx = [p \in Procs |-> NoCx]
    /\ owed = [d \in Desks |-> 0] /\ acted = [d \in Desks |-> NoAct]
    /\ asked = 0 /\ crashes = 0 /\ faults = 0

-----------------------------------------------------------------------------
(* The lock and the file.                                                  *)

Held(ino) == \E p \in Procs : pc[p] \in Locked /\ cx[p].ino = ino

\* readLeaseState: which file an inode with or without the marker accepts.
Accepts(ino, known) ==
    IF file.present THEN file.identity = ino \/ (file.identity = 0 /\ ~known)
                    ELSE ~known

Overdue(l) == clock >= l.until \/ clock > l.beat + StaleAfter

OnFile(d) == file.leases[d]

Goto(p, label) == pc' = [pc EXCEPT ![p] = label]
Done(p) == Goto(p, "idle") /\ cx' = [cx EXCEPT ![p] = NoCx]

-----------------------------------------------------------------------------
(* What a mutation makes of the state, who loses a lease, who gets one.    *)

Active(s, op) == s.leases[op.desk]
Put(s, d, l) == [s EXCEPT !.leases[d] = l]
Same(s) == [state |-> s, ends |-> 0, gives |-> 0]

RecoveryIgnoresHeartbeat(active, seen) ==   \* Mutation.
    seen # NoLease /\ active.token = seen.token

RecoveryMatches(active, seen) ==
    /\ seen # NoLease
    /\ <<active.token, active.thread>> = <<seen.token, seen.thread>>
    /\ <<active.beat, active.until>> = <<seen.beat, seen.until>>

MayTake(active, op) ==
    \/ active = NoLease
    \/ op.way = "force"
    \/ RecoveryMatches(active, op.seen)

NewLease(s, op) == [token |-> minted + 1, gen |-> s.counter + 1, thread |-> op.thread,
                    beat |-> op.at, until |-> op.at + Term]

Acquired(s, op) ==
    LET active == Active(s, op) IN
    IF active.thread = op.thread
    THEN [state |-> IF op.way = "reuse" THEN s
                    ELSE Put(s, op.desk, [active EXCEPT !.beat = clock,
                                                        !.until = op.at + Term]),
          ends |-> 0, gives |-> active.token]
    ELSE IF MayTake(active, op)
    THEN [state |-> [Put(s, op.desk, NewLease(s, op)) EXCEPT !.counter = @ + 1],
          ends |-> active.token, gives |-> minted + 1]
    ELSE Same(s)

\* A heartbeat and a release may name no thread, and no token (0) where the
\* mode of desktop access does not ask for one.
Owns(active, op) ==
    /\ active # NoLease
    /\ op.thread \in {"nobody", active.thread}
    /\ op.token \in {0, active.token}

Heartbeat(s, op) ==
    IF Owns(Active(s, op), op)
    THEN Same(Put(s, op.desk, [Active(s, op) EXCEPT !.beat = clock]))
    ELSE Same(s)

Released(s, op) ==
    LET active == Active(s, op) IN
    IF active # NoLease /\ (op.way = "force" \/ Owns(active, op))
    THEN [state |-> Put(s, op.desk, NoLease),
          ends |-> active.token, gives |-> 0]
    ELSE Same(s)

Mutated(s, op) ==
    CASE op.kind = "acquire" -> Acquired(s, op)
      [] op.kind = "heartbeat" -> Heartbeat(s, op)
      [] op.kind = "release" -> Released(s, op)
      [] OTHER -> Same(s)

-----------------------------------------------------------------------------
(* One operation.                                                          *)

Request(kind, d, t, token, way) ==
    [kind |-> kind, desk |-> d, thread |-> t, token |-> token, way |-> way,
     at |-> IF kind = "acquire" THEN clock ELSE 0, seen |-> NoLease]

\* The calls there are: who acquires or acts is a thread, an action needs a
\* token, force is a way to acquire or to release.
Legal(op) ==
    /\ op.kind \in {"init", "acquire"} => op.token = 0
    /\ op.kind = "act" => op.token # 0
    /\ op.kind \in {"init", "heartbeat", "act"} => op.way = "plain"
    /\ op.kind = "release" => op.way \in {"plain", "force"}
    /\ op.kind \in {"acquire", "act"} => op.thread # "nobody"
    /\ op.kind = "init" \/ (op.kind = "release" /\ op.way = "force")
       => op.thread = "nobody"
    /\ op.thread = "nobody" => op.token = 0

Begin(p, op) ==
    /\ Goto(p, IF op.kind = "acquire" THEN "look" ELSE "open")
    /\ cx' = [cx EXCEPT ![p] = [op |-> op, ino |-> 0, known |-> FALSE,
                               copy |-> NoState, ends |-> 0, gives |-> 0]]

Ask(p) ==
    /\ pc[p] = "idle" /\ asked < MaxOps
    /\ asked' = asked + 1
    /\ \E kind \in {"init", "acquire", "heartbeat", "release", "act"},
          d \in Desks, t \in Threads \cup {"nobody"}, token \in 0 .. minted,
          way \in {"plain", "force", "recover", "reuse"} :
         /\ Legal(Request(kind, d, t, token, way))
         /\ Begin(p, Request(kind, d, t, token, way))
    /\ UNCHANGED <<lockFile, marked, file, clock, minted, owed, acted, crashes, faults>>

\* acquireDesktopLease looks before it takes: a lease of another thread that
\* is expired or stale is a candidate for recovery.
Candidate(op) ==
    LET l == OnFile(op.desk) IN
    IF op.way = "recover" /\ l # NoLease /\ l.thread # op.thread /\ Overdue(l)
    THEN l ELSE NoLease

Look(p) ==
    LET op == cx[p].op IN
    /\ pc[p] = "look" /\ ~Held(lockFile)
    /\ IF Accepts(lockFile, lockFile \in marked)
       THEN /\ Goto(p, "open")
            /\ cx' = [cx EXCEPT ![p] = [cx[p] EXCEPT !.op =
                                         [op EXCEPT !.seen = Candidate(op)]]]
       ELSE Done(p)
    /\ UNCHANGED <<lockFile, marked, file, clock, minted, owed, acted, asked, crashes,
                   faults>>

Open(p) ==
    /\ pc[p] = "open"
    /\ Goto(p, "wait")
    /\ cx' = [cx EXCEPT ![p] = [cx[p] EXCEPT !.ino = lockFile]]
    /\ UNCHANGED <<lockFile, marked, file, clock, minted, owed, acted, asked, crashes,
                   faults>>

\* Mutation: a lock that is held for long is taken for abandoned.
EnterStolen(p) ==
    /\ pc[p] = "wait" /\ cx[p].ino = lockFile
    /\ Goto(p, "read")
    /\ cx' = [cx EXCEPT ![p] = [cx[p] EXCEPT !.known = cx[p].ino \in marked]]
    /\ UNCHANGED <<lockFile, marked, file, clock, minted, owed, acted, asked, crashes,
                   faults>>

\* The kernel grants the lock; the file must still be the one that was opened.
Enter(p) ==
    /\ pc[p] = "wait" /\ ~Held(cx[p].ino)
    /\ IF cx[p].ino = lockFile
       THEN /\ Goto(p, "read")
            /\ cx' = [cx EXCEPT ![p] = [cx[p] EXCEPT !.known = cx[p].ino \in marked]]
       ELSE Done(p)
    /\ UNCHANGED <<lockFile, marked, file, clock, minted, owed, acted, asked, crashes,
                   faults>>

\* The lock is not granted in time.
GiveUp(p) ==
    /\ pc[p] \in {"look", "wait"}
    /\ Held(IF pc[p] = "look" THEN lockFile ELSE cx[p].ino)
    /\ Done(p)
    /\ UNCHANGED <<lockFile, marked, file, clock, minted, owed, acted, asked, crashes,
                   faults>>

\* Where an operation goes with the state it read: an action wants an adopted
\* state, init writes only what is not adopted yet.
AfterRead(c) ==
    CASE c.op.kind = "act" ->
           IF file.present /\ file.identity = c.ino /\ c.known /\ c.ino = lockFile
           THEN "act" ELSE "idle"
      [] c.op.kind = "init" /\ file.present /\ file.identity # 0 ->
           IF c.known THEN "idle" ELSE "mark"
      [] OTHER -> "check"

\* readLeaseState, and the synchronous mutator on what it returned.
Read(p) ==
    LET c == cx[p]  m == Mutated(file, c.op)  next == AfterRead(c) IN
    /\ pc[p] = "read"
    /\ IF Accepts(c.ino, c.known) /\ next # "idle"
       THEN /\ Goto(p, next)
            /\ cx' = [cx EXCEPT ![p] =
                        [c EXCEPT !.copy = [m.state EXCEPT !.present = TRUE],
                                  !.ends = m.ends, !.gives = m.gives]]
            /\ minted' = IF m.gives > minted THEN m.gives ELSE minted
       ELSE Done(p) /\ UNCHANGED minted
    /\ UNCHANGED <<lockFile, marked, file, clock, owed, acted, asked, crashes, faults>>

CurrentOfThread(l, op) == l.thread = op.thread /\ ~Overdue(l)   \* Mutation.

\* currentActionLease: the six fields of the binding, and the times.
Current(l, op) ==
    /\ l.thread = op.thread /\ l.token = op.token
    /\ ~Overdue(l)

\* withCurrentLeaseAction: the check and the callback without an await between.
Act(p) ==
    LET c == cx[p]  l == c.copy.leases[c.op.desk] IN
    /\ pc[p] = "act"
    /\ acted' = IF Current(l, c.op)
                THEN [acted EXCEPT ![c.op.desk] = [gen |-> l.gen, token |-> c.op.token]]
                ELSE acted
    /\ Done(p)
    /\ UNCHANGED <<lockFile, marked, file, clock, minted, owed, asked, crashes, faults>>

\* Mutation: the lock file is marked before the state is in place.
CheckMarks(p) ==
    /\ pc[p] = "check"
    /\ IF cx[p].ino = lockFile
       THEN /\ Goto(p, "rename") /\ UNCHANGED cx
            /\ marked' = marked \cup {lockFile}
       ELSE Done(p) /\ UNCHANGED marked
    /\ UNCHANGED <<lockFile, file, clock, minted, owed, acted, asked, crashes, faults>>

\* #writeState, up to the second assertCurrent: the copy is in a file beside.
Check(p) ==
    /\ pc[p] = "check"
    /\ IF cx[p].ino = lockFile THEN Goto(p, "rename") /\ UNCHANGED cx ELSE Done(p)
    /\ UNCHANGED <<lockFile, marked, file, clock, minted, owed, acted, asked, crashes,
                   faults>>

Rename(p) ==
    LET c == cx[p] IN
    /\ pc[p] = "rename"
    /\ file' = [c.copy EXCEPT !.identity = c.ino]
    /\ owed' = [owed EXCEPT ![c.op.desk] = IF @ = c.ends THEN 0 ELSE @]
    /\ Goto(p, "mark")
    /\ UNCHANGED <<lockFile, marked, clock, minted, cx, acted, asked, crashes, faults>>

\* markInitialized; the lock is closed and the call returns.
Mark(p) ==
    LET c == cx[p]  current == c.ino = lockFile IN
    /\ pc[p] = "mark"
    /\ marked' = IF current THEN marked \cup {lockFile} ELSE marked
    /\ owed' = IF current /\ c.gives # 0
               THEN [owed EXCEPT ![c.op.desk] = c.gives] ELSE owed
    /\ Done(p)
    /\ UNCHANGED <<lockFile, file, clock, minted, acted, asked, crashes, faults>>

-----------------------------------------------------------------------------
(* The rest of the world.                                                  *)

Tick ==
    /\ clock < MaxClock
    /\ clock' = clock + 1
    /\ UNCHANGED <<lockFile, marked, file, minted, pc, cx, owed, acted, asked, crashes,
                   faults>>

\* A process dies anywhere; the kernel closes its lock file.
Crash(p) ==
    /\ pc[p] # "idle" /\ crashes < MaxCrashes
    /\ crashes' = crashes + 1
    /\ Done(p)
    /\ UNCHANGED <<lockFile, marked, file, clock, minted, owed, acted, asked, faults>>

\* A restore or a clean-up puts another lock file in place.
ReplaceLock ==
    /\ faults < MaxFaults
    /\ faults' = faults + 1
    /\ lockFile' = lockFile + 1
    /\ UNCHANGED <<marked, file, clock, minted, pc, cx, owed, acted, asked, crashes>>

LoseState ==
    /\ faults < MaxFaults /\ file.present
    /\ faults' = faults + 1
    /\ file' = NoState
    /\ UNCHANGED <<lockFile, marked, clock, minted, pc, cx, owed, acted, asked, crashes>>

Next ==
    \/ \E p \in Procs :
         \/ Ask(p) \/ Look(p) \/ Open(p) \/ Enter(p) \/ GiveUp(p) \/ Read(p) \/ Act(p)
         \/ Check(p) \/ Rename(p) \/ Mark(p) \/ Crash(p)
    \/ Tick \/ ReplaceLock \/ LoseState

Spec == Init /\ [][Next]_vars

-----------------------------------------------------------------------------
(* Properties.                                                             *)

\* The store refuses everybody who opens the lock file that is in place.
Shut == ~Accepts(lockFile, lockFile \in marked)

\* A lease that was granted and answered is on file until somebody takes it
\* away, however many processes rewrite the file and wherever they die.  When
\* an operator replaces the lock file in the middle of a rewrite, or loses the
\* state, the store refuses every call rather than hand the desktop out again.
GrantsKept ==
    \A d \in Desks : owed[d] # 0 => OnFile(d).token = owed[d] \/ Shut

\* An action happens under the lease that is on file at that moment, and the
\* generations of the leases that acted on a desktop only grow:
\* withCurrentLeaseAction and the mutations exclude each other.
ActionsFenced ==
    [][\A d \in Desks : acted'[d] # acted[d] =>
          /\ OnFile(d).token = acted'[d].token \/ Shut
          /\ acted'[d].gen > acted[d].gen]_vars

\* A lease that was granted and answered goes away only for a cause: by force;
\* by its own thread, and with its own token when one is given; or because it
\* is overdue now, although it was found so before the lock was taken.  Only
\* a rewrite that crosses a replacement of the lock file may lose it otherwise,
\* and the store refuses everybody then.
TakenForCause ==
    [][\A d \in Desks :
          (/\ owed[d] # 0 /\ OnFile(d).token = owed[d]
           /\ file'.present /\ file'.leases[d].token # owed[d])
          => \/ Shut \/ Shut'
             \/ \E p \in Procs :
                  /\ pc[p] = "rename" /\ cx[p].op.desk = d
                  /\ \/ cx[p].op.way = "force"
                     \/ cx[p].op.kind = "release" /\ Owns(OnFile(d), cx[p].op)
                     \/ cx[p].op.kind = "acquire" /\ Overdue(OnFile(d))]_vars

\* Processes that die, at whatever step, never make the store refuse: only a
\* replaced lock file or a lost state does.
CrashNeverShuts == faults = 0 => ~Shut
=============================================================================
