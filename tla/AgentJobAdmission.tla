------------------------- MODULE AgentJobAdmission -------------------------
(***************************************************************************)
(* The runs of one job: how trigger events become runs (admitRun and       *)
(* requestCancel of agent-job-admission.js), how the server's scheduler    *)
(* fires the job's schedule (fireDueSchedules of agent-job-scheduler.js),  *)
(* and which run may start (the queue wait of agent-job-runner.js).  What  *)
(* a run does once it may start is AgentJobRun; here it runs, waits for a  *)
(* person, is tried again and ends.                                        *)
(*                                                                         *)
(* One action is one transaction or one statement.  Between reading the    *)
(* job's spec and the transaction that admits, a process asks the provider *)
(* for its status; any other process may commit meanwhile, or register     *)
(* another version of the job.                                             *)
(*                                                                         *)
(* Left out: bodies, hashes and the audit of refused triggers; several     *)
(* jobs (runs of different jobs never meet); a clock that goes back.       *)
(***************************************************************************)
EXTENDS Naturals, Sequences, FiniteSets

CONSTANTS
    Processes,      \* processes that admit: the server, the CLI
    Schedulers,     \* those of them that run startAgentJobScheduler
    Events,         \* dedupe keys of trigger events
    Policies,       \* runtime.concurrency of the specs that get registered
    Period,         \* time between two fires of the schedule
    Aligned,        \* TRUE: daily or weekly; FALSE: every Period from now
    MaxAttempts,    \* runtime.maxAttempts; here a parked attempt counts too
    MaxRuns,        \* bound: runs of the job
    MaxClock,       \* bound: time
    MaxEdits,       \* bound: registrations of the job
    MaxCrashes      \* bound: processes and drivers that die

ASSUME AdmissionAssumption ==
    /\ Schedulers \subseteq Processes
    /\ Policies \subseteq {"forbid", "queue", "replace"}
    /\ Aligned \in BOOLEAN /\ Period \in Nat \ {0} /\ MaxAttempts \in Nat \ {0}
    /\ {MaxRuns, MaxClock, MaxEdits, MaxCrashes} \subseteq Nat

VARIABLES
    clock,          \* Date.now()
    registered,     \* the policy of the registered spec
    runs,           \* the job's rows of the table runs, by rowid
    fireAt,         \* next_fire_at of the schedule, 0 before its row is there
    pc, held,       \* where a process is, and what it read
    edits, crashes  \* what the bounds count

vars == <<clock, registered, runs, fireAt, pc, held, edits, crashes>>

ActiveStates == {"pending", "running", "retrying", "awaiting_approval"}
TerminalStates == {"succeeded", "failed", "cancelled", "skipped"}
Keys == [type : {"event"}, of : Events] \cup [type : {"slot"}, of : Nat]
NoKey == [type |-> "none", of |-> 0]
Idle == [key |-> NoKey, policy |-> "none", now |-> 0]

\* The policy is that of the pinned spec; drive is where the driver is that
\* holds the run's lease.
Run == [key : Keys, policy : Policies, state : ActiveStates \cup TerminalStates,
        cancel : BOOLEAN, created : Nat, attempts : Nat,
        drive : {"none", "cleared", "attempt"}]

TypeOK ==
    /\ clock \in Nat /\ fireAt \in Nat /\ edits \in Nat /\ crashes \in Nat
    /\ registered \in Policies
    /\ runs \in Seq(Run)
    /\ pc \in [Processes -> {"idle", "admit", "advance", "skip"}]
    /\ held \in [Processes -> [key : Keys \cup {NoKey}, now : Nat,
                               policy : Policies \cup {"none"}]]
    /\ \A p \in Processes : pc[p] = "idle" <=> held[p] = Idle

Init ==
    /\ clock = 1 /\ fireAt = 0
    /\ registered \in Policies
    /\ runs = <<>>
    /\ pc = [p \in Processes |-> "idle"]
    /\ held = [p \in Processes |-> Idle]
    /\ edits = 0 /\ crashes = 0

Active(r) == r.state \in ActiveStates
ActiveRuns == {i \in DOMAIN runs : Active(runs[i])}

\* scheduleNextFireMs
NextFire(now) == IF Aligned THEN ((now \div Period) + 1) * Period ELSE now + Period

-----------------------------------------------------------------------------
(* Triggers and the schedule                                               *)

\* A job file that changed is registered again by the sweep.
Register ==
    /\ edits < MaxEdits /\ edits' = edits + 1
    /\ registered' \in Policies
    /\ UNCHANGED <<clock, runs, fireAt, pc, held, crashes>>

Room == Len(runs) + Cardinality({p \in Processes : pc[p] = "admit"}) < MaxRuns

\* getRegisteredJob, or registerJobSpec of the spec that `orkestr run <file>`
\* brings; then the provider is asked for its status.
ReadSpec(p, e) ==
    /\ pc[p] = "idle" /\ Room
    /\ \/ registered' = registered /\ edits' = edits
       \/ registered' \in Policies /\ edits < MaxEdits /\ edits' = edits + 1
    /\ pc' = [pc EXCEPT ![p] = "admit"]
    /\ held' = [held EXCEPT ![p] = [key |-> [type |-> "event", of |-> e],
                                    policy |-> registered', now |-> 0]]
    /\ UNCHANGED <<clock, runs, fireAt, crashes>>

FirstFire(p) ==
    /\ pc[p] = "idle" /\ fireAt = 0
    /\ fireAt' = NextFire(clock)
    /\ UNCHANGED <<clock, registered, runs, pc, held, edits, crashes>>

\* The tick's now is read once, before it awaits anything; the spec is the one
\* registered when the slot is admitted.
SlotIsDue(p) ==
    /\ pc[p] = "idle" /\ fireAt > 0 /\ fireAt <= clock /\ Room
    /\ pc' = [pc EXCEPT ![p] = "admit"]
    /\ held' = [held EXCEPT ![p] = [key |-> [type |-> "slot", of |-> fireAt],
                                    policy |-> registered, now |-> clock]]
    /\ UNCHANGED <<clock, registered, runs, fireAt, edits, crashes>>

\* fireDueSchedules goes on with the slot, a request is answered.
Return(p, next) ==
    IF held[p].key.type = "slot"
    THEN pc' = [pc EXCEPT ![p] = next] /\ held' = held
    ELSE /\ pc' = [pc EXCEPT ![p] = "idle"]
         /\ held' = [held EXCEPT ![p] = Idle]

\* The provider is not connected, or admitRun fails for another reason.
Refuse(p) ==
    /\ pc[p] = "admit"
    /\ Return(p, "skip")
    /\ UNCHANGED <<clock, registered, runs, fireAt, edits, crashes>>

\* Mutation: a finished run does not count as the event's run.
WithKeyActive(k) == {i \in ActiveRuns : runs[i].key = k}

\* The transaction of admitRun.
WithKey(k) == {i \in DOMAIN runs : runs[i].key = k}

\* Mutation: a parked run does not forbid another.
NewRunUnlessRunning(key, policy) ==
    [key |-> key, policy |-> policy,
     state |-> IF policy = "forbid" /\ \E i \in ActiveRuns : runs[i].state # "awaiting_approval"
               THEN "skipped" ELSE "pending",
     cancel |-> FALSE, created |-> clock, attempts |-> 0, drive |-> "none"]

NewRun(key, policy) ==
    [key |-> key, policy |-> policy,
     state |-> IF policy = "forbid" /\ ActiveRuns # {} THEN "skipped" ELSE "pending",
     cancel |-> FALSE, created |-> clock, attempts |-> 0,
     drive |-> "none"]

Replaced(policy) ==
    [i \in DOMAIN runs |->
        IF policy = "replace" /\ Active(runs[i])
        THEN [runs[i] EXCEPT !.cancel = TRUE] ELSE runs[i]]

Admit(p) ==
    /\ pc[p] = "admit"
    /\ LET key == held[p].key
           policy == held[p].policy
       IN  runs' = IF WithKey(key) # {} THEN runs
                   ELSE Append(Replaced(policy), NewRun(key, policy))
    /\ Return(p, "advance")
    /\ UNCHANGED <<clock, registered, fireAt, edits, crashes>>

\* Mutation: the next slot is counted from the end of the admission.
AdvanceFromEnd(p) ==
    /\ pc[p] \in {"advance", "skip"}
    /\ fireAt' = NextFire(clock)
    /\ pc' = [pc EXCEPT ![p] = "idle"]
    /\ held' = [held EXCEPT ![p] = Idle]
    /\ UNCHANGED <<clock, registered, runs, edits, crashes>>

\* next_fire_at moves whether or not the slot was admitted.
Advance(p) ==
    /\ pc[p] \in {"advance", "skip"}
    /\ fireAt' = NextFire(held[p].now)
    /\ pc' = [pc EXCEPT ![p] = "idle"]
    /\ held' = [held EXCEPT ![p] = Idle]
    /\ UNCHANGED <<clock, registered, runs, edits, crashes>>

Crash(p) ==
    /\ pc[p] # "idle" /\ crashes < MaxCrashes
    /\ crashes' = crashes + 1
    /\ pc' = [pc EXCEPT ![p] = "idle"]
    /\ held' = [held EXCEPT ![p] = Idle]
    /\ UNCHANGED <<clock, registered, runs, fireAt, edits>>

Clock ==
    /\ clock < MaxClock /\ clock' = clock + 1
    /\ UNCHANGED <<registered, runs, fireAt, pc, held, edits, crashes>>

-----------------------------------------------------------------------------
(* The drivers of the runs, one per run                                    *)

Update(i, r) ==
    /\ runs' = [runs EXCEPT ![i] = r]
    /\ UNCHANGED <<clock, registered, fireAt, pc, held, edits>>

\* Mutation: a parked run does not hold up the queue.
OlderUnlessParked(i) ==
    {j \in ActiveRuns \ {i} : /\ runs[j].created < runs[i].created
                             /\ runs[j].state # "awaiting_approval"}

\* Mutation: runs of one millisecond wait for each other.
OlderOrEqual(i) == {j \in ActiveRuns \ {i} : runs[j].created <= runs[i].created}

\* A run under queue waits for the runs of the job that were created before.
OlderActive(i) == {j \in ActiveRuns \ {i} : runs[j].created < runs[i].created}

\* The loop's head, up to the transaction that starts an attempt.  A run that
\* was parked goes on when a person has decided, one that is retried when its
\* delay is over.
MayStart(i) ==
    LET r == runs[i] IN
    /\ Active(r) /\ ~r.cancel /\ r.drive = "none"
    /\ r.policy = "queue" => OlderActive(i) = {}
    /\ Update(i, [r EXCEPT !.drive = "cleared"])
    /\ UNCHANGED crashes

StartAttempt(i) ==
    LET r == runs[i] IN
    /\ r.drive = "cleared"
    /\ IF r.attempts = MaxAttempts
       THEN Update(i, [r EXCEPT !.state = "failed", !.drive = "none"])
       ELSE Update(i, [r EXCEPT !.state = "running", !.drive = "attempt",
                                !.attempts = @ + 1])
    /\ UNCHANGED crashes

EndAttempt(i) ==
    LET r == runs[i] IN
    /\ r.drive = "attempt"
    /\ \/ \E s \in {"succeeded", "failed", "retrying", "awaiting_approval"} :
             Update(i, [r EXCEPT !.state = s, !.drive = "none"])
       \/ r.cancel /\ Update(i, [r EXCEPT !.state = "cancelled", !.drive = "none"])
    /\ UNCHANGED crashes

\* At the loop's head a cancel comes before everything else.
CancelRun(i) ==
    LET r == runs[i] IN
    /\ Active(r) /\ r.cancel /\ r.drive = "none"
    /\ Update(i, [r EXCEPT !.state = "cancelled"])
    /\ UNCHANGED crashes

\* The approval's time is over: no queue holds this back.
Expire(i) ==
    LET r == runs[i] IN
    /\ r.state = "awaiting_approval" /\ ~r.cancel /\ r.drive = "none"
    /\ Update(i, [r EXCEPT !.state = "failed"])
    /\ UNCHANGED crashes

RequestCancel(i) ==
    LET r == runs[i] IN
    /\ Active(r) /\ ~r.cancel
    /\ Update(i, [r EXCEPT !.cancel = TRUE])
    /\ UNCHANGED crashes

DriverDies(i) ==
    LET r == runs[i] IN
    /\ r.drive # "none" /\ crashes < MaxCrashes
    /\ crashes' = crashes + 1
    /\ Update(i, [r EXCEPT !.drive = "none"])

-----------------------------------------------------------------------------
Scheduler(p) == FirstFire(p) \/ SlotIsDue(p)
Admission(p) == Refuse(p) \/ Admit(p) \/ Advance(p)
Drive(i) == MayStart(i) \/ StartAttempt(i) \/ EndAttempt(i) \/ CancelRun(i) \/ Expire(i)

Next ==
    \/ Register \/ Clock
    \/ \E p \in Processes : Admission(p) \/ Crash(p) \/ \E e \in Events : ReadSpec(p, e)
    \/ \E p \in Schedulers : Scheduler(p)
    \/ \E i \in DOMAIN runs : Drive(i) \/ RequestCancel(i) \/ DriverDies(i)

Spec == Init /\ [][Next]_vars

\* The sweep drives every run that can go on, a request is answered, time and
\* people do not stop.  A run that is retried again and again ends at
\* MaxAttempts.
Fairness ==
    /\ WF_vars(Clock)
    /\ \A p \in Processes : WF_vars(Admission(p))
    /\ \A p \in Schedulers : WF_vars(Scheduler(p))
    /\ \A i \in 1..MaxRuns : WF_vars(i \in DOMAIN runs /\ Drive(i))

LiveSpec == Spec /\ Fairness

-----------------------------------------------------------------------------
(* Properties                                                              *)

\* Two events with one key make one run, however the processes that received
\* them interleave, and whatever policy or state that run has.
OneRunPerKey == \A i, j \in DOMAIN runs : runs[i].key = runs[j].key => i = j

\* Two runs of a job are active together only under queue, or under replace
\* when the older one is told to stop: also when the spec is registered anew
\* while events are being admitted, and while drivers die.
OverlapAllowed ==
    \A i, j \in ActiveRuns :
        i < j => \/ runs[j].policy = "queue"
                 \/ runs[j].policy = "replace" /\ runs[i].cancel

\* Under queue no attempt starts, and none runs, while a run created before is
\* active, whatever that one is waiting for.
QueueInOrder ==
    \A i \in ActiveRuns :
        runs[i].policy = "queue" /\ runs[i].drive = "attempt" =>
            \A j \in ActiveRuns : runs[j].created >= runs[i].created

\* When the schedule moves on from a slot it did not skip, the slots before the
\* next one were fired as one run, made after the last of them.  Not after a
\* crash: a scheduler that died between the two steps fires the old slot again,
\* which makes no run, and moves on.
MissedFiresCoalesced ==
    [][\A p \in Processes :
         pc[p] = "advance" /\ pc'[p] = "idle" /\ crashes' = 0 =>
           \E i \in DOMAIN runs :
              runs[i].key = held[p].key /\ runs[i].created + Period >= fireAt']_vars

\* Every run ends: no run waits for another that waits for it.
Unended(i) == i \in DOMAIN runs /\ Active(runs[i])
RunsEnd == \A i \in 1..MaxRuns : Unended(i) ~> ~Unended(i)
=============================================================================
