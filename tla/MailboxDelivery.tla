-------------------------- MODULE MailboxDelivery --------------------------
(***************************************************************************)
(* Mail for a main mailbox on its way into a thread                        *)
(* (mailbox-thread-delivery.js, mailbox-inbox.js): ingress keeps the       *)
(* message in the connector inbox, enqueues one delivery for each active   *)
(* and authorised listener of the thread, or a quarantine record, and      *)
(* dispatches them; a pump retries what is due, recovers claims that ran   *)
(* out and replays messages that met a policy store that was down.         *)
(* Meanwhile people create and revoke listeners, replace grants and retire *)
(* the thread.                                                             *)
(*                                                                         *)
(* Every change of the policy store is one transaction on one revision     *)
(* row; reads go on beside it.  The append of the message happens inside   *)
(* such a transaction, the fence, which is held open across it: the        *)
(* message itself is in the thread's store and outlives a rollback.        *)
(*                                                                         *)
(* One mailbox that accepts mail, one thread, one filter.  A listener that *)
(* was revoked is never active again (its successor has an id of its own), *)
(* so its generation is its status.  The claim token is the row's epoch,   *)
(* which every claim and every settlement moves.  Left out: mailbox routes,*)
(* the pump's lease (any passes run side by side here), audit, metrics.    *)
(***************************************************************************)
EXTENDS Naturals, FiniteSets

CONSTANTS
    Ingests, Pumps,     \* requests that bring mail; pumps of processes
    Messages, Listeners,
    NoWorker,           \* nobody holds the fence
    MaxAttempts,        \* maxAttempts of a delivery
    MaxReplays,         \* ORKESTR_MAILBOX_POLICY_REPLAY_MAX_ATTEMPTS
    MaxRevision,        \* bound: changes of the policy
    MaxFaults           \* bound: crashes and outages

Workers == Ingests \cup Pumps
Keys == Messages \X Listeners

ASSUME MailboxAssumption ==
    /\ NoWorker \notin Workers
    /\ MaxAttempts \in Nat \ {0} /\ MaxReplays \in Nat \ {0}
    /\ MaxRevision \in Nat /\ MaxFaults \in Nat

VARIABLES
    revision,       \* the policy's revision
    allowed,        \* the resource is active and the thread's grant recorded
    lapsed,         \* the grant's expiry has passed, which no revision tells
    listener,       \* none, active or revoked
    row,            \* the delivery of a message for a listener
    quarantined,    \* messages with a quarantine record
    inbox,          \* state of a message in the connector inbox
    replays,        \* its attempt_count
    fence,          \* who holds the append transaction open
    thread,         \* copies of a delivery's message in the thread
    pc, held,       \* where a worker is, and what it read
    faults          \* crashes and outages so far

policy == <<revision, allowed, lapsed, listener>>
mail == <<quarantined, inbox, replays>>
vars == <<revision, allowed, lapsed, listener, row, quarantined, inbox, replays,
          fence, thread, pc, held, faults>>

NoRow == [state |-> "none", rev |-> 0, epoch |-> 0, attempts |-> 0, due |-> FALSE]
Row == [state : {"none", "pending", "claimed", "delivered", "revoked", "dead-letter"},
        rev : Nat, epoch : Nat, attempts : 0..MaxAttempts, due : BOOLEAN]
Settled == {"delivered", "revoked", "dead-letter"}

\* What a worker holds: the messages it marks in the inbox when it is done and
\* the attempt_count it read; the deliveries it has still to try; the one it
\* is at, with the epoch it read or claimed, the revision and the answer of its
\* last authorisation.
NoKey == <<>>
Nothing == [msgs |-> {}, tries |-> 0, todo |-> {}, key |-> NoKey, epoch |-> 0,
            rev |-> 0, ok |-> FALSE]
Held == [msgs : SUBSET Messages, tries : Nat, todo : SUBSET Keys, key : Keys \cup {NoKey},
         epoch : Nat, rev : Nat, ok : BOOLEAN]
Steps == {"idle", "enqueue", "recover", "dispatch", "claim", "validate", "fence", "append",
          "commit", "complete"}

\* No delivery is tried more than MaxAttempts times, and one that waits or is
\* tried has a try left.
TypeOK ==
    /\ revision \in Nat /\ allowed \in BOOLEAN /\ lapsed \in BOOLEAN
    /\ listener \in [Listeners -> {"none", "active", "revoked"}]
    /\ row \in [Keys -> Row]
    /\ \A k \in Keys : row[k].state = "pending" => row[k].attempts < MaxAttempts
    /\ quarantined \subseteq Messages
    /\ inbox \in [Messages -> {"none", "pending", "policy-unavailable", "routed",
                               "dead_letter"}]
    /\ replays \in [Messages -> Nat]
    /\ fence \in Workers \cup {NoWorker}
    /\ thread \in [Keys -> Nat]
    /\ pc \in [Workers -> Steps] /\ held \in [Workers -> Held]
    /\ faults \in Nat

Init ==
    /\ revision = 0 /\ allowed = TRUE /\ lapsed = FALSE
    /\ listener = [l \in Listeners |-> "none"]
    /\ row = [k \in Keys |-> NoRow]
    /\ quarantined = {}
    /\ inbox = [m \in Messages |-> "none"] /\ replays = [m \in Messages |-> 0]
    /\ fence = NoWorker
    /\ thread = [k \in Keys |-> 0]
    /\ pc = [w \in Workers |-> "idle"] /\ held = [w \in Workers |-> Nothing]
    /\ faults = 0

\* withThreadResourcePolicyTransaction waits for the transaction that is open.
Transaction == fence = NoWorker

Granted == allowed /\ ~lapsed
Active(l) == listener[l] = "active"
Open(r) == r.state \in {"pending", "claimed"}
KeysOf(l) == Messages \X {l}

-----------------------------------------------------------------------------
(* Listeners and grants                                                    *)

Revoke(r) == [r EXCEPT !.state = "revoked", !.epoch = @ + 1, !.due = FALSE]
RevokeOpen(keys) ==
    row' = [k \in Keys |-> IF k \in keys /\ Open(row[k]) THEN Revoke(row[k]) ELSE row[k]]

\* Every change that is not bookkeeping of deliveries moves the revision.
Change ==
    /\ Transaction /\ revision < MaxRevision
    /\ revision' = revision + 1
    /\ UNCHANGED <<mail, fence, thread, pc, held, faults>>

CreateListener(l) ==
    /\ Change
    /\ Granted /\ listener[l] = "none" /\ \A o \in Listeners : ~Active(o)
    /\ listener' = [listener EXCEPT ![l] = "active"]
    /\ UNCHANGED <<allowed, lapsed, row>>

RevokeListener(l) ==
    /\ Change
    /\ Active(l)
    /\ listener' = [listener EXCEPT ![l] = "revoked"]
    /\ RevokeOpen(KeysOf(l))
    /\ UNCHANGED <<allowed, lapsed>>

ReplaceGrants ==
    /\ Change
    /\ allowed' \in BOOLEAN /\ lapsed' = FALSE
    /\ RevokeOpen(Keys)
    /\ UNCHANGED listener

RetireThread ==
    /\ Change
    /\ allowed' = FALSE /\ lapsed' = lapsed
    /\ listener' = [l \in Listeners |-> IF Active(l) THEN "revoked" ELSE listener[l]]
    /\ RevokeOpen(Keys)

\* Any other change of the policy: of the resource, of another thread's grants.
ChangePolicy ==
    /\ Change
    /\ allowed' \in BOOLEAN
    /\ UNCHANGED <<lapsed, listener, row>>

GrantLapses ==
    /\ ~lapsed /\ lapsed' = TRUE
    /\ UNCHANGED <<revision, allowed, listener, row, mail, fence, thread, pc, held, faults>>

-----------------------------------------------------------------------------
(* Ingress and replay                                                      *)

Goto(w, step) == pc' = [pc EXCEPT ![w] = step]

\* ensureConnectorInboxEvent, then the listeners and the decisions are read.
Start(w, m) ==
    /\ pc[w] = "idle"
    /\ Goto(w, "enqueue")
    /\ held' = [held EXCEPT ![w] =
                  [Nothing EXCEPT !.msgs = {m}, !.tries = replays[m],
                                  !.todo = {k \in Keys : k[1] = m /\ Active(k[2])},
                                  !.rev = revision, !.ok = Granted]]
    /\ UNCHANGED <<policy, row, quarantined, replays, fence, thread, faults>>

Ingest(w, m) ==
    /\ inbox[m] # "routed"
    /\ inbox' = [inbox EXCEPT ![m] = IF @ = "none" THEN "pending" ELSE @]
    /\ Start(w, m)

Replay(w, m) ==
    /\ inbox[m] = "policy-unavailable" /\ inbox' = inbox
    /\ Start(w, m)

\* The transaction of enqueueMailboxThreadDeliveries.
Valid(w) ==
    {k \in held[w].todo : Active(k[2]) /\ held[w].ok /\ held[w].rev = revision}

Fresh == [NoRow EXCEPT !.state = "pending", !.rev = revision, !.epoch = 1, !.due = TRUE]

Enqueue(w) ==
    /\ pc[w] = "enqueue" /\ Transaction
    /\ row' = [k \in Keys |->
                 IF k \in Valid(w) /\ row[k].state = "none" THEN Fresh ELSE row[k]]
    /\ quarantined' = IF Valid(w) = {} THEN quarantined \cup held[w].msgs ELSE quarantined
    /\ Goto(w, "recover")
    /\ held' = [held EXCEPT ![w] = [@ EXCEPT !.todo = Valid(w)]]
    /\ UNCHANGED <<policy, inbox, replays, fence, thread, faults>>

-----------------------------------------------------------------------------
(* dispatchMailboxThreadDeliveries                                         *)

\* Mutation: a claim lasts for ever.
RecoveredNever(r) == r

\* A claim that ran out is given back, or given up.
Recovered(r) ==
    IF r.state = "claimed" /\ r.due
    THEN IF r.attempts >= MaxAttempts
         THEN [r EXCEPT !.state = "dead-letter", !.epoch = @ + 1, !.due = FALSE]
         ELSE [r EXCEPT !.state = "pending", !.epoch = @ + 1]
    ELSE r

\* A pass recovers every claim, then reads the deliveries that are due: all of
\* them when a pump runs it, those just enqueued at ingress.
Pass(w, keys) ==
    /\ Transaction
    /\ row' = [k \in Keys |-> Recovered(row[k])]
    /\ Goto(w, "dispatch")
    /\ held' = [held EXCEPT ![w] =
                  [@ EXCEPT !.todo = {k \in keys : row'[k].state = "pending" /\ row'[k].due}]]
    /\ UNCHANGED <<policy, mail, fence, thread, faults>>

Pump(w) == pc[w] = "idle" /\ Pass(w, Keys)
Dispatch(w) == pc[w] = "recover" /\ Pass(w, held[w].todo)

\* validateDelivery
Authorised(k) == Active(k[2]) /\ Granted /\ row[k].rev = revision

\* claimMailboxThreadDelivery reads and validates,
ReadCandidate(w, k) ==
    /\ pc[w] = "dispatch" /\ k \in held[w].todo
    /\ row[k].state = "pending" /\ row[k].due
    /\ Goto(w, "claim")
    /\ held' = [held EXCEPT ![w] =
                  [held[w] EXCEPT !.todo = @ \ {k}, !.key = k, !.epoch = row[k].epoch,
                            !.rev = revision, !.ok = Authorised(k)]]
    /\ UNCHANGED <<policy, row, mail, fence, thread, faults>>

SetRow(k, r) == row' = [row EXCEPT ![k] = r]

\* and writes, if nobody else has meanwhile: it revokes a delivery whose policy
\* is not the one it was enqueued under, and claims the others.
Untouched(w) ==
    row[held[w].key].state = "pending" /\ row[held[w].key].epoch = held[w].epoch
StillValid(w) == held[w].ok /\ held[w].rev = revision

ClaimLost(w) ==
    /\ pc[w] = "claim" /\ Transaction /\ ~Untouched(w)
    /\ Goto(w, "dispatch")
    /\ UNCHANGED <<policy, row, mail, fence, thread, held, faults>>

ClaimRevoked(w) ==
    /\ pc[w] = "claim" /\ Transaction /\ Untouched(w) /\ ~StillValid(w)
    /\ SetRow(held[w].key, Revoke(row[held[w].key]))
    /\ Goto(w, "dispatch")
    /\ UNCHANGED <<policy, mail, fence, thread, held, faults>>

Claim(w) ==
    /\ pc[w] = "claim" /\ Transaction /\ Untouched(w) /\ StillValid(w)
    /\ SetRow(held[w].key,
              [row[held[w].key] EXCEPT !.state = "claimed", !.epoch = @ + 1,
                                       !.attempts = @ + 1, !.due = FALSE])
    /\ Goto(w, "validate")
    /\ held' = [held EXCEPT ![w] = [held[w] EXCEPT !.epoch = @ + 1]]
    /\ UNCHANGED <<policy, mail, fence, thread, faults>>

\* revalidateClaimBeforeAppend; what its own transaction finds, the fence finds.
Validate(w) ==
    /\ pc[w] = "validate"
    /\ Goto(w, IF Authorised(held[w].key) THEN "fence" ELSE "complete")
    /\ held' = [held EXCEPT ![w] =
                  [@ EXCEPT !.rev = revision, !.ok = Authorised(held[w].key)]]
    /\ UNCHANGED <<policy, row, mail, fence, thread, faults>>

\* Mutation: any claim of the delivery is taken for one's own.
HoldsAnyClaim(w) == row[held[w].key].state = "claimed"

HoldsClaim(w) ==
    row[held[w].key].state = "claimed" /\ row[held[w].key].epoch = held[w].epoch
Current(w) == HoldsClaim(w) /\ Active(held[w].key[2]) /\ held[w].rev = revision

\* Mutation: the checks are made in a transaction of their own.
EnterUnfenced(w) ==
    /\ pc[w] = "fence" /\ Transaction
    /\ Goto(w, IF Current(w) THEN "append" ELSE "complete")
    /\ UNCHANGED <<policy, row, mail, fence, thread, held, faults>>

EnterFence(w) ==
    /\ pc[w] = "fence" /\ Transaction
    /\ fence' = IF Current(w) THEN w ELSE fence
    /\ Goto(w, IF Current(w) THEN "append" ELSE "complete")
    /\ UNCHANGED <<policy, row, mail, thread, held, faults>>

\* Mutation: the thread takes every message.
AppendAgain(w) ==
    /\ pc[w] = "append"
    /\ thread' = [thread EXCEPT ![held[w].key] = @ + 1]
    /\ Goto(w, "commit")
    /\ UNCHANGED <<policy, row, mail, fence, held, faults>>

\* appendThreadMessage: the thread has one message of a clientMessageId.
Append(w) ==
    /\ pc[w] = "append"
    /\ thread' = [thread EXCEPT ![held[w].key] = 1]
    /\ Goto(w, "commit")
    /\ UNCHANGED <<policy, row, mail, fence, held, faults>>

LeaveFence(w, r) ==
    /\ SetRow(held[w].key, r)
    /\ fence' = NoWorker
    /\ Goto(w, "dispatch")
    /\ UNCHANGED <<policy, mail, thread, held, faults>>

\* It throws before it has saved the message, or after: the history, the thread
\* and the events are written later, outside the policy's transaction.
AppendFails(w) ==
    /\ pc[w] \in {"append", "commit"}
    /\ LET r == row[held[w].key] IN
       LeaveFence(w, [r EXCEPT !.epoch = @ + 1, !.due = FALSE,
                        !.state = IF r.attempts >= MaxAttempts THEN "dead-letter"
                                  ELSE "pending"])

Commit(w) ==
    /\ pc[w] = "commit"
    /\ LeaveFence(w, [row[held[w].key] EXCEPT !.state = "delivered", !.epoch = @ + 1,
                                              !.due = FALSE])

\* completeMailboxThreadDelivery of a claim that was found stale.
Complete(w) ==
    /\ pc[w] = "complete" /\ Transaction
    /\ row' = IF HoldsClaim(w)
              THEN [row EXCEPT ![held[w].key] = Revoke(row[held[w].key])] ELSE row
    /\ Goto(w, "dispatch")
    /\ UNCHANGED <<policy, mail, fence, thread, held, faults>>

\* The pass is over; the message it came with is routed, whatever became of it.
EndPass(w) ==
    /\ pc[w] = "dispatch"
    /\ \A k \in held[w].todo : row[k].state # "pending" \/ ~row[k].due
    /\ inbox' = [m \in Messages |-> IF m \in held[w].msgs THEN "routed" ELSE inbox[m]]
    /\ Goto(w, "idle")
    /\ held' = [held EXCEPT ![w] = Nothing]
    /\ UNCHANGED <<policy, row, quarantined, replays, fence, thread, faults>>

-----------------------------------------------------------------------------
(* Time and faults                                                         *)

\* claimExpiresAt or nextAttemptAt has passed.
TimePasses(k) ==
    /\ Open(row[k]) /\ ~row[k].due
    /\ SetRow(k, [row[k] EXCEPT !.due = TRUE])
    /\ UNCHANGED <<policy, mail, fence, thread, pc, held, faults>>

\* A worker stops where it is; its open transaction is rolled back.
Stop(w) ==
    /\ pc[w] # "idle" /\ faults < MaxFaults
    /\ faults' = faults + 1
    /\ fence' = IF fence = w THEN NoWorker ELSE fence
    /\ Goto(w, "idle")
    /\ held' = [held EXCEPT ![w] = Nothing]
    /\ UNCHANGED <<policy, row, quarantined, thread>>

Crash(w) == Stop(w) /\ UNCHANGED <<inbox, replays>>

\* The policy store is down: the message is kept to be replayed, with the count
\* the worker read when it began, whatever state it has by now.
Outage(w) ==
    /\ held[w].msgs # {}
    /\ Stop(w)
    /\ LET tries == held[w].tries + 1
           kept == IF w \in Pumps /\ tries >= MaxReplays THEN "dead_letter"
                   ELSE "policy-unavailable"
       IN  /\ inbox' = [m \in Messages |-> IF m \in held[w].msgs THEN kept ELSE inbox[m]]
           /\ replays' = [m \in Messages |->
                            IF m \in held[w].msgs THEN tries ELSE replays[m]]

-----------------------------------------------------------------------------
Work(w) ==
    \/ Enqueue(w) \/ Dispatch(w) \/ ClaimLost(w) \/ ClaimRevoked(w) \/ Claim(w)
    \/ Validate(w) \/ EnterFence(w) \/ Append(w) \/ AppendFails(w) \/ Commit(w)
    \/ Complete(w) \/ EndPass(w) \/ \E k \in Keys : ReadCandidate(w, k)

Policy ==
    \/ \E l \in Listeners : CreateListener(l) \/ RevokeListener(l)
    \/ ReplaceGrants \/ RetireThread \/ ChangePolicy \/ GrantLapses

Next ==
    \/ Policy
    \/ \E w \in Ingests, m \in Messages : Ingest(w, m)
    \/ \E w \in Pumps : Pump(w) \/ \E m \in Messages : Replay(w, m)
    \/ \E w \in Workers : Work(w) \/ Crash(w) \/ Outage(w)
    \/ \E k \in Keys : TimePasses(k)

Spec == Init /\ [][Next]_vars

\* The server's timer pumps again and again; a worker that is not stopped goes
\* on; time passes.
Fairness ==
    /\ \A w \in Workers : WF_vars(Work(w))
    /\ \A w \in Pumps : WF_vars(Pump(w))
    /\ \A k \in Keys : WF_vars(TimePasses(k))

LiveSpec == Spec /\ Fairness

-----------------------------------------------------------------------------
(* Properties                                                              *)

\* "A listener revoke has one unambiguous order": a message enters the thread
\* only while its listener is active, the thread is allowed to have it and the
\* policy is the one it was enqueued under, however long the append takes.
\* (Only the time a grant ends at may pass between the last check and the append.)
AppendUnderPolicy ==
    [][\A k \in Keys : thread'[k] > thread[k] =>
         Active(k[2]) /\ allowed /\ row[k].rev = revision /\ row[k].state = "claimed"]_vars

\* The thread has a delivery's message at most once, however often the append
\* failed after it had saved the message, and has it when the delivery counts as
\* delivered; it has one only by a claim that was counted as a try; and mail is
\* given up as undeliverable only after all its tries.  (A message may be in the
\* thread although its delivery was given up.)
ThreadMatchesRow ==
    \A k \in Keys :
        /\ thread[k] <= 1
        /\ row[k].state = "delivered" => thread[k] = 1
        /\ thread[k] = 1 => row[k].attempts > 0
        /\ row[k].state = "dead-letter" => row[k].attempts = MaxAttempts

\* Mail is given up as revoked only when the policy has changed since it was
\* enqueued, or the grant has run out: a worker whose claim was given to
\* another takes nothing away from that one.
RevokedForCause ==
    \A k \in Keys : row[k].state = "revoked" => row[k].rev < revision \/ lapsed

\* Every delivery is settled, whoever dies, and however often the append fails.
RowsSettle == \A k \in Keys : Open(row[k]) ~> row[k].state \in Settled
=============================================================================
