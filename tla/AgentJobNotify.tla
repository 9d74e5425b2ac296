--------------------------- MODULE AgentJobNotify ---------------------------
(***************************************************************************)
(* One notification of an Agent Job run, from the intent the run's         *)
(* transaction recorded to the person it is for: the relay                 *)
(* (agent-job-notification-relay.js) enqueues it in the connector outbox,  *)
(* the dispatcher (agent-job-notification-dispatcher.js) claims the row    *)
(* and delivers it to its channel.  Several passes run at once: the        *)
(* scheduler starts one per tick and one per run it drove, the CLI relays  *)
(* too, and any of them may stop for longer than its claim lasts, or die.  *)
(* Besides them an operator acts on rows, retention deletes settled ones   *)
(* and the sweeps archive open ones.                                       *)
(*                                                                         *)
(* One action is one mutation of the outbox under its lock, one call of a  *)
(* transport, or one statement on the intent; job[p] is the copy of the    *)
(* row its claim returned, which the pass goes on with.  A WhatsApp        *)
(* message has a row of its own, inner, under the key <row key>:whatsapp.  *)
(*                                                                         *)
(* Left out: texts, targets and receipts, the order of rows in a pass, and *)
(* the bound of 50 rows a pass; the rows of other keys appear only in that *)
(* they make retention delete this one's.                                  *)
(***************************************************************************)
EXTENDS ConnectorOutbox, FiniteSets

CONSTANTS
    Passes,         \* passes of relay and dispatch that may be running
    Channels,       \* the channels the notification may have
    MaxAttempts,    \* ORKESTR_AGENT_JOB_NOTIFY_MAX_ATTEMPTS
    ThrowsAfter,    \* what a transport that throws may have made of a message
    MaxFaults,      \* bound: crashes, lapses, actions and prunes, together
    MaxRequests     \* bound: webhook requests that are counted

ASSUME NotifyAssumption ==
    /\ Passes = Claimants /\ IsFiniteSet(Passes)
    /\ Channels \subseteq {"thread", "whatsapp", "email", "webhook"}
    /\ ThrowsAfter \subseteq {"rejected", "lost"}
    /\ MaxAttempts \in Nat \ {0} /\ MaxRequests \in Nat \ {0}
    /\ MaxFaults \in Nat

VARIABLES
    channel,    \* the notification's channel
    intent,     \* its row in notifications: pending or relayed
    outer,      \* its outbox row, connector agent_job
    inner,      \* the outbox row of its WhatsApp message
    pc,         \* pc[p]: where pass p is
    job,        \* job[p]: attempts and fence of the row p's claim returned
    result,     \* result[p]: the answer of a transport, the outcome to record
    operator,   \* what an operator has read of a row
    enqueued,   \* rows the relay inserted
    sent,       \* messages the channel accepted
    crashes,    \* passes that died
    lapses,     \* row claims that ran out while their pass lived
    actions,    \* actions of operators
    prunes,     \* rows deleted by retention
    hidden      \* messages the channel accepted and the transport did not report

vars == <<channel, intent, outer, inner, pc, job, result, operator, enqueued,
          sent, crashes, lapses, actions, prunes, hidden>>
bounds == <<crashes, lapses, actions, prunes>>
rows == <<outer, inner>>

Outcomes == {"delivered", "failed_retryable", "dead_letter",
             "delivery_uncertain", "skipped"}
SendResults == {"ack", "unconfirmed", "rejected"}
Steps == {"idle", "enqueue", "markRelayed", "deliver", "waClaim", "waSend",
          "waSettle", "mailSend", "record"}
Dispatching == {"deliver", "waClaim", "waSend", "waSettle", "mailSend", "record"}
Tables == {"outer", "inner"}
NoJob == [attempts |-> 0, fence |-> FALSE]
NoRead == [table |-> "none", seen |-> NoRow]

TypeOK ==
    /\ channel \in Channels
    /\ intent \in {"pending", "relayed"}
    /\ outer \in Row /\ inner \in Row
    /\ pc \in [Passes -> Steps]
    /\ job \in [Passes -> [attempts : Nat, fence : BOOLEAN]]
    /\ result \in [Passes -> Outcomes \cup SendResults \cup {"none"}]
    /\ operator \in [table : Tables \cup {"none"}, seen : Row]
    /\ enqueued \in Nat /\ sent \in Nat /\ hidden \in Nat
    /\ crashes \in Nat /\ lapses \in Nat /\ actions \in Nat /\ prunes \in Nat

Init ==
    /\ channel \in Channels
    /\ intent = "pending"
    /\ outer = NoRow /\ inner = NoRow
    /\ pc = [p \in Passes |-> "idle"]
    /\ job = [p \in Passes |-> NoJob]
    /\ result = [p \in Passes |-> "none"]
    /\ operator = NoRead
    /\ enqueued = 0 /\ sent = 0 /\ hidden = 0
    /\ crashes = 0 /\ lapses = 0 /\ actions = 0 /\ prunes = 0

MayFault == crashes + lapses + actions + prunes < MaxFaults

At(p, step) == pc[p] = step
Goto(p, step) == pc' = [pc EXCEPT ![p] = step]
Outcome(p, o) == result' = [result EXCEPT ![p] = o] /\ Goto(p, "record")

-----------------------------------------------------------------------------
(* relayAgentJobNotifications                                              *)

ReadIntent(p) ==
    /\ At(p, "idle") /\ intent = "pending"
    /\ Goto(p, "enqueue")
    /\ UNCHANGED <<channel, intent, rows, job, result, operator, enqueued, sent, bounds, hidden>>

\* Mutation: the relay inserts without looking for the row of an earlier call.
EnqueueAnew(p) ==
    /\ At(p, "enqueue")
    /\ outer' = FreshRow /\ enqueued' = enqueued + 1
    /\ Goto(p, "markRelayed")
    /\ UNCHANGED <<channel, intent, inner, job, result, operator, sent, bounds, hidden>>

Enqueue(p) ==
    /\ At(p, "enqueue")
    /\ outer' = Ensure(outer)
    /\ enqueued' = IF Exists(outer) THEN enqueued ELSE enqueued + 1
    /\ Goto(p, "markRelayed")
    /\ UNCHANGED <<channel, intent, inner, job, result, operator, sent, bounds, hidden>>

MarkRelayed(p) ==
    /\ At(p, "markRelayed")
    /\ intent' = "relayed"
    /\ Goto(p, "idle")
    /\ UNCHANGED <<channel, rows, job, result, operator, enqueued, sent, bounds, hidden>>

-----------------------------------------------------------------------------
(* dispatchAgentJobNotifications                                           *)

ClaimRow(p) ==
    /\ At(p, "idle") /\ Claimable(outer)
    /\ outer' = Claim(outer, p)
    /\ job' = [job EXCEPT ![p] = [attempts |-> outer'.attempts, fence |-> outer'.fence]]
    /\ result' = [result EXCEPT ![p] = "none"]
    /\ Goto(p, "deliver")
    /\ UNCHANGED <<channel, intent, inner, operator, enqueued, sent, bounds, hidden>>

\* appendThreadMessage finds the message of an earlier call by its key.
DeliverThread(p) ==
    /\ At(p, "deliver") /\ channel = "thread"
    /\ \/ sent' = 1 /\ Outcome(p, "delivered")
       \/ sent' \in {sent, 1} /\ Outcome(p, "failed_retryable")
       \/ sent' = sent /\ Outcome(p, "dead_letter")
    /\ UNCHANGED <<channel, intent, rows, job, operator, enqueued, bounds, hidden>>

\* The receiver may have taken a request whose answer never came.
DeliverWebhook(p) ==
    /\ At(p, "deliver") /\ channel = "webhook"
    /\ LET accepted == IF sent < MaxRequests THEN sent + 1 ELSE sent IN
       \/ sent' = accepted /\ Outcome(p, "delivered")
       \/ sent' \in {sent, accepted} /\ Outcome(p, "failed_retryable")
       \/ sent' = sent /\ Outcome(p, "dead_letter")
    /\ UNCHANGED <<channel, intent, rows, job, operator, enqueued, bounds, hidden>>

\* Mutation: the fence is written and never read.
MailIsFencedNever(p) == FALSE

\* Fenced: the copy the claim returned shows a send without an outcome.
MailIsFenced(p) == job[p].fence

DeliverEmail(p) ==
    /\ At(p, "deliver") /\ channel = "email"
    /\ \/ outer' = outer /\ Outcome(p, "dead_letter")
       \/ MailIsFenced(p) /\ outer' = outer /\ Outcome(p, "delivery_uncertain")
       \/ ~MailIsFenced(p) /\ outer' = MarkFence(outer) /\ Goto(p, "mailSend")
                           /\ UNCHANGED result
    /\ UNCHANGED <<channel, intent, inner, job, operator, enqueued, sent, bounds, hidden>>

SendEmail(p) ==
    /\ At(p, "mailSend")
    /\ \/ sent' = sent + 1 /\ Outcome(p, "delivered") /\ UNCHANGED hidden
       \/ /\ "lost" \in ThrowsAfter
          /\ sent' = sent + 1 /\ hidden' = hidden + 1
          /\ Outcome(p, "failed_retryable")
       \/ /\ "rejected" \in ThrowsAfter
          /\ Outcome(p, "failed_retryable") /\ UNCHANGED <<sent, hidden>>
       \/ Outcome(p, "skipped") /\ UNCHANGED <<sent, hidden>>
    /\ UNCHANGED <<channel, intent, rows, job, operator, enqueued, bounds>>

EnsureWhatsApp(p) ==
    /\ At(p, "deliver") /\ channel = "whatsapp"
    /\ inner' = Ensure(inner)
    /\ IF inner.state = "delivered"
       THEN Outcome(p, "delivered")
       ELSE Goto(p, "waClaim") /\ UNCHANGED result
    /\ UNCHANGED <<channel, intent, outer, job, operator, enqueued, sent, bounds, hidden>>

UnresolvedWhatsApp(p) ==
    /\ At(p, "deliver") /\ channel = "whatsapp"
    /\ Outcome(p, "dead_letter")
    /\ UNCHANGED <<channel, intent, rows, job, operator, enqueued, sent, bounds, hidden>>

\* Mutation: whatever settled the message counts as delivered.
ClaimWhatsAppSettled(p) ==
    /\ At(p, "waClaim")
    /\ IF Claimable(inner) /\ ~Quarantined(inner)
       THEN inner' = Claim(inner, p) /\ Goto(p, "waSend") /\ UNCHANGED result
       ELSE inner' = Protected(inner) /\ Outcome(p, "delivered")
    /\ UNCHANGED <<channel, intent, outer, job, operator, enqueued, sent, bounds, hidden>>

ClaimWhatsApp(p) ==
    /\ At(p, "waClaim")
    /\ CASE Quarantined(inner) ->
              inner' = Quarantine(inner) /\ Outcome(p, "delivery_uncertain")
         [] Terminal(inner) ->
              /\ inner' = inner
              /\ Outcome(p, IF inner.state = "delivered" THEN "delivered"
                            ELSE "delivery_uncertain")
         [] ~Terminal(inner) /\ ~Quarantined(inner) /\ ~Claimable(inner) ->
              inner' = inner /\ Outcome(p, "failed_retryable")
         [] ~Quarantined(inner) /\ Claimable(inner) ->
              inner' = Claim(inner, p) /\ Goto(p, "waSend") /\ UNCHANGED result
    /\ UNCHANGED <<channel, intent, outer, job, operator, enqueued, sent, bounds, hidden>>

\* A send that is not confirmed may have been accepted.  When the page of the
\* local bridge dies under a send, the message is sent again in the same call; when
\* it dies under the last one, what the call throws is taken for a refusal.
Unseen == IF "lost" \in ThrowsAfter THEN {0, 1} ELSE {0}

SendWhatsApp(p) ==
    /\ At(p, "waSend")
    /\ \E r \in SendResults, first \in Unseen, last \in {0, 1} :
          /\ r = "ack" => last = 1
          /\ r = "rejected" => last \in Unseen
          /\ result' = [result EXCEPT ![p] = r]
          /\ sent' = sent + first + last
          /\ hidden' = hidden + first + (IF r = "rejected" THEN last ELSE 0)
    /\ Goto(p, "waSettle")
    /\ UNCHANGED <<channel, intent, rows, job, operator, enqueued, bounds>>

SettleWhatsApp(p) ==
    /\ At(p, "waSettle")
    /\ CASE result[p] = "ack" ->
              /\ inner' = Mark(inner, "delivered", inner.fence, inner.uncertain)
              /\ Outcome(p, "delivered")
         [] result[p] = "unconfirmed" ->
              /\ inner' = Mark(inner, "delivery_uncertain", inner.fence, TRUE)
              /\ Outcome(p, "delivery_uncertain")
         [] result[p] = "rejected" ->
              inner' = ReleaseWhatsApp(inner) /\ Outcome(p, "failed_retryable")
    /\ UNCHANGED <<channel, intent, outer, job, operator, enqueued, sent, bounds, hidden>>

\* Mutation: off by one, and the row is tried once more.
RecordedStateLate(p) ==
    IF result[p] = "failed_retryable" /\ job[p].attempts > MaxAttempts
    THEN "dead_letter" ELSE result[p]

\* record: whoever holds the row by now, with the attempts and the metadata
\* of the copy; the fence of a mail that ended is not in that copy.
RecordedState(p) ==
    IF result[p] = "failed_retryable" /\ job[p].attempts >= MaxAttempts
    THEN "dead_letter" ELSE result[p]

Record(p) ==
    /\ At(p, "record")
    /\ outer' = Mark(outer, RecordedState(p), job[p].fence, outer.uncertain)
    /\ Goto(p, "idle")
    /\ result' = [result EXCEPT ![p] = "none"]
    /\ job' = [job EXCEPT ![p] = NoJob]
    /\ UNCHANGED <<channel, intent, inner, operator, enqueued, sent, bounds, hidden>>

-----------------------------------------------------------------------------
(* Time, deaths, retention, sweeps and operators                           *)

HoldsRow(p) == outer.state = "claimed" /\ outer.by = p /\ pc[p] \in Dispatching

\* claimExpiresAt of the row passes: the claim of a pass that died, the
\* backoff of a retry, or the claim of a pass that is late.
RowComesDue ==
    /\ outer.state \in {"claimed", "failed_retryable"} /\ ~outer.due
    /\ outer' = [outer EXCEPT !.due = TRUE]
    /\ IF \E p \in Passes : HoldsRow(p)
       THEN MayFault /\ lapses' = lapses + 1
       ELSE UNCHANGED lapses
    /\ UNCHANGED <<channel, intent, inner, pc, job, result, operator, enqueued, sent,
                   crashes, actions, prunes, hidden>>

\* The claim of the message was made after the row's, and lasts as long.
WhatsAppClaimExpires ==
    /\ inner.state = "claimed" /\ ~inner.due
    /\ \A p \in Passes :
          inner.by = p /\ pc[p] \in {"waSend", "waSettle"} =>
             ~(HoldsRow(p) /\ ~outer.due)
    /\ inner' = [inner EXCEPT !.due = TRUE]
    /\ UNCHANGED <<channel, intent, outer, pc, job, result, operator, enqueued, sent, bounds, hidden>>

Crash(p) ==
    /\ ~At(p, "idle") /\ MayFault
    /\ crashes' = crashes + 1
    /\ Goto(p, "idle")
    /\ job' = [job EXCEPT ![p] = NoJob]
    /\ result' = [result EXCEPT ![p] = "none"]
    /\ UNCHANGED <<channel, intent, rows, operator, enqueued, sent, lapses, actions, prunes, hidden>>

Prune ==
    /\ MayFault /\ prunes' = prunes + 1
    /\ \/ outer.state \in PrunableStates /\ outer' = NoRow /\ inner' = inner
       \/ inner.state \in PrunableStates /\ inner' = NoRow /\ outer' = outer
    /\ UNCHANGED <<channel, intent, pc, job, result, operator, enqueued, sent,
                   crashes, lapses, actions, hidden>>

\* maybeSweepExhaustedWhatsAppOutbox, archiveStaleWhatsAppOutbox
Sweep ==
    /\ Archivable(inner)
    /\ inner' = Archive(inner)
    /\ UNCHANGED <<channel, intent, outer, pc, job, result, operator, enqueued, sent, bounds, hidden>>

OperatorReads ==
    /\ MayFault /\ operator = NoRead
    /\ \E t \in Tables :
          LET row == IF t = "outer" THEN outer ELSE inner IN
          Exists(row) /\ operator' = [table |-> t, seen |-> row]
    /\ actions' = actions + 1
    /\ UNCHANGED <<channel, intent, rows, pc, job, result, enqueued, sent,
                   crashes, lapses, prunes, hidden>>

\* retry and replay; the other actions close the row.
OperatorReopens ==
    /\ operator # NoRead
    /\ LET seen == operator.seen IN
       \/ /\ operator.table = "outer"
          /\ outer' = Mark(outer, "pending", seen.fence, seen.uncertain)
          /\ inner' = inner
       \/ /\ operator.table = "inner"
          /\ inner' = IF ReopenRefused(inner, seen) THEN Protected(inner)
                      ELSE Mark(inner, "pending", seen.fence, seen.uncertain)
          /\ outer' = outer
    /\ operator' = NoRead
    /\ UNCHANGED <<channel, intent, pc, job, result, enqueued, sent, bounds, hidden>>

OperatorCloses ==
    /\ operator # NoRead
    /\ \E s \in {"suppressed", "dead_letter", "delivered"} :
       LET seen == operator.seen IN
       \/ /\ operator.table = "outer"
          /\ outer' = Mark(outer, s, seen.fence, seen.uncertain)
          /\ inner' = inner
       \/ /\ operator.table = "inner"
          /\ inner' = Mark(inner, s, seen.fence, seen.uncertain)
          /\ outer' = outer
    /\ operator' = NoRead
    /\ UNCHANGED <<channel, intent, pc, job, result, enqueued, sent, bounds, hidden>>

-----------------------------------------------------------------------------
Deliver(p) ==
    \/ DeliverThread(p) \/ DeliverWebhook(p) \/ DeliverEmail(p) \/ SendEmail(p)
    \/ EnsureWhatsApp(p) \/ UnresolvedWhatsApp(p) \/ ClaimWhatsApp(p)
    \/ SendWhatsApp(p) \/ SettleWhatsApp(p)

PassSteps(p) ==
    ReadIntent(p) \/ Enqueue(p) \/ MarkRelayed(p) \/ ClaimRow(p) \/ Deliver(p) \/ Record(p)

Environment ==
    \/ RowComesDue \/ WhatsAppClaimExpires \/ Prune \/ Sweep
    \/ OperatorReads \/ OperatorReopens \/ OperatorCloses

Next == (\E p \in Passes : PassSteps(p) \/ Crash(p)) \/ Environment

Spec == Init /\ [][Next]_vars

\* The scheduler starts passes for as long as the server runs, a pass that was
\* started goes on, and the clock does.  Nobody has to prune or act on a row.
Fairness ==
    /\ \A p \in Passes : WF_vars(PassSteps(p))
    /\ WF_vars(RowComesDue) /\ WF_vars(WhatsAppClaimExpires)

LiveSpec == Spec /\ Fairness

-----------------------------------------------------------------------------
(* Properties                                                              *)

\* A WhatsApp message is accepted again only for a cause: a transport that sent it
\* again itself or threw a definite error after it was accepted, an operator, or
\* retention.  A pass that dies, is late or gets no confirmation is none.
WhatsAppOnce == channel = "whatsapp" => sent <= 1 + hidden + actions + prunes

\* A mail is accepted again only for a cause: a pass that outlived its claim,
\* a transport that threw after it was accepted, an operator, or retention.
\* A pass that dies anywhere, also between the fence and the outcome, is none.
MailedAgainForCause ==
    channel = "email" => sent <= 1 + lapses + hidden + actions + prunes

\* A notification whose channel fails is given up: passes that die, are late
\* or are overruled cost one claim each beyond the configured attempts.
ClaimsBounded == outer.attempts <= MaxAttempts + crashes + lapses + actions

\* What the outbox calls delivered has reached its channel.
DeliveredReached == outer.state = "delivered" /\ actions = 0 => sent > 0

\* The intent of a run is enqueued once, also when a relay dies before it
\* marked it; only a row that retention deleted meanwhile is enqueued again.
EnqueuedOnce == enqueued <= 1 + prunes

\* A settled row is not opened again by a pass that is late with an outcome,
\* unless it had lost its claim or an operator settled the row.
SettledStays ==
    [][Terminal(outer) /\ lapses = 0 /\ actions = 0
       => Terminal(outer') \/ outer' = NoRow]_vars

\* Every intent is relayed, and its row is settled for good in the end.
NotificationSettles ==
    <>[](intent = "relayed" /\ (Terminal(outer) \/ ~Exists(outer)))

\* Claimed by the header of the dispatcher (lines 3-4) and by G10: no mail is
\* delivered twice.  MailedAgainForCause says what it comes to.
MailedOnce == channel = "email" /\ actions = 0 /\ prunes = 0 => sent <= 1
=============================================================================
