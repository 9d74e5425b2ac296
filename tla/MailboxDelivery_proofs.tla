----------------------- MODULE MailboxDelivery_proofs -----------------------
(***************************************************************************)
(* Proofs about MailboxDelivery, for any messages, listeners and workers,  *)
(* and for any number of tries, policy changes, crashes and outages.       *)
(***************************************************************************)
EXTENDS MailboxDelivery, TLAPS

-----------------------------------------------------------------------------
(* The inductive invariant *)

Engaged == {"claim", "validate", "fence", "append", "commit", "complete"}
Claiming == {"validate", "fence", "append", "commit", "complete"}
Fenced == {"append", "commit"}

\* What a worker at the step l holding h knows about the delivery h names: the
\* row exists and is not newer than the policy the worker read; a claim that
\* was not taken away still has its epoch; what the worker found unauthorised
\* stays so; and only the worker that holds the fence appends.
WorkerKnows(w, l, h) ==
    /\ h.rev <= revision
    /\ l = "enqueue" /\ h.ok /\ h.rev = revision => allowed
    /\ l \in Engaged =>
          h.key \in Keys /\ row[h.key].state # "none" /\ row[h.key].rev <= h.rev
    /\ l \in Claiming =>
          /\ h.epoch <= row[h.key].epoch
          /\ h.epoch = row[h.key].epoch => row[h.key].state = "claimed"
    /\ l = "claim" /\ ~h.ok => row[h.key].rev < revision \/ lapsed
    /\ l = "complete" /\ h.epoch = row[h.key].epoch => row[h.key].rev < revision \/ lapsed
    /\ l = "fence" => row[h.key].rev = h.rev
    /\ l \in Fenced <=> fence = w
    /\ l \in Fenced =>
          row[h.key].rev = revision /\ row[h.key].epoch = h.epoch
    /\ l = "commit" => thread[h.key] = 1

\* What the tries of a row tell of it.
Tried(r) ==
    /\ r.state = "none" => r.attempts = 0
    /\ r.state = "claimed" => r.attempts > 0
    /\ r.state = "dead-letter" => r.attempts = MaxAttempts

\* A row enqueued under the policy of now is for an active listener of a thread
\* that may have it; and the properties of a delivery.
RowSound(k) ==
    /\ row[k].rev <= revision
    /\ row[k].state # "none" /\ row[k].rev = revision => Active(k[2]) /\ allowed
    /\ row[k].state = "revoked" => row[k].rev < revision \/ lapsed
    /\ thread[k] \in {0, 1}
    /\ row[k].state = "delivered" => thread[k] = 1
    /\ thread[k] = 1 => row[k].attempts > 0
    /\ Tried(row[k])

Inv ==
    /\ TypeOK
    /\ \A w \in Workers : WorkerKnows(w, pc[w], held[w])
    /\ \A k \in Keys : RowSound(k)

\* What may become of a row that exists.
RowStep(r, s) ==
    r.state # "none" =>
        /\ s.state # "none" /\ s.rev = r.rev /\ r.epoch <= s.epoch
        /\ s.epoch = r.epoch => s.state = r.state

-----------------------------------------------------------------------------
(* Operators on rows *)

LEMMA Consts == MaxAttempts \in Nat \ {0} /\ MaxReplays \in Nat \ {0} /\ NoWorker \notin Workers
BY MailboxAssumption

LEMMA RevokeRow ==
    ASSUME NEW r \in Row
    PROVE  /\ Revoke(r) \in Row /\ Revoke(r).state = "revoked" /\ Revoke(r).rev = r.rev
           /\ Revoke(r).epoch = r.epoch + 1 /\ Revoke(r).attempts = r.attempts
<1>1. r.epoch + 1 \in Nat
  BY DEF Row
<1>2. Revoke(r) \in Row
  BY <1>1, Zenon DEF Revoke, Row
<1> QED  BY <1>2 DEF Revoke, Row

\* A row with a new state and the next epoch.
Moved(r, state, due) == [r EXCEPT !.state = state, !.epoch = @ + 1, !.due = due]

LEMMA MovedRow ==
    ASSUME NEW r \in Row, NEW due \in BOOLEAN,
           NEW state \in {"pending", "claimed", "delivered", "revoked", "dead-letter"}
    PROVE  /\ Moved(r, state, due) \in Row /\ Moved(r, state, due).state = state
           /\ Moved(r, state, due).rev = r.rev /\ Moved(r, state, due).epoch = r.epoch + 1
           /\ Moved(r, state, due).attempts = r.attempts
<1>1. r.epoch + 1 \in Nat
  BY DEF Row
<1>2. Moved(r, state, due) \in Row
  BY <1>1, Zenon DEF Moved, Row
<1> QED  BY <1>2 DEF Moved, Row

LEMMA RecoveredRow ==
    ASSUME NEW r \in Row, r.state = "pending" => r.attempts < MaxAttempts
    PROVE  /\ Recovered(r) \in Row
           /\ Recovered(r).state = "pending" => Recovered(r).attempts < MaxAttempts
           /\ RowStep(r, Recovered(r))
           /\ Recovered(r).rev = r.rev /\ Recovered(r).attempts = r.attempts
           /\ Recovered(r).state = "dead-letter" /\ r.state = "claimed" => r.attempts = MaxAttempts
           /\ \/ Recovered(r).state = r.state
              \/ r.state = "claimed" /\ Recovered(r).state \in {"pending", "dead-letter"}
<1>1. CASE Recovered(r) = r
  BY <1>1 DEF RowStep, Row
<1>2. CASE r.state = "claimed" /\ r.due /\ r.attempts >= MaxAttempts
  <2>1. Recovered(r) = Moved(r, "dead-letter", FALSE)
    BY <1>2 DEF Recovered, Moved
  <2>2. /\ Recovered(r) \in Row /\ Recovered(r).state = "dead-letter"
        /\ Recovered(r).rev = r.rev /\ Recovered(r).epoch = r.epoch + 1
        /\ Recovered(r).attempts = r.attempts
    <3>1. /\ Moved(r, "dead-letter", FALSE) \in Row /\ Moved(r, "dead-letter", FALSE).state = "dead-letter"
          /\ Moved(r, "dead-letter", FALSE).rev = r.rev
          /\ Moved(r, "dead-letter", FALSE).epoch = r.epoch + 1
          /\ Moved(r, "dead-letter", FALSE).attempts = r.attempts
      BY MovedRow
    <3> QED  BY <2>1, <3>1, Zenon
  <2> QED  BY <1>2, <2>2, Consts DEF RowStep, Row
<1>3. CASE r.state = "claimed" /\ r.due /\ ~(r.attempts >= MaxAttempts)
  <2>1. r.epoch + 1 \in Nat /\ Recovered(r) = [r EXCEPT !.state = "pending", !.epoch = @ + 1]
    BY <1>3 DEF Recovered, Row
  <2>2. Recovered(r) \in Row
    BY <2>1, Zenon DEF Row
  <2> QED  BY <1>3, <2>1, <2>2, Consts DEF RowStep, Row
<1> QED  BY <1>1, <1>2, <1>3 DEF Recovered

LEMMA FreshRow ==
    ASSUME revision \in Nat
    PROVE  Fresh \in Row /\ Fresh.state = "pending" /\ Fresh.rev = revision /\ Fresh.attempts = 0
<1>1. 0 \in 0..MaxAttempts /\ 1 \in Nat /\ 0 \in Nat
  BY Consts
<1>2. NoRow \in Row
  BY <1>1, Zenon DEF NoRow, Row
<1>3. Fresh \in Row
  BY <1>1, <1>2, Zenon DEF Fresh, Row
<1> QED  BY <1>3 DEF Fresh, NoRow

LEMMA NothingHeld == Nothing \in Held /\ Nothing.rev = 0 /\ Nothing.msgs = {}
BY DEF Nothing, Held

-----------------------------------------------------------------------------
(* Types *)

RowsOK(r) ==
    r \in [Keys -> Row] /\ \A k \in Keys : r[k].state = "pending" => r[k].attempts < MaxAttempts

LEMMA SetRowOK ==
    ASSUME RowsOK(row), NEW k \in Keys, NEW r \in Row,
           r.state = "pending" => r.attempts < MaxAttempts
    PROVE  /\ RowsOK([row EXCEPT ![k] = r])
           /\ \A j \in Keys : [row EXCEPT ![k] = r][j] = IF j = k THEN r ELSE row[j]
BY DEF RowsOK

LEMMA RevokeOpenOK ==
    ASSUME RowsOK(row), NEW keys, RevokeOpen(keys)
    PROVE  /\ RowsOK(row')
           /\ \A k \in Keys : row'[k] = row[k] \/ (Open(row[k]) /\ row'[k] = Revoke(row[k]))
<1>1. \A k \in Keys : row'[k] = row[k] \/ (Open(row[k]) /\ row'[k] = Revoke(row[k]))
  BY DEF RevokeOpen
<1>2. \A k \in Keys : Revoke(row[k]) \in Row /\ Revoke(row[k]).state = "revoked"
  BY RevokeRow DEF RowsOK
<1>3. row' \in [Keys -> Row]
  BY <1>2 DEF RevokeOpen, RowsOK
<1> QED  BY <1>1, <1>2, <1>3 DEF RowsOK

LEMMA HeldPieces ==
    ASSUME NEW h \in Held
    PROVE  /\ \A t \in SUBSET Keys : [h EXCEPT !.todo = t] \in Held
           /\ \A n \in Nat : [h EXCEPT !.epoch = n] \in Held
           /\ \A n \in Nat, b \in BOOLEAN : [h EXCEPT !.rev = n, !.ok = b] \in Held
           /\ \A t \in SUBSET Keys, k \in Keys, e \in Nat, n \in Nat, b \in BOOLEAN :
                 [h EXCEPT !.todo = t, !.key = k, !.epoch = e, !.rev = n, !.ok = b] \in Held
           /\ \A m \in SUBSET Messages, c \in Nat, t \in SUBSET Keys, n \in Nat, b \in BOOLEAN :
                 [h EXCEPT !.msgs = m, !.tries = c, !.todo = t, !.rev = n, !.ok = b] \in Held
BY Zenon DEF Held

\* A step of the worker w to the step l with h in hand keeps the types of pc and held.
LEMMA StepTypes ==
    ASSUME TypeOK, NEW w \in Workers, NEW l \in Steps, NEW h \in Held,
           pc' = [pc EXCEPT ![w] = l], held' = [held EXCEPT ![w] = h] \/ held' = held
    PROVE  pc' \in [Workers -> Steps] /\ held' \in [Workers -> Held]
BY DEF TypeOK

LEMMA StartType ==
    ASSUME TypeOK, NEW w \in Workers, NEW m \in Messages, Start(w, m),
           inbox' \in [Messages -> {"none", "pending", "policy-unavailable", "routed", "dead_letter"}]
    PROVE  TypeOK'
<1> DEFINE t == {k \in Keys : k[1] = m /\ Active(k[2])}
           h == [Nothing EXCEPT !.msgs = {m}, !.tries = replays[m], !.todo = t,
                                !.rev = revision, !.ok = Granted]
<1>1. /\ {m} \in SUBSET Messages /\ replays[m] \in Nat /\ t \in SUBSET Keys
      /\ revision \in Nat /\ Granted \in BOOLEAN
  BY DEF TypeOK, Granted
<1>2. h \in Held
  BY <1>1, NothingHeld, HeldPieces, Zenon
<1>3. pc' = [pc EXCEPT ![w] = "enqueue"] /\ held' = [held EXCEPT ![w] = h]
  BY DEF Start, Goto
<1>4. pc' \in [Workers -> Steps] /\ held' \in [Workers -> Held]
  BY <1>2, <1>3, StepTypes, "enqueue" \in Steps DEF Steps
<1> QED  BY <1>4 DEF TypeOK, Start, policy

LEMMA EnqueueType ==
    ASSUME TypeOK, NEW w \in Workers, Enqueue(w)
    PROVE  TypeOK' /\ RowsOK(row')
<1>1. held[w] \in Held /\ Valid(w) \in SUBSET Keys /\ revision \in Nat /\ held[w].msgs \subseteq Messages
  BY DEF TypeOK, Held, Valid
<1>2. [held[w] EXCEPT !.todo = Valid(w)] \in Held
  BY <1>1, HeldPieces
<1>3. pc' = [pc EXCEPT ![w] = "recover"] /\ held' = [held EXCEPT ![w] = [held[w] EXCEPT !.todo = Valid(w)]]
  BY DEF Enqueue, Goto, TypeOK
<1>4. pc' \in [Workers -> Steps] /\ held' \in [Workers -> Held]
  BY <1>2, <1>3, StepTypes DEF Steps
<1>5. row' \in [Keys -> Row] /\ \A k \in Keys : row'[k].state = "pending" => row'[k].attempts < MaxAttempts
  BY <1>1, FreshRow, Consts DEF Enqueue, TypeOK
<1> QED  BY <1>1, <1>4, <1>5 DEF TypeOK, Enqueue, policy, RowsOK

LEMMA PassType ==
    ASSUME TypeOK, NEW w \in Workers, NEW keys \in SUBSET Keys, Pass(w, keys)
    PROVE  TypeOK'
<1> DEFINE t == {k \in keys : row'[k].state = "pending" /\ row'[k].due}
<1>1. held[w] \in Held /\ t \in SUBSET Keys
  BY DEF TypeOK
<1>2. [held[w] EXCEPT !.todo = t] \in Held
  BY <1>1, HeldPieces
<1>3. pc' = [pc EXCEPT ![w] = "dispatch"] /\ held' = [held EXCEPT ![w] = [held[w] EXCEPT !.todo = t]]
  BY DEF Pass, Goto, TypeOK
<1>4. pc' \in [Workers -> Steps] /\ held' \in [Workers -> Held]
  BY <1>2, <1>3, StepTypes DEF Steps
<1>5. row' \in [Keys -> Row] /\ \A k \in Keys : row'[k].state = "pending" => row'[k].attempts < MaxAttempts
  BY RecoveredRow DEF Pass, TypeOK
<1> QED  BY <1>4, <1>5 DEF TypeOK, Pass, policy, mail

LEMMA ReadCandidateType ==
    ASSUME TypeOK, NEW w \in Workers, NEW k \in Keys, ReadCandidate(w, k)
    PROVE  TypeOK'
<1> DEFINE h == [held[w] EXCEPT !.todo = @ \ {k}, !.key = k, !.epoch = row[k].epoch,
                            !.rev = revision, !.ok = Authorised(k)]
<1>1. /\ held[w] \in Held /\ held[w].todo \ {k} \in SUBSET Keys /\ row[k].epoch \in Nat
      /\ revision \in Nat /\ Authorised(k) \in BOOLEAN
  BY DEF TypeOK, Held, Row, Authorised
<1>2. h \in Held
  BY <1>1, HeldPieces, Zenon
<1>3. pc' = [pc EXCEPT ![w] = "claim"] /\ held' = [held EXCEPT ![w] = h]
  BY Zenon DEF ReadCandidate, Goto, TypeOK
<1>4. pc' \in [Workers -> Steps] /\ held' \in [Workers -> Held]
  BY <1>2, <1>3, StepTypes DEF Steps
<1> QED  BY <1>4 DEF TypeOK, ReadCandidate, policy, mail

LEMMA ClaimRevokedType ==
    ASSUME TypeOK, NEW w \in Workers, held[w].key \in Keys, ClaimRevoked(w)
    PROVE  TypeOK'
<1>1. Revoke(row[held[w].key]) \in Row /\ Revoke(row[held[w].key]).state = "revoked"
  BY RevokeRow DEF TypeOK
<1>2. RowsOK(row')
  BY <1>1, SetRowOK, Zenon DEF ClaimRevoked, SetRow, RowsOK, TypeOK
<1>3. pc' \in [Workers -> Steps]
  BY DEF ClaimRevoked, Goto, TypeOK, Steps
<1> QED  BY <1>2, <1>3 DEF TypeOK, ClaimRevoked, RowsOK, policy, mail

\* The row a worker claims.
Claimed(w) == [row[held[w].key] EXCEPT !.state = "claimed", !.epoch = @ + 1,
                                       !.attempts = @ + 1, !.due = FALSE]

LEMMA ClaimedRow ==
    ASSUME TypeOK, NEW w \in Workers, held[w].key \in Keys, Claim(w)
    PROVE  /\ Claimed(w) \in Row /\ Claimed(w).state = "claimed"
           /\ Claimed(w).rev = row[held[w].key].rev
           /\ Claimed(w).epoch = row[held[w].key].epoch + 1
           /\ Claimed(w).attempts = row[held[w].key].attempts + 1
           /\ row[held[w].key].epoch = held[w].epoch /\ row[held[w].key].state = "pending"
           /\ row' = [row EXCEPT ![held[w].key] = Claimed(w)]
<1> DEFINE r == row[held[w].key]
<1>1. r \in Row /\ r.state = "pending" /\ r.epoch = held[w].epoch /\ r.attempts < MaxAttempts
  BY DEF TypeOK, Claim, Untouched
<1>2. r.epoch + 1 \in Nat /\ r.attempts + 1 \in 0..MaxAttempts
  BY <1>1, Consts DEF Row
<1>3. Claimed(w) \in Row
  BY <1>1, <1>2, Zenon DEF Row, Claimed
<1>4. /\ Claimed(w).state = "claimed" /\ Claimed(w).rev = r.rev /\ Claimed(w).epoch = r.epoch + 1
      /\ Claimed(w).attempts = r.attempts + 1
  BY <1>1 DEF Row, Claimed
<1>5. row' = [row EXCEPT ![held[w].key] = Claimed(w)]
  BY Zenon DEF Claim, SetRow, Claimed
<1> QED  BY <1>1, <1>3, <1>4, <1>5

LEMMA ClaimType ==
    ASSUME TypeOK, NEW w \in Workers, held[w].key \in Keys, Claim(w)
    PROVE  TypeOK'
<1>1. RowsOK(row')
  <2>1. RowsOK([row EXCEPT ![held[w].key] = Claimed(w)])
    BY ClaimedRow, SetRowOK DEF RowsOK, TypeOK
  <2> QED  BY <2>1, ClaimedRow
<1>2. held[w] \in Held /\ held[w].epoch + 1 \in Nat
  BY DEF TypeOK, Held
<1>3. pc' = [pc EXCEPT ![w] = "validate"]
      /\ held' = [held EXCEPT ![w] = [held[w] EXCEPT !.epoch = held[w].epoch + 1]]
  BY Zenon DEF Claim, Goto, TypeOK
<1>4. pc' \in [Workers -> Steps] /\ held' \in [Workers -> Held]
  BY <1>2, <1>3, StepTypes, HeldPieces DEF Steps
<1> QED  BY <1>1, <1>4 DEF TypeOK, Claim, RowsOK, policy, mail

LEMMA ValidateType ==
    ASSUME TypeOK, NEW w \in Workers, Validate(w)
    PROVE  TypeOK'
<1> DEFINE h == [held[w] EXCEPT !.rev = revision, !.ok = Authorised(held[w].key)]
           l == IF Authorised(held[w].key) THEN "fence" ELSE "complete"
<1>1. held[w] \in Held /\ revision \in Nat /\ Authorised(held[w].key) \in BOOLEAN /\ l \in Steps
  BY DEF TypeOK, Authorised, Steps
<1>2. h \in Held
  BY <1>1, HeldPieces, Zenon
<1>3. pc' = [pc EXCEPT ![w] = l] /\ held' = [held EXCEPT ![w] = h]
  BY Zenon DEF Validate, Goto, TypeOK
<1>4. pc' \in [Workers -> Steps] /\ held' \in [Workers -> Held]
  BY <1>1, <1>2, <1>3, StepTypes
<1> QED  BY <1>4 DEF TypeOK, Validate, policy, mail

LEMMA LeaveFenceType ==
    ASSUME TypeOK, NEW w \in Workers, held[w].key \in Keys, NEW r \in Row,
           r.state = "pending" => r.attempts < MaxAttempts, LeaveFence(w, r)
    PROVE  TypeOK'
<1>1. RowsOK(row')
  BY SetRowOK, Zenon DEF RowsOK, TypeOK, LeaveFence, SetRow
<1> QED  BY <1>1 DEF TypeOK, LeaveFence, RowsOK, policy, mail, Goto, Steps

\* The row a failed append leaves.
Failed(r) == [r EXCEPT !.epoch = @ + 1, !.due = FALSE,
                       !.state = IF r.attempts >= MaxAttempts THEN "dead-letter" ELSE "pending"]

LEMMA FailedRow ==
    ASSUME NEW r \in Row
    PROVE  /\ Failed(r) \in Row
           /\ Failed(r).state = "pending" => Failed(r).attempts < MaxAttempts
           /\ Failed(r).state \in {"pending", "dead-letter"}
           /\ Failed(r).rev = r.rev /\ Failed(r).epoch = r.epoch + 1
           /\ Failed(r).attempts = r.attempts
           /\ Failed(r).state = "dead-letter" => r.attempts = MaxAttempts
<1>1. r.epoch + 1 \in Nat /\ r.attempts \in 0..MaxAttempts
  BY DEF Row
<1>2. (IF r.attempts >= MaxAttempts THEN "dead-letter" ELSE "pending") \in {"pending", "dead-letter"}
  BY Zenon
<1>3. Failed(r) \in Row
  BY <1>1, <1>2, Zenon DEF Failed, Row
<1> QED  BY <1>1, <1>3, Consts DEF Failed, Row

LEMMA StopType ==
    ASSUME TypeOK, NEW w \in Workers, Crash(w) \/ Outage(w)
    PROVE  TypeOK'
<1>1. pc' = [pc EXCEPT ![w] = "idle"] /\ held' = [held EXCEPT ![w] = Nothing]
  BY DEF Crash, Outage, Stop, Goto
<1>2. pc' \in [Workers -> Steps] /\ held' \in [Workers -> Held]
  BY <1>1, StepTypes, NothingHeld DEF Steps
<1>3. inbox' \in [Messages -> {"none", "pending", "policy-unavailable", "routed", "dead_letter"}]
  BY DEF TypeOK, Crash, Outage
<1>4. held[w].tries + 1 \in Nat
  BY DEF TypeOK, Held
<1>5. replays' \in [Messages -> Nat]
  BY <1>4 DEF TypeOK, Crash, Outage
<1> QED  BY <1>2, <1>3, <1>5 DEF TypeOK, Crash, Outage, Stop, policy

LEMMA EndPassType ==
    ASSUME TypeOK, NEW w \in Workers, EndPass(w)
    PROVE  TypeOK'
<1>1. pc' = [pc EXCEPT ![w] = "idle"] /\ held' = [held EXCEPT ![w] = Nothing]
  BY DEF EndPass, Goto
<1>2. pc' \in [Workers -> Steps] /\ held' \in [Workers -> Held]
  BY <1>1, StepTypes, NothingHeld DEF Steps
<1> QED  BY <1>2 DEF TypeOK, EndPass, policy

-----------------------------------------------------------------------------
(* Steps of a worker *)

\* What one worker knows is not disturbed by what another does, nor by time.
LEMMA OtherWorker ==
    ASSUME Inv, TypeOK', NEW w \in Workers, pc'[w] = pc[w], held'[w] = held[w],
           \A k \in Keys : RowStep(row[k], row'[k]),
           \A k \in Keys : thread[k] = 1 => thread'[k] = 1,
           revision' = revision, allowed' = allowed, lapsed => lapsed',
           fence' = w <=> fence = w,
           fence = w => row'[held[w].key].epoch = row[held[w].key].epoch
    PROVE  WorkerKnows(w, pc[w], held[w])'
<1> DEFINE k == held[w].key
<1>1. WorkerKnows(w, pc[w], held[w]) /\ held[w].rev \in Nat /\ held[w].epoch \in Nat /\ revision \in Nat
  BY DEF Inv, TypeOK, Held
<1>2. CASE pc[w] \notin Engaged
  BY <1>1, <1>2 DEF WorkerKnows, Engaged, Claiming, Fenced
<1>3. CASE pc[w] \in Engaged
  <2>1. k \in Keys /\ row[k].state # "none" /\ row[k].epoch \in Nat
    BY <1>1, <1>3 DEF WorkerKnows, Inv, TypeOK, Row
  <2>2. /\ row'[k].state # "none" /\ row'[k].rev = row[k].rev /\ row[k].epoch <= row'[k].epoch
        /\ row'[k].epoch = row[k].epoch => row'[k].state = row[k].state
    BY <2>1 DEF RowStep
  <2>3. row'[k].epoch \in Nat /\ row[k].rev \in Nat /\ (thread[k] = 1 => thread'[k] = 1)
    BY <2>1 DEF Inv, TypeOK, Row
  <2>4. CASE pc[w] \in Fenced
    <3>1. fence = w /\ row'[k].epoch = row[k].epoch
      BY <1>1, <2>4 DEF WorkerKnows
    <3> QED  BY <1>1, <2>1, <2>2, <2>3, <2>4, <3>1 DEF WorkerKnows, Engaged, Claiming, Fenced
  <2>5. CASE pc[w] \in {"claim", "validate", "fence", "complete"}
    <3>1. fence # w /\ fence' # w
      BY <1>1, <2>5 DEF WorkerKnows, Fenced
    <3> QED  BY <1>1, <2>1, <2>2, <2>3, <2>5, <3>1 DEF WorkerKnows, Engaged, Claiming, Fenced
  <2> QED  BY <1>3, <2>4, <2>5 DEF Engaged, Fenced
<1> QED  BY <1>2, <1>3

\* A delivery nobody touches stays sound.
LEMMA OtherKey ==
    ASSUME Inv, TypeOK', NEW k \in Keys, thread'[k] = thread[k],
           \/ row'[k] = row[k]
           \/ /\ row[k].state # "none" /\ row'[k].state # "none" /\ row'[k].rev = row[k].rev
              /\ row'[k].state = "revoked" => row[k].rev < revision \/ lapsed
              /\ row'[k].state = "delivered" <=> row[k].state = "delivered"
              /\ row[k].attempts <= row'[k].attempts /\ Tried(row'[k]),
           revision' = revision, allowed' = allowed, listener' = listener, lapsed => lapsed'
    PROVE  RowSound(k)'
<1>1. RowSound(k) /\ revision \in Nat /\ row[k].rev \in Nat
      /\ row[k].attempts \in Nat /\ row'[k].attempts \in Nat
  BY Consts DEF Inv, TypeOK, Row
<1>2. Active(k[2])' <=> Active(k[2])
  BY DEF Active
<1>3. Tried(row'[k])
  BY <1>1 DEF RowSound
<1> QED  BY <1>1, <1>2, <1>3 DEF RowSound

\* A step of one worker, under the policy as it is.
LEMMA WorkerStep ==
    ASSUME Inv, TypeOK', NEW w \in Workers,
           \A v \in Workers \ {w} : pc'[v] = pc[v] /\ held'[v] = held[v],
           UNCHANGED policy,
           \A k \in Keys : RowStep(row[k], row'[k]),
           \A k \in Keys : thread[k] = 1 => thread'[k] = 1,
           \A v \in Workers \ {w} : fence' = v <=> fence = v,
           \A v \in Workers \ {w} : fence = v => row' = row,
           WorkerKnows(w, pc[w], held[w])',
           \A k \in Keys : RowSound(k)'
    PROVE  Inv'
<1>1. ASSUME NEW v \in Workers \ {w} PROVE WorkerKnows(v, pc[v], held[v])'
  BY <1>1, OtherWorker DEF policy
<1> QED  BY <1>1 DEF Inv

\* The same, when the rows and the thread are left alone.
LEMMA QuietStep ==
    ASSUME Inv, TypeOK', NEW w \in Workers,
           \A v \in Workers \ {w} : pc'[v] = pc[v] /\ held'[v] = held[v],
           UNCHANGED <<policy, row, thread>>,
           \A v \in Workers \ {w} : fence' = v <=> fence = v,
           WorkerKnows(w, pc[w], held[w])'
    PROVE  Inv'
<1>1. \A k \in Keys : RowStep(row[k], row'[k])
  BY DEF RowStep, Inv, TypeOK, Row
<1>2. ASSUME NEW k \in Keys PROVE RowSound(k)'
  BY OtherKey DEF policy
<1> QED  BY <1>1, <1>2, WorkerStep

LEMMA StartInv ==
    ASSUME Inv, NEW w \in Workers, NEW m \in Messages, Start(w, m), TypeOK'
    PROVE  Inv'
<1> DEFINE h == [Nothing EXCEPT !.msgs = {m}, !.tries = replays[m],
                                !.todo = {k \in Keys : k[1] = m /\ Active(k[2])},
                                !.rev = revision, !.ok = Granted]
<1>1. pc' = [pc EXCEPT ![w] = "enqueue"] /\ held' = [held EXCEPT ![w] = h]
  BY DEF Start, Goto
<1>2. pc'[w] = "enqueue" /\ held'[w] = h /\ revision \in Nat
  BY <1>1 DEF Inv, TypeOK
<1>3. h.rev = revision /\ (h.ok => allowed)
  BY DEF Nothing, Granted
<1>4. pc[w] = "idle" /\ fence # w
  BY DEF Start, Inv, WorkerKnows, Fenced
<1>5. UNCHANGED <<policy, row, fence, thread, faults>>
  BY DEF Start
<1> HIDE DEF h
<1>6. WorkerKnows(w, pc[w], held[w])'
  BY <1>2, <1>3, <1>4, <1>5 DEF WorkerKnows, policy, Engaged, Claiming, Fenced
<1>7. \A v \in Workers \ {w} : pc'[v] = pc[v] /\ held'[v] = held[v]
  BY <1>1 DEF Inv, TypeOK
<1> QED  BY <1>4, <1>5, <1>6, <1>7, QuietStep

\* A row is left alone, moved without a new revision, or inserted.
KeyStep(k) ==
    \/ row'[k] = row[k]
    \/ /\ row[k].state # "none" /\ row'[k].state # "none" /\ row'[k].rev = row[k].rev
       /\ row'[k].state = "revoked" => row[k].rev < revision \/ lapsed
       /\ row'[k].state = "delivered" <=> row[k].state = "delivered"
       /\ row[k].attempts <= row'[k].attempts /\ Tried(row'[k])
    \/ row[k].state = "none" /\ row'[k] = Fresh /\ Active(k[2]) /\ allowed

\* A transaction of a worker on the rows of deliveries.
LEMMA TransactionStep ==
    ASSUME Inv, TypeOK', NEW w \in Workers, Transaction, fence' = fence,
           UNCHANGED <<policy, thread, faults>>,
           \A v \in Workers \ {w} : pc'[v] = pc[v] /\ held'[v] = held[v],
           \A k \in Keys : RowStep(row[k], row'[k]) /\ KeyStep(k),
           WorkerKnows(w, pc[w], held[w])'
    PROVE  Inv'
<1>1. \A v \in Workers : fence # v /\ pc[v] \notin Fenced
  BY Consts DEF Transaction, Inv, WorkerKnows
<1>2. revision \in Nat
  BY DEF Inv, TypeOK
<1>3. ASSUME NEW k \in Keys PROVE RowSound(k)'
  <2>1. CASE row[k].state = "none" /\ row'[k] = Fresh /\ Active(k[2]) /\ allowed
    <3>1. row'[k].rev = revision /\ row'[k].state = "pending" /\ row'[k].attempts = 0
      BY <1>2, <2>1, FreshRow
    <3>2. RowSound(k) /\ (Active(k[2])' <=> Active(k[2]))
      BY DEF Inv, Active, policy
    <3>3. Tried(row'[k])
      BY <3>1 DEF Tried
    <3>4. thread'[k] = 0
      BY <2>1, <3>2 DEF RowSound, Tried
    <3> QED  BY <1>2, <2>1, <3>1, <3>2, <3>3, <3>4 DEF RowSound, policy
  <2>2. CASE ~(row[k].state = "none" /\ row'[k] = Fresh /\ Active(k[2]) /\ allowed)
    BY <2>2, OtherKey DEF KeyStep, policy
  <2> QED  BY <2>1, <2>2
<1> QED  BY <1>1, <1>3, WorkerStep

LEMMA EnqueueInv ==
    ASSUME Inv, NEW w \in Workers, Enqueue(w)
    PROVE  Inv'
<1>1. TypeOK' /\ RowsOK(row')
  BY EnqueueType DEF Inv
<1>2. /\ Transaction /\ UNCHANGED <<policy, fence, thread, faults>> /\ pc[w] = "enqueue"
      /\ pc'[w] = "recover" /\ held'[w] = [held[w] EXCEPT !.todo = Valid(w)]
      /\ \A v \in Workers \ {w} : pc'[v] = pc[v] /\ held'[v] = held[v]
      /\ \A k \in Keys : row'[k] = IF k \in Valid(w) /\ row[k].state = "none" THEN Fresh ELSE row[k]
  BY DEF Enqueue, Goto, Inv, TypeOK
<1>3. WorkerKnows(w, pc[w], held[w]) /\ held[w] \in Held /\ fence # w
  BY <1>2, Consts DEF Inv, TypeOK, Transaction
<1>4. held'[w].rev = held[w].rev
  BY <1>2, <1>3 DEF Held
<1>5. WorkerKnows(w, pc[w], held[w])'
  BY <1>2, <1>3, <1>4 DEF WorkerKnows, Engaged, Claiming, Fenced, policy
<1>6. ASSUME NEW k \in Keys PROVE RowStep(row[k], row'[k]) /\ KeyStep(k)
  <2>1. k \in Valid(w) => Active(k[2]) /\ allowed
    BY <1>2, <1>3 DEF Valid, WorkerKnows
  <2>2. row[k].epoch \in Nat
    BY DEF Inv, TypeOK, Row
  <2> QED  BY <1>2, <2>1, <2>2 DEF RowStep, KeyStep
<1> QED  BY <1>1, <1>2, <1>5, <1>6, TransactionStep

LEMMA PassInv ==
    ASSUME Inv, NEW w \in Workers, NEW keys \in SUBSET Keys, Pass(w, keys)
    PROVE  Inv'
<1>1. TypeOK'
  BY PassType DEF Inv
<1> DEFINE t == {k \in keys : row'[k].state = "pending" /\ row'[k].due}
<1>2. /\ Transaction /\ UNCHANGED <<policy, fence, thread, faults>>
      /\ pc'[w] = "dispatch" /\ held'[w] = [held[w] EXCEPT !.todo = t]
      /\ \A v \in Workers \ {w} : pc'[v] = pc[v] /\ held'[v] = held[v]
      /\ \A k \in Keys : row'[k] = Recovered(row[k])
  BY DEF Pass, Goto, Inv, TypeOK, mail
<1> HIDE DEF t
<1>3. WorkerKnows(w, pc[w], held[w]) /\ held[w] \in Held /\ fence # w
  BY <1>2, Consts DEF Inv, TypeOK, Transaction
<1>4. held'[w].rev = held[w].rev
  BY <1>2, <1>3 DEF Held
<1>5. WorkerKnows(w, pc[w], held[w])'
  BY <1>2, <1>3, <1>4 DEF WorkerKnows, Engaged, Claiming, Fenced, policy
<1>6. ASSUME NEW k \in Keys PROVE RowStep(row[k], row'[k]) /\ KeyStep(k)
  <2>1. row[k] \in Row /\ (row[k].state = "pending" => row[k].attempts < MaxAttempts)
    BY DEF Inv, TypeOK
  <2>2. /\ RowStep(row[k], row'[k]) /\ row'[k].rev = row[k].rev
        /\ \/ row'[k].state = row[k].state
           \/ row[k].state = "claimed" /\ row'[k].state \in {"pending", "dead-letter"}
        /\ row'[k].attempts = row[k].attempts /\ row[k].attempts \in Nat
        /\ row'[k].state = "dead-letter" /\ row[k].state = "claimed" => row[k].attempts = MaxAttempts
    BY <1>2, <2>1, RecoveredRow, Consts DEF Row
  <2>3. row'[k] = row[k] \/ row[k].state = "claimed"
    BY <1>2 DEF Recovered
  <2>4. Tried(row[k])
    BY DEF Inv, RowSound
  <2>5. row[k].state = "claimed" => Tried(row'[k])
    BY <2>2, <2>4 DEF Tried
  <2> QED  BY <2>2, <2>3, <2>5 DEF KeyStep
<1> QED  BY <1>1, <1>2, <1>5, <1>6, TransactionStep

LEMMA ReadCandidateInv ==
    ASSUME Inv, NEW w \in Workers, NEW k \in Keys, ReadCandidate(w, k)
    PROVE  Inv'
<1>1. TypeOK'
  BY ReadCandidateType DEF Inv
<1> DEFINE h == [held[w] EXCEPT !.todo = @ \ {k}, !.key = k, !.epoch = row[k].epoch,
                            !.rev = revision, !.ok = Authorised(k)]
<1>2. /\ UNCHANGED <<policy, row, fence, thread, faults>> /\ pc[w] = "dispatch"
      /\ pc' = [pc EXCEPT ![w] = "claim"] /\ held' = [held EXCEPT ![w] = h]
      /\ row[k].state = "pending"
  BY Zenon DEF ReadCandidate, Goto, mail
<1>3. /\ h.key = k /\ h.rev = revision /\ h.epoch = row[k].epoch /\ (~h.ok => ~Authorised(k))
  BY DEF Inv, TypeOK, Held
<1> HIDE DEF h
<1>4. pc'[w] = "claim" /\ held'[w] = h
  BY <1>2 DEF Inv, TypeOK
<1>5. \A v \in Workers \ {w} : pc'[v] = pc[v] /\ held'[v] = held[v]
  BY <1>2 DEF Inv, TypeOK
<1>6. WorkerKnows(w, pc[w], held[w]) /\ fence # w /\ RowSound(k) /\ row[k] \in Row
  BY <1>2 DEF Inv, WorkerKnows, Fenced, TypeOK
<1>7. revision \in Nat /\ row[k].rev \in Nat
  BY <1>2, <1>6 DEF Inv, TypeOK, Row
<1>8. ~h.ok => row[k].rev < revision \/ lapsed
  BY <1>2, <1>3, <1>6, <1>7 DEF Authorised, RowSound, Granted
<1>9. WorkerKnows(w, pc[w], held[w])'
  BY <1>2, <1>3, <1>4, <1>6, <1>7, <1>8 DEF WorkerKnows, Engaged, Claiming, Fenced, policy, RowSound
<1> QED  BY <1>1, <1>2, <1>5, <1>6, <1>7, <1>9, QuietStep

LEMMA ClaimLostInv ==
    ASSUME Inv, NEW w \in Workers, ClaimLost(w)
    PROVE  Inv'
<1>1. /\ UNCHANGED <<policy, row, fence, thread, faults, held>> /\ pc[w] = "claim"
      /\ pc' = [pc EXCEPT ![w] = "dispatch"] /\ UNCHANGED mail
  BY DEF ClaimLost, Goto
<1>2. TypeOK'
  BY <1>1 DEF Inv, TypeOK, policy, mail, Steps
<1>3. pc'[w] = "dispatch" /\ \A v \in Workers \ {w} : pc'[v] = pc[v] /\ held'[v] = held[v]
  BY <1>1 DEF Inv, TypeOK
<1>4. WorkerKnows(w, pc[w], held[w])'
  BY <1>1, <1>3 DEF Inv, WorkerKnows, Engaged, Claiming, Fenced, policy
<1> QED  BY <1>1, <1>2, <1>3, <1>4, QuietStep

LEMMA EngagedFacts ==
    ASSUME Inv, NEW w \in Workers, pc[w] \in Engaged
    PROVE  /\ held[w].key \in Keys /\ held[w].key[2] \in Listeners
           /\ row[held[w].key] \in Row /\ row[held[w].key].state # "none"
           /\ held[w] \in Held /\ held[w].rev \in Nat /\ held[w].epoch \in Nat
           /\ row[held[w].key].rev \in Nat /\ row[held[w].key].epoch \in Nat
           /\ row[held[w].key].rev <= held[w].rev /\ held[w].rev <= revision /\ revision \in Nat
           /\ WorkerKnows(w, pc[w], held[w]) /\ RowSound(held[w].key)
<1>1. held[w].key \in Keys /\ WorkerKnows(w, pc[w], held[w]) /\ held[w] \in Held
  BY DEF Inv, WorkerKnows, TypeOK
<1>2. row[held[w].key] \in Row /\ RowSound(held[w].key) /\ revision \in Nat
  BY <1>1 DEF Inv, TypeOK
<1>3. held[w].key[2] \in Listeners
  BY <1>1 DEF Keys
<1> QED  BY <1>1, <1>2, <1>3 DEF WorkerKnows, Held, Row

LEMMA ClaimRevokedInv ==
    ASSUME Inv, NEW w \in Workers, ClaimRevoked(w)
    PROVE  Inv'
<1> DEFINE k == held[w].key
           r == Revoke(row[k])
<1>1. /\ UNCHANGED <<policy, held, fence, thread, faults>> /\ pc[w] = "claim" /\ Transaction
      /\ pc' = [pc EXCEPT ![w] = "dispatch"] /\ row' = [row EXCEPT ![k] = r]
      /\ row[k].state = "pending" /\ ~StillValid(w)
  BY DEF ClaimRevoked, Goto, SetRow, Untouched
<1>2. pc[w] \in Engaged
  BY <1>1 DEF Engaged
<1>3. TypeOK'
  BY <1>2, EngagedFacts, ClaimRevokedType DEF Inv
<1>4. r.state = "revoked" /\ r.rev = row[k].rev /\ r.epoch = row[k].epoch + 1
      /\ r.attempts = row[k].attempts
  BY <1>2, EngagedFacts, RevokeRow
<1>5. row[k].rev < revision \/ lapsed
  BY <1>1, <1>2, EngagedFacts DEF WorkerKnows, StillValid
<1> HIDE DEF r
<1>6. pc'[w] = "dispatch" /\ \A v \in Workers \ {w} : pc'[v] = pc[v] /\ held'[v] = held[v]
  BY <1>1 DEF Inv, TypeOK
<1>7. WorkerKnows(w, pc[w], held[w])'
  BY <1>1, <1>2, <1>6, EngagedFacts DEF WorkerKnows, Engaged, Claiming, Fenced, policy
<1>8. ASSUME NEW j \in Keys PROVE RowStep(row[j], row'[j]) /\ KeyStep(j)
  <2>1. row'[j] = IF j = k THEN r ELSE row[j]
    BY <1>1 DEF Inv, TypeOK
  <2>2. row[j].epoch \in Nat /\ row[j].attempts \in Nat
    BY Consts DEF Inv, TypeOK, Row
  <2>3. Tried(r)
    BY <1>4 DEF Tried
  <2> QED  BY <1>1, <1>4, <1>5, <2>1, <2>2, <2>3 DEF RowStep, KeyStep
<1> QED  BY <1>1, <1>3, <1>6, <1>7, <1>8, TransactionStep

LEMMA ClaimInv ==
    ASSUME Inv, NEW w \in Workers, Claim(w)
    PROVE  Inv'
<1> DEFINE k == held[w].key
           r == Claimed(w)
<1>1. /\ UNCHANGED <<policy, fence, thread, faults>> /\ pc[w] = "claim" /\ Transaction
      /\ pc' = [pc EXCEPT ![w] = "validate"]
      /\ held' = [held EXCEPT ![w] = [held[w] EXCEPT !.epoch = held[w].epoch + 1]]
  BY Zenon DEF Claim, Goto
<1>2. pc[w] \in Engaged
  BY <1>1 DEF Engaged
<1>3. TypeOK'
  BY <1>2, EngagedFacts, ClaimType DEF Inv
<1>4. /\ r.state = "claimed" /\ r.rev = row[k].rev /\ r.epoch = row[k].epoch + 1
      /\ r.attempts = row[k].attempts + 1
      /\ row' = [row EXCEPT ![k] = r] /\ row[k].epoch = held[w].epoch /\ row[k].state = "pending"
  BY <1>2, EngagedFacts, ClaimedRow DEF Inv
<1> HIDE DEF r
<1>5. pc'[w] = "validate" /\ \A v \in Workers \ {w} : pc'[v] = pc[v] /\ held'[v] = held[v]
  BY <1>1 DEF Inv, TypeOK
<1>6. held'[w].key = k /\ held'[w].rev = held[w].rev /\ held'[w].epoch = held[w].epoch + 1
  BY <1>1, <1>2, EngagedFacts DEF Held, Inv, TypeOK
<1>7. row'[k] = r
  BY <1>2, <1>4, EngagedFacts DEF Inv, TypeOK
<1>8. fence # w
  BY <1>1, Consts DEF Transaction
<1>9. WorkerKnows(w, pc[w], held[w])'
  BY <1>1, <1>2, <1>4, <1>5, <1>6, <1>7, <1>8, EngagedFacts DEF WorkerKnows, Engaged, Claiming, Fenced, policy
<1>10. ASSUME NEW j \in Keys PROVE RowStep(row[j], row'[j]) /\ KeyStep(j)
  <2>1. row'[j] = IF j = k THEN r ELSE row[j]
    BY <1>4 DEF Inv, TypeOK
  <2>2. row[j].epoch \in Nat /\ row[j].attempts \in Nat
    BY Consts DEF Inv, TypeOK, Row
  <2>3. row[k].attempts \in Nat
    BY <1>2, EngagedFacts, Consts DEF Row
  <2>4. Tried(r)
    BY <1>4, <2>3 DEF Tried
  <2> QED  BY <1>4, <2>1, <2>2, <2>4 DEF RowStep, KeyStep
<1> QED  BY <1>1, <1>3, <1>5, <1>9, <1>10, TransactionStep

LEMMA ValidateInv ==
    ASSUME Inv, NEW w \in Workers, Validate(w)
    PROVE  Inv'
<1> DEFINE k == held[w].key
           h == [held[w] EXCEPT !.rev = revision, !.ok = Authorised(k)]
           l == IF Authorised(k) THEN "fence" ELSE "complete"
<1>1. /\ UNCHANGED <<policy, row, fence, thread, faults>> /\ pc[w] = "validate"
      /\ pc' = [pc EXCEPT ![w] = l] /\ held' = [held EXCEPT ![w] = h]
  BY Zenon DEF Validate, Goto, mail
<1>2. pc[w] \in Engaged
  BY <1>1 DEF Engaged
<1>3. TypeOK'
  BY ValidateType DEF Inv
<1>4. h.key = k /\ h.rev = revision /\ h.epoch = held[w].epoch
  BY <1>2, EngagedFacts DEF Held
<1> HIDE DEF h
<1>5. pc'[w] = l /\ held'[w] = h /\ \A v \in Workers \ {w} : pc'[v] = pc[v] /\ held'[v] = held[v]
  BY <1>1 DEF Inv, TypeOK
<1>6. fence # w
  BY <1>1, <1>2, EngagedFacts DEF WorkerKnows, Fenced
<1>7. l = "fence" => row[k].rev = revision
  BY DEF Authorised
<1>8. l # "fence" => l = "complete" /\ (row[k].rev < revision \/ lapsed)
  BY <1>2, EngagedFacts DEF Authorised, RowSound, Granted
<1> HIDE DEF l
<1>9. l \in {"fence", "complete"}
  BY <1>8
<1>10. WorkerKnows(w, pc[w], held[w])'
  BY <1>1, <1>2, <1>4, <1>5, <1>6, <1>7, <1>8, <1>9, EngagedFacts
     DEF WorkerKnows, Engaged, Claiming, Fenced, policy
<1> QED  BY <1>1, <1>3, <1>5, <1>10, QuietStep

LEMMA EnterFenceInv ==
    ASSUME Inv, NEW w \in Workers, EnterFence(w)
    PROVE  Inv'
<1> DEFINE k == held[w].key
           l == IF Current(w) THEN "append" ELSE "complete"
<1>1. /\ UNCHANGED <<policy, row, held, thread, faults, mail>> /\ pc[w] = "fence" /\ Transaction
      /\ pc' = [pc EXCEPT ![w] = l] /\ fence' = IF Current(w) THEN w ELSE fence
  BY DEF EnterFence, Goto
<1>2. pc[w] \in Engaged
  BY <1>1 DEF Engaged
<1>3. TypeOK'
  BY <1>1 DEF Inv, TypeOK, policy, mail, Steps
<1>4. pc'[w] = l /\ \A v \in Workers \ {w} : pc'[v] = pc[v] /\ held'[v] = held[v]
  BY <1>1 DEF Inv, TypeOK
<1>5. ASSUME Current(w) PROVE WorkerKnows(w, pc[w], held[w])'
  <2>1. l = "append" /\ fence' = w
    BY <1>1, <1>5
  <2>2. row[k].epoch = held[w].epoch /\ held[w].rev = revision /\ row[k].rev = revision
    BY <1>1, <1>2, <1>5, EngagedFacts DEF Current, HoldsClaim, WorkerKnows
  <2> QED  BY <1>1, <1>2, <1>4, <2>1, <2>2, EngagedFacts DEF WorkerKnows, Engaged, Claiming, Fenced, policy
<1>6. ASSUME ~Current(w) PROVE WorkerKnows(w, pc[w], held[w])'
  <2>1. l = "complete" /\ fence' # w
    BY <1>1, <1>6, Consts DEF Transaction
  <2>2. held[w].epoch = row[k].epoch => row[k].rev < revision \/ lapsed
    BY <1>1, <1>2, <1>6, EngagedFacts DEF Current, HoldsClaim, WorkerKnows, RowSound, Claiming
  <2> QED  BY <1>1, <1>2, <1>4, <2>1, <2>2, EngagedFacts DEF WorkerKnows, Engaged, Claiming, Fenced, policy
<1>7. WorkerKnows(w, pc[w], held[w])'
  BY <1>5, <1>6
<1>8. \A v \in Workers \ {w} : fence' = v <=> fence = v
  BY <1>1, Consts DEF Transaction
<1> QED  BY <1>1, <1>3, <1>4, <1>7, <1>8, QuietStep

LEMMA EndPassInv ==
    ASSUME Inv, NEW w \in Workers, EndPass(w)
    PROVE  Inv'
<1>1. /\ UNCHANGED <<policy, row, fence, thread, faults>> /\ pc[w] = "dispatch"
      /\ pc' = [pc EXCEPT ![w] = "idle"] /\ held' = [held EXCEPT ![w] = Nothing]
  BY DEF EndPass, Goto
<1>2. TypeOK'
  BY EndPassType DEF Inv
<1>3. pc'[w] = "idle" /\ held'[w] = Nothing /\ \A v \in Workers \ {w} : pc'[v] = pc[v] /\ held'[v] = held[v]
  BY <1>1 DEF Inv, TypeOK
<1>4. fence # w /\ revision \in Nat
  BY <1>1 DEF Inv, WorkerKnows, Fenced, TypeOK
<1>5. WorkerKnows(w, pc[w], held[w])'
  BY <1>1, <1>3, <1>4, NothingHeld DEF WorkerKnows, Engaged, Claiming, Fenced, policy
<1> QED  BY <1>1, <1>2, <1>3, <1>4, <1>5, QuietStep

LEMMA StopInv ==
    ASSUME Inv, NEW w \in Workers, Crash(w) \/ Outage(w)
    PROVE  Inv'
<1>1. /\ UNCHANGED <<policy, row, thread>> /\ faults' = faults + 1
      /\ fence' = IF fence = w THEN NoWorker ELSE fence
      /\ pc' = [pc EXCEPT ![w] = "idle"] /\ held' = [held EXCEPT ![w] = Nothing]
  BY DEF Crash, Outage, Stop, Goto
<1>2. TypeOK'
  BY StopType DEF Inv
<1>3. pc'[w] = "idle" /\ held'[w] = Nothing /\ \A v \in Workers \ {w} : pc'[v] = pc[v] /\ held'[v] = held[v]
  BY <1>1 DEF Inv, TypeOK
<1>4. fence' # w /\ revision \in Nat
  BY <1>1, Consts DEF Inv, TypeOK
<1>5. WorkerKnows(w, pc[w], held[w])'
  BY <1>1, <1>3, <1>4, NothingHeld DEF WorkerKnows, Engaged, Claiming, Fenced, policy
<1>6. \A v \in Workers \ {w} : fence' = v <=> fence = v
  BY <1>1, Consts
<1> QED  BY <1>1, <1>2, <1>3, <1>4, <1>5, <1>6, QuietStep

\* The worker that holds the fence is the only one whose step is in it.
LEMMA FencedFacts ==
    ASSUME Inv, NEW w \in Workers, pc[w] \in Fenced
    PROVE  /\ fence = w /\ \A v \in Workers \ {w} : fence # v /\ pc[v] \notin Fenced
           /\ row[held[w].key].rev = revision /\ row[held[w].key].epoch = held[w].epoch
           /\ row[held[w].key].state = "claimed"
           /\ pc[w] = "commit" => thread[held[w].key] = 1
<1>1. WorkerKnows(w, pc[w], held[w]) /\ \A v \in Workers : WorkerKnows(v, pc[v], held[v])
  BY DEF Inv
<1>2. fence = w /\ pc[w] \in Claiming
  BY <1>1 DEF WorkerKnows, Fenced, Claiming
<1>3. \A v \in Workers \ {w} : fence # v /\ pc[v] \notin Fenced
  BY <1>1, <1>2 DEF WorkerKnows
<1> QED  BY <1>1, <1>2, <1>3 DEF WorkerKnows

LEMMA AppendInv ==
    ASSUME Inv, NEW w \in Workers, Append(w)
    PROVE  Inv'
<1> DEFINE k == held[w].key
<1>1. /\ UNCHANGED <<policy, row, mail, fence, held, faults>> /\ pc[w] = "append"
      /\ pc' = [pc EXCEPT ![w] = "commit"] /\ thread' = [thread EXCEPT ![k] = 1]
  BY DEF Append, Goto
<1>2. pc[w] \in Engaged /\ pc[w] \in Fenced
  BY <1>1 DEF Engaged, Fenced
<1>3. TypeOK'
  BY <1>1 DEF Inv, TypeOK, policy, mail, Steps
<1>4. pc'[w] = "commit" /\ \A v \in Workers \ {w} : pc'[v] = pc[v] /\ held'[v] = held[v]
  BY <1>1 DEF Inv, TypeOK
<1>5. thread'[k] = 1 /\ \A j \in Keys \ {k} : thread'[j] = thread[j]
  BY <1>1, <1>2, EngagedFacts DEF Inv, TypeOK
<1>6. WorkerKnows(w, pc[w], held[w])'
  BY <1>1, <1>2, <1>4, <1>5, EngagedFacts, FencedFacts
     DEF WorkerKnows, Engaged, Claiming, Fenced, policy
<1>7. \A j \in Keys : RowStep(row[j], row'[j])
  BY <1>1 DEF RowStep, Inv, TypeOK, Row
<1>8. ASSUME NEW j \in Keys PROVE RowSound(j)'
  <2>1. CASE j = k
    <3>1. RowSound(k) /\ row[k].state = "claimed"
      BY <1>2, EngagedFacts, FencedFacts
    <3>2. Active(k[2])' <=> Active(k[2])
      BY <1>1 DEF Active, policy
    <3> QED  BY <1>1, <1>5, <2>1, <3>1, <3>2 DEF RowSound, Tried, policy
  <2>2. CASE j # k
    BY <1>1, <1>3, <1>5, <2>2, OtherKey DEF policy
  <2> QED  BY <2>1, <2>2
<1>9. \A j \in Keys : thread[j] = 1 => thread'[j] = 1
  BY <1>5
<1> QED  BY <1>1, <1>3, <1>4, <1>6, <1>7, <1>8, <1>9, WorkerStep

\* The worker that holds the fence leaves the row r behind.
LEMMA LeaveFenceInv ==
    ASSUME Inv, NEW w \in Workers, pc[w] \in Fenced, NEW r \in Row, LeaveFence(w, r),
           r.state \in {"pending", "dead-letter", "delivered"},
           r.state = "pending" => r.attempts < MaxAttempts,
           r.rev = row[held[w].key].rev, r.epoch = row[held[w].key].epoch + 1,
           r.state = "delivered" => pc[w] = "commit",
           r.attempts = row[held[w].key].attempts,
           r.state = "dead-letter" => r.attempts = MaxAttempts
    PROVE  Inv'
<1> DEFINE k == held[w].key
<1>1. /\ UNCHANGED <<policy, mail, thread, held, faults>> /\ fence' = NoWorker
      /\ pc' = [pc EXCEPT ![w] = "dispatch"] /\ row' = [row EXCEPT ![k] = r]
  BY DEF LeaveFence, Goto, SetRow
<1>2. pc[w] \in Engaged
  BY DEF Engaged, Fenced
<1>3. TypeOK'
  BY <1>2, EngagedFacts, LeaveFenceType DEF Inv
<1>4. pc'[w] = "dispatch" /\ \A v \in Workers \ {w} : pc'[v] = pc[v] /\ held'[v] = held[v]
  BY <1>1 DEF Inv, TypeOK
<1>5. \A j \in Keys : row'[j] = IF j = k THEN r ELSE row[j]
  BY <1>1 DEF Inv, TypeOK
<1>6. fence' # w /\ \A v \in Workers \ {w} : fence' # v /\ fence # v /\ pc[v] \notin Fenced
  BY <1>1, FencedFacts, Consts
<1>7. WorkerKnows(w, pc[w], held[w])'
  BY <1>1, <1>2, <1>4, <1>6, EngagedFacts DEF WorkerKnows, Engaged, Claiming, Fenced, policy
<1>8. ASSUME NEW j \in Keys PROVE RowStep(row[j], row'[j])
  <2>1. row[j].epoch \in Nat
    BY DEF Inv, TypeOK, Row
  <2> QED  BY <1>5, <2>1 DEF RowStep
<1>9. ASSUME NEW j \in Keys PROVE RowSound(j)'
  <2>1. CASE j = k
    <3>1. row[k].rev = revision /\ row[k].state = "claimed" /\ row'[k] = r
          /\ (pc[w] = "commit" => thread[k] = 1) /\ RowSound(k) /\ revision \in Nat
      BY <1>2, <1>5, FencedFacts, EngagedFacts
    <3>2. Active(k[2])' <=> Active(k[2])
      BY <1>1 DEF Active, policy
    <3>3. Tried(r)
      BY DEF Tried
    <3> QED  BY <1>1, <2>1, <3>1, <3>2, <3>3 DEF RowSound, policy
  <2>2. CASE j # k
    BY <1>1, <1>3, <1>5, <2>2, OtherKey DEF policy
  <2> QED  BY <2>1, <2>2
<1>10. UNCHANGED policy /\ \A j \in Keys : thread[j] = 1 => thread'[j] = 1
  BY <1>1
<1> QED  BY <1>3, <1>4, <1>6, <1>7, <1>8, <1>9, <1>10, WorkerStep

LEMMA AppendFailsInv ==
    ASSUME Inv, NEW w \in Workers, AppendFails(w)
    PROVE  Inv'
<1>1. pc[w] \in {"append", "commit"} /\ LeaveFence(w, Failed(row[held[w].key]))
  BY Zenon DEF AppendFails, Failed
<1>2. pc[w] \in Fenced /\ row[held[w].key] \in Row
  <2>1. pc[w] \in Engaged
    BY <1>1 DEF Engaged
  <2> QED  BY <1>1, <2>1, EngagedFacts DEF Fenced
<1> DEFINE r == Failed(row[held[w].key])
<1>3. /\ r \in Row /\ r.state \in {"pending", "dead-letter"}
      /\ r.state = "pending" => r.attempts < MaxAttempts
      /\ r.rev = row[held[w].key].rev /\ r.epoch = row[held[w].key].epoch + 1
      /\ r.attempts = row[held[w].key].attempts
      /\ r.state = "dead-letter" => r.attempts = MaxAttempts
  BY <1>2, FailedRow
<1> HIDE DEF r
<1>4. LeaveFence(w, r) /\ r.state # "delivered"
  BY <1>1, <1>3 DEF r
<1> QED  BY <1>2, <1>3, <1>4, LeaveFenceInv

LEMMA CommitInv ==
    ASSUME Inv, NEW w \in Workers, Commit(w)
    PROVE  Inv'
<1> DEFINE r == Moved(row[held[w].key], "delivered", FALSE)
<1>1. pc[w] = "commit" /\ LeaveFence(w, r)
  BY Zenon DEF Commit, Moved
<1>2. pc[w] \in Fenced /\ row[held[w].key] \in Row
  <2>1. pc[w] \in Engaged
    BY <1>1 DEF Engaged
  <2> QED  BY <1>1, <2>1, EngagedFacts DEF Fenced
<1>3. r \in Row /\ r.state = "delivered" /\ r.rev = row[held[w].key].rev
      /\ r.epoch = row[held[w].key].epoch + 1 /\ r.attempts = row[held[w].key].attempts
  BY <1>2, MovedRow
<1> HIDE DEF r
<1> QED  BY <1>1, <1>2, <1>3, LeaveFenceInv

LEMMA CompleteInv ==
    ASSUME Inv, NEW w \in Workers, Complete(w)
    PROVE  Inv'
<1> DEFINE k == held[w].key
           r == Revoke(row[k])
<1>1. /\ UNCHANGED <<policy, mail, fence, thread, held, faults>> /\ pc[w] = "complete" /\ Transaction
      /\ pc' = [pc EXCEPT ![w] = "dispatch"]
      /\ row' = IF HoldsClaim(w) THEN [row EXCEPT ![k] = r] ELSE row
  BY DEF Complete, Goto
<1>2. pc[w] \in Engaged
  BY <1>1 DEF Engaged
<1>3. k \in Keys /\ row[k] \in Row
  BY <1>2, EngagedFacts
<1>4. r \in Row /\ r.state = "revoked" /\ r.rev = row[k].rev /\ r.epoch = row[k].epoch + 1
      /\ r.attempts = row[k].attempts
  BY <1>3, RevokeRow
<1>5. HoldsClaim(w) => row[k].state = "claimed" /\ (row[k].rev < revision \/ lapsed)
  BY <1>1, <1>2, EngagedFacts DEF WorkerKnows, HoldsClaim
<1> HIDE DEF r
<1>6. RowsOK(row')
  <2>1. RowsOK(row)
    BY DEF Inv, TypeOK, RowsOK
  <2>2. RowsOK([row EXCEPT ![k] = r])
    BY <1>3, <1>4, <2>1, SetRowOK
  <2> QED  BY <1>1, <2>1, <2>2
<1>7. TypeOK'
  BY <1>1, <1>6 DEF Inv, TypeOK, RowsOK, policy, mail, Steps
<1>8. pc'[w] = "dispatch" /\ \A v \in Workers \ {w} : pc'[v] = pc[v] /\ held'[v] = held[v]
  BY <1>1 DEF Inv, TypeOK
<1>9. WorkerKnows(w, pc[w], held[w])'
  BY <1>1, <1>2, <1>8, EngagedFacts DEF WorkerKnows, Engaged, Claiming, Fenced, policy
<1>10. ASSUME NEW j \in Keys PROVE RowStep(row[j], row'[j]) /\ KeyStep(j)
  <2>1. row'[j] = IF HoldsClaim(w) /\ j = k THEN r ELSE row[j]
    BY <1>1 DEF Inv, TypeOK
  <2>2. row[j].epoch \in Nat /\ row[j].attempts \in Nat
    BY Consts DEF Inv, TypeOK, Row
  <2>3. Tried(r)
    BY <1>4 DEF Tried
  <2> QED  BY <1>4, <1>5, <2>1, <2>2, <2>3 DEF RowStep, KeyStep
<1> QED  BY <1>1, <1>7, <1>8, <1>9, <1>10, TransactionStep

-----------------------------------------------------------------------------
(* Steps of the policy, of time, and all of them *)

\* What a change of the policy does to a delivery.
PolicyRow(k) == row'[k] = row[k] \/ (Open(row[k]) /\ row'[k] = Revoke(row[k]))

LEMMA ChangeInv ==
    ASSUME Inv, Change, \A k \in Keys : PolicyRow(k), TypeOK', lapsed' \in BOOLEAN
    PROVE  Inv'
<1>1. /\ revision' = revision + 1 /\ revision \in Nat
      /\ UNCHANGED <<fence, thread, pc, held, faults>>
      /\ \A w \in Workers : fence # w /\ pc[w] \notin Fenced
  BY Consts DEF Change, Transaction, Inv, TypeOK, WorkerKnows
<1>2. ASSUME NEW k \in Keys PROVE /\ row[k].rev \in Nat /\ row[k].epoch \in Nat
                                  /\ RowStep(row[k], row'[k]) /\ row'[k].rev = row[k].rev
                                  /\ row'[k].state \in {row[k].state, "revoked"}
  <2>1. row[k] \in Row
    BY DEF Inv, TypeOK
  <2> QED  BY <2>1, RevokeRow DEF PolicyRow, RowStep, Row, Open
<1>3. ASSUME NEW k \in Keys PROVE RowSound(k)'
  <2>1. RowSound(k)
    BY DEF Inv
  <2>2. /\ row'[k].state = "delivered" <=> row[k].state = "delivered"
        /\ row'[k].attempts = row[k].attempts /\ Tried(row'[k])
    <3>1. row[k] \in Row /\ PolicyRow(k)
      BY DEF Inv, TypeOK
    <3>2. Revoke(row[k]).state = "revoked" /\ Revoke(row[k]).attempts = row[k].attempts
      BY <3>1, RevokeRow
    <3> QED  BY <2>1, <3>1, <3>2 DEF PolicyRow, Open, RowSound, Tried
  <2> QED  BY <1>1, <1>2, <2>1, <2>2 DEF RowSound
<1>4. ASSUME NEW w \in Workers PROVE WorkerKnows(w, pc[w], held[w])'
  <2>1. /\ WorkerKnows(w, pc[w], held[w]) /\ held[w].rev \in Nat /\ held[w].epoch \in Nat
        /\ pc'[w] = pc[w] /\ held'[w] = held[w] /\ fence' # w /\ pc[w] \notin Fenced
    BY <1>1 DEF Inv, TypeOK, Held
  <2>2. CASE pc[w] \notin Engaged
    BY <1>1, <2>1, <2>2 DEF WorkerKnows, Engaged, Claiming, Fenced
  <2>3. CASE pc[w] \in Engaged
    <3> DEFINE k == held[w].key
    <3>1. k \in Keys /\ row[k].state # "none" /\ row[k].rev <= held[w].rev
      BY <2>1, <2>3 DEF WorkerKnows
    <3>2. /\ row'[k].state # "none" /\ row'[k].rev = row[k].rev /\ row[k].epoch <= row'[k].epoch
          /\ row'[k].epoch = row[k].epoch => row'[k].state = row[k].state
          /\ row[k].rev \in Nat /\ row[k].epoch \in Nat /\ row'[k].epoch \in Nat
      <4>1. row'[k].epoch \in Nat
        BY <3>1 DEF TypeOK, Row
      <4> QED  BY <1>2, <3>1, <4>1 DEF RowStep
    <3> QED  BY <1>1, <2>1, <2>3, <3>1, <3>2 DEF WorkerKnows, Engaged, Claiming, Fenced
  <2> QED  BY <2>2, <2>3
<1> QED  BY <1>3, <1>4 DEF Inv

LEMMA PolicyInv ==
    ASSUME Inv, Policy
    PROVE  Inv'
<1>1. RowsOK(row)
  BY DEF Inv, TypeOK, RowsOK
<1>2. ASSUME Change, RowsOK(row'), \A k \in Keys : PolicyRow(k), allowed' \in BOOLEAN,
             lapsed' \in BOOLEAN, listener' \in [Listeners -> {"none", "active", "revoked"}]
      PROVE  Inv'
  <2>1. TypeOK'
    BY <1>2 DEF Inv, TypeOK, Change, RowsOK, mail
  <2> QED  BY <1>2, <2>1, ChangeInv
<1>3. ASSUME NEW l \in Listeners, CreateListener(l) PROVE Inv'
  BY <1>1, <1>2, <1>3 DEF CreateListener, PolicyRow, Inv, TypeOK
<1>4. ASSUME NEW l \in Listeners, RevokeListener(l) PROVE Inv'
  BY <1>1, <1>2, <1>4, RevokeOpenOK DEF RevokeListener, PolicyRow, Inv, TypeOK
<1>5. CASE ReplaceGrants
  BY <1>1, <1>2, <1>5, RevokeOpenOK DEF ReplaceGrants, PolicyRow, Inv, TypeOK
<1>6. CASE RetireThread
  BY <1>1, <1>2, <1>6, RevokeOpenOK DEF RetireThread, PolicyRow, Inv, TypeOK
<1>7. CASE ChangePolicy
  BY <1>1, <1>2, <1>7 DEF ChangePolicy, PolicyRow, Inv, TypeOK
<1>8. CASE GrantLapses
  <2>1. lapsed' /\ UNCHANGED <<revision, allowed, listener, row, mail, fence, thread, pc, held, faults>>
    BY <1>8 DEF GrantLapses
  <2>2. TypeOK'
    BY <1>8, <2>1 DEF Inv, TypeOK, mail, GrantLapses
  <2>3. ASSUME NEW w \in Workers PROVE WorkerKnows(w, pc[w], held[w])'
    <3>1. \A k \in Keys : RowStep(row[k], row'[k])
      BY <2>1 DEF RowStep, Inv, TypeOK, Row
    <3> QED  BY <2>1, <2>2, <3>1, OtherWorker
  <2>4. ASSUME NEW k \in Keys PROVE RowSound(k)'
    BY <2>1, <2>2, OtherKey
  <2> QED  BY <2>2, <2>3, <2>4 DEF Inv
<1> QED  BY <1>3, <1>4, <1>5, <1>6, <1>7, <1>8 DEF Policy

LEMMA TimePassesInv ==
    ASSUME Inv, NEW k \in Keys, TimePasses(k)
    PROVE  Inv'
<1> DEFINE r == [row[k] EXCEPT !.due = TRUE]
<1>1. row[k] \in Row /\ RowsOK(row) /\ Open(row[k])
  BY DEF Inv, TypeOK, RowsOK, TimePasses
<1>2. r \in Row
  BY <1>1, Zenon DEF Row
<1>3. r.state = row[k].state /\ r.rev = row[k].rev /\ r.epoch = row[k].epoch
      /\ r.attempts = row[k].attempts
  BY <1>1 DEF Row
<1>4. /\ row' = [row EXCEPT ![k] = r]
      /\ UNCHANGED <<policy, mail, fence, thread, pc, held, faults>>
  BY DEF TimePasses, SetRow
<1> HIDE DEF r
<1>5. \A j \in Keys : row'[j] = IF j = k THEN r ELSE row[j]
  BY <1>4 DEF Inv, TypeOK
<1>6. TypeOK'
  <2>1. r.state = "pending" => r.attempts < MaxAttempts
    BY <1>1, <1>3 DEF RowsOK
  <2>2. RowsOK(row')
    BY <1>1, <1>2, <1>4, <2>1, SetRowOK
  <2> QED  BY <1>4, <2>2 DEF Inv, TypeOK, RowsOK, policy, mail
<1>7. ASSUME NEW j \in Keys PROVE RowStep(row[j], row'[j]) /\ row'[j].epoch = row[j].epoch
  <2>1. row[j].epoch \in Nat
    BY DEF Inv, TypeOK, Row
  <2> QED  BY <1>3, <1>5, <2>1 DEF RowStep
<1>8. ASSUME NEW w \in Workers PROVE WorkerKnows(w, pc[w], held[w])'
  <2>1. fence = w => pc[w] \in Engaged
    BY DEF Inv, WorkerKnows, Fenced, Engaged
  <2>2. fence = w => row'[held[w].key].epoch = row[held[w].key].epoch
    BY <1>7, <2>1, EngagedFacts
  <2> QED  BY <1>4, <1>6, <1>7, <2>2, OtherWorker DEF policy
<1>9. ASSUME NEW j \in Keys PROVE RowSound(j)'
  <2>1. Tried(row[j]) /\ row[j].attempts \in Nat
    BY Consts DEF Inv, RowSound, TypeOK, Row
  <2>2. Tried(r) <=> Tried(row[k])
    BY <1>3 DEF Tried
  <2>3. \/ row'[j] = row[j]
        \/ /\ row[j].state # "none" /\ row'[j].state # "none" /\ row'[j].rev = row[j].rev
           /\ row'[j].state = "revoked" => row[j].rev < revision \/ lapsed
           /\ row'[j].state = "delivered" <=> row[j].state = "delivered"
           /\ row[j].attempts <= row'[j].attempts /\ Tried(row'[j])
    BY <1>1, <1>3, <1>5, <2>1, <2>2 DEF Open
  <2> QED  BY <1>4, <1>6, <2>3, OtherKey DEF policy
<1> QED  BY <1>6, <1>8, <1>9 DEF Inv

LEMMA InvInit == Init => Inv
<1> SUFFICES ASSUME Init PROVE Inv
  OBVIOUS
<1>1. NoRow \in Row /\ NoRow.state = "none" /\ NoRow.rev = 0 /\ NoRow.attempts = 0
  <2>1. 0 \in 0..MaxAttempts /\ 0 \in Nat
    BY Consts
  <2> QED  BY <2>1, Zenon DEF NoRow, Row
<1>2. TypeOK
  BY <1>1, NothingHeld DEF Init, TypeOK, Steps
<1>3. ASSUME NEW w \in Workers PROVE WorkerKnows(w, pc[w], held[w])
  BY <1>3, NothingHeld, Consts DEF Init, WorkerKnows, Engaged, Claiming, Fenced
<1>4. ASSUME NEW k \in Keys PROVE RowSound(k)
  BY <1>1 DEF Init, RowSound, Tried
<1> QED  BY <1>2, <1>3, <1>4 DEF Inv

LEMMA WorkInv ==
    ASSUME Inv, NEW w \in Workers, Work(w) \/ Crash(w) \/ Outage(w)
    PROVE  Inv'
<1>1. CASE Dispatch(w)
  <2>1. held[w].todo \in SUBSET Keys
    BY DEF Inv, TypeOK, Held
  <2> QED  BY <1>1, <2>1, PassInv DEF Dispatch
<1>2. CASE \E k \in Keys : ReadCandidate(w, k)
  BY <1>2, ReadCandidateInv
<1>3. CASE Crash(w) \/ Outage(w)
  BY <1>3, StopInv
<1>4. CASE Enqueue(w) \/ ClaimLost(w) \/ ClaimRevoked(w) \/ Claim(w) \/ Validate(w)
  BY <1>4, EnqueueInv, ClaimLostInv, ClaimRevokedInv, ClaimInv, ValidateInv
<1>5. CASE EnterFence(w) \/ Append(w) \/ AppendFails(w) \/ Commit(w) \/ Complete(w) \/ EndPass(w)
  BY <1>5, EnterFenceInv, AppendInv, AppendFailsInv, CommitInv, CompleteInv, EndPassInv
<1> QED  BY <1>1, <1>2, <1>3, <1>4, <1>5 DEF Work

LEMMA InvNext == Inv /\ [Next]_vars => Inv'
<1> SUFFICES ASSUME Inv, [Next]_vars PROVE Inv'
  OBVIOUS
<1>1. CASE Policy
  BY <1>1, PolicyInv
<1>2. ASSUME NEW w \in Workers, NEW m \in Messages, Ingest(w, m) \/ Replay(w, m) PROVE Inv'
  <2>1. Start(w, m)
        /\ inbox' \in [Messages -> {"none", "pending", "policy-unavailable", "routed", "dead_letter"}]
    BY <1>2 DEF Ingest, Replay, Inv, TypeOK
  <2> QED  BY <2>1, StartType, StartInv DEF Inv
<1>3. ASSUME NEW w \in Workers, Pump(w) PROVE Inv'
  BY <1>3, PassInv DEF Pump
<1>4. ASSUME NEW w \in Workers, Work(w) \/ Crash(w) \/ Outage(w) PROVE Inv'
  BY <1>4, WorkInv
<1>5. ASSUME NEW k \in Keys, TimePasses(k) PROVE Inv'
  BY <1>5, TimePassesInv
<1>6. CASE UNCHANGED vars
  <2>1. TypeOK'
    BY <1>6 DEF vars, Inv, TypeOK
  <2>2. \A w \in Workers : WorkerKnows(w, pc[w], held[w])'
    BY <1>6 DEF vars, Inv, WorkerKnows
  <2>3. \A k \in Keys : RowSound(k)'
    BY <1>6 DEF vars, Inv, RowSound, Active
  <2> QED  BY <2>1, <2>2, <2>3 DEF Inv
<1> QED  BY <1>1, <1>2, <1>3, <1>4, <1>5, <1>6 DEF Next, Workers

-----------------------------------------------------------------------------
(* The theorems *)

\* Inv holds in every reachable state, however many workers, messages,
\* listeners, changes and faults there are.
LEMMA InvAlways == Spec => []Inv
BY InvInit, InvNext, PTL DEF Spec

\* No delivery is tried more than MaxAttempts times, and one that waits has a
\* try left (mailbox-thread-delivery.js: recovery and failure at the limit).
THEOREM TypeAlways == Spec => []TypeOK
<1>1. Inv => TypeOK
  BY DEF Inv
<1> QED  BY <1>1, InvAlways, PTL

\* The thread has a delivery's message at most once, has it when the delivery
\* counts as delivered, and only when a worker claimed the delivery, also when an
\* append throws after it saved; none is given up before its last try.
THEOREM ThreadMatchesRowAlways == Spec => []ThreadMatchesRow
<1>1. Inv => ThreadMatchesRow
  BY DEF Inv, RowSound, Tried, ThreadMatchesRow
<1> QED  BY <1>1, InvAlways, PTL

\* Mail is given up as revoked only when the policy has changed since it was
\* enqueued, or the grant has run out: never because two workers raced.
THEOREM RevokedForCauseAlways == Spec => []RevokedForCause
<1>1. Inv => RevokedForCause
  BY DEF Inv, RowSound, RevokedForCause
<1> QED  BY <1>1, InvAlways, PTL

LEMMA AppendUnderPolicyStep ==
    ASSUME Inv, [Next]_vars, NEW k \in Keys, thread'[k] > thread[k]
    PROVE  Active(k[2]) /\ allowed /\ row[k].rev = revision /\ row[k].state = "claimed"
<1>1. thread' # thread
  BY DEF Inv, RowSound
<1>2. PICK w \in Workers : Append(w)
  BY <1>1 DEF Next, vars, Policy, Work, CreateListener, RevokeListener, ReplaceGrants, RetireThread,
     ChangePolicy, Change, GrantLapses, Ingest, Replay, Start, Pump, Dispatch, Pass, Enqueue,
     ReadCandidate, ClaimLost, ClaimRevoked, Claim, Validate, EnterFence, AppendFails, LeaveFence,
     Commit, Complete, EndPass, Crash, Outage, Stop, TimePasses
<1>3. pc[w] \in Fenced /\ thread' = [thread EXCEPT ![held[w].key] = 1]
  BY <1>2 DEF Append, Fenced
<1>4. held[w].key = k
  BY <1>3 DEF Inv, TypeOK, RowSound
<1> QED  BY <1>3, <1>4, FencedFacts DEF Inv, RowSound

\* A message enters the thread only while its listener is active, the thread is
\* allowed to have it and the policy is the one it was enqueued under: the
\* fence orders every revoke before or after the whole append.
THEOREM AppendUnderPolicyAlways == Spec => AppendUnderPolicy
<1>1. Inv /\ [Next]_vars => [\A k \in Keys : thread'[k] > thread[k] =>
         Active(k[2]) /\ allowed /\ row[k].rev = revision /\ row[k].state = "claimed"]_vars
  BY AppendUnderPolicyStep
<1> QED  BY <1>1, InvAlways, PTL DEF AppendUnderPolicy, Spec

=============================================================================
