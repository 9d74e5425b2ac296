-------------------------- MODULE ConnectorOutbox --------------------------
(***************************************************************************)
(* The rows of the connector outbox (connector-outbox.js) and what each of *)
(* its mutations does to one row.  Every mutation runs under the file lock *)
(* of connector-outbox-lock.js, so a module that uses these operators      *)
(* applies one of them per step; what a caller read before may be stale.   *)
(*                                                                         *)
(* A row's claimExpiresAt is the flag due: it has passed.  Its metadata is *)
(* reduced to the two marks the code decides by: deliveryUncertain and     *)
(* emailSendStartedAt.  updatedAt, which tells whether a row was written   *)
(* since it was read, is left to the rest of the row: every claim counts.  *)
(* Attachments, accounts, logical output aliases, partial deliveries and   *)
(* the state sent_to_broker belong to the WhatsApp delivery scanner.       *)
(***************************************************************************)
EXTENDS Naturals

CONSTANT Claimants      \* processes that claim rows

NoClaimant == "no_claimant"

ASSUME ClaimantsAssumption == NoClaimant \notin Claimants

OpenStates == {"pending", "claimed", "failed_retryable"}
TerminalStates == {"delivered", "skipped", "suppressed", "dead_letter",
                   "delivery_uncertain", "archived"}
PrunableStates == TerminalStates \ {"archived"}

\* A row, or NoRow when the table has none under the key.
Row == [state : OpenStates \cup TerminalStates \cup {"none"},
        by : Claimants \cup {NoClaimant}, due : BOOLEAN, attempts : Nat,
        fence : BOOLEAN, uncertain : BOOLEAN]

NoRow == [state |-> "none", by |-> NoClaimant, due |-> FALSE, attempts |-> 0,
          fence |-> FALSE, uncertain |-> FALSE]
FreshRow == [NoRow EXCEPT !.state = "pending"]

Exists(r) == r.state # "none"
Terminal(r) == r.state \in TerminalStates

\* ensure: the first call inserts; a row that exists keeps its state, its
\* count of attempts and its marks, whatever its state.
Ensure(r) == IF Exists(r) THEN r ELSE FreshRow

\* Mutation: a claim blocks everybody for good.
ClaimExpiredNever(r) == r.state # "claimed" /\ (r.state = "failed_retryable" => r.due)
\* A claim that has run out, or a state without one; a retry that is due.
ClaimExpired(r) == r.state \in {"claimed", "failed_retryable"} => r.due

\* Mutation: an expired claim is taken for one that sent nothing.
QuarantinedNever(r) == FALSE
\* whatsapp only: a claimed row whose claim ran out may have been sent.
Quarantined(r) == r.state = "claimed" /\ r.due
Quarantine(r) ==
    [r EXCEPT !.state = "delivery_uncertain", !.by = NoClaimant, !.due = FALSE,
              !.uncertain = TRUE]

\* Mutation: a settled row may be claimed again.
ClaimableSettled(r) == Exists(r) /\ ClaimExpired(r)
Claimable(r) == Exists(r) /\ ~Terminal(r) /\ ClaimExpired(r)
Claim(r, p) ==
    [r EXCEPT !.state = "claimed", !.by = p, !.due = FALSE,
              !.attempts = @ + 1]

\* release asks neither who holds the claim nor whether there is one.
Release(r) ==
    IF ~Exists(r) \/ Terminal(r) THEN r
    ELSE [r EXCEPT !.state = "pending", !.by = NoClaimant, !.due = FALSE]
ReleaseWhatsApp(r) == IF Quarantined(r) THEN Quarantine(r) ELSE Release(r)

\* mark writes a state over whatever is there; a missing row stays missing.
\* The caller's metadata replaces the row's.
Mark(r, state, fence, uncertain) ==
    IF ~Exists(r) THEN r
    ELSE [r EXCEPT !.state = state, !.by = NoClaimant, !.due = FALSE,
                   !.fence = fence, !.uncertain = uncertain]

\* A mark without a state: the metadata of the caller, the row's own state.
MarkFence(r) ==
    IF ~Exists(r) THEN r ELSE [r EXCEPT !.fence = TRUE]

\* whatsapp only: a patch that would reopen a row that may have been sent is
\* replaced by that row, unless an operator approved this very version of it.
Protected(r) == IF Quarantined(r) THEN Quarantine(r) ELSE r
NeedsOverride(r) == r.uncertain \/ Protected(r).state = "delivery_uncertain"
ReopenRefused(r, seen) ==
    /\ \/ Protected(r).state = "delivery_uncertain"
       \/ r.uncertain /\ r.state \in {"dead_letter", "suppressed", "archived"}
    /\ ~(NeedsOverride(seen) /\ [seen EXCEPT !.due = r.due] = r)

\* The archive sweeps keep updatedAt and the mark of a possible send.
Archivable(r) == r.state \in {"pending", "failed_retryable", "delivery_uncertain"}
Archive(r) ==
    [r EXCEPT !.state = "archived", !.by = NoClaimant, !.due = FALSE,
              !.uncertain = @ \/ r.state = "delivery_uncertain"]
=============================================================================
