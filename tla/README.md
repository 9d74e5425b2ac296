# TLA+ specifications of Orkestr

Orkestr runs agents as durable *Agent Jobs* and lets people, channels and
desktops meet them. A run is admitted once, driven through one or more attempts
by a process that holds its lease, performs external effects through a ledger,
waits for people where the job asks for it, and ends in a sealed audit record
whose notifications are delivered through an outbox. Beside the jobs, mail is
carried into threads under a policy that may be revoked at any moment, and
desktops are reserved with leases kept in one file. The promises about runs are
written in `docs/spec/runtime-guarantees.md` (G1 to G11). This project models the parts
of the program that have to keep promises while several processes run, checks
them with TLC on small instances, and proves the invariants that matter most
for every value of the constants.

Paths below are relative to the repository; the code of Agent Jobs is in
`packages/core/src/agent-job-*.js`.

    AgentJobLedger         rows of effects and approvals, and the SQL on them
    AgentJobRun            one run and the processes that may drive it
    AgentJobPromise        what a run promises to the outside world
    AgentJobNative         attempts that a provider runs with its own tool loop
    AgentJobAdmission      the runs of one job: events, schedule, queue, cancel
    ConnectorOutbox        the rows of the outbox and what each mutation does
    AgentJobNotify         one notification, from the run's intent to the person
    MailboxDelivery        one mail, from ingress into a thread
    DesktopLease           the desktop leases in their file under its lock
    MC*                    small instances for TLC, with one .cfg per run
    *_proofs               theorems, in seven modules, and lemmas of the ledger

Run `tlc -config AgentJobRun_recovery.cfg MCAgentJobRun.tla` (the part of a
`.cfg` name before the underscore names its MC module) and `tlapm
AgentJobRun_proofs.tla`.

## 1. Inventory

### Components and their state

| component | code | state | operations |
| --- | --- | --- | --- |
| runner | `agent-job-runner.js` | per process: the loop's local copies of the run, the attempts, the pending approval | `driveRun`, `driveLeased`, `recover`, `runAttempt`, `park`, `expire`, `scheduleRetry` |
| tool call executor | `agent-job-effects.js` | the call in hand | `executeToolCall`, `reconcileEffect`, `reconcileDispatchedEffects`, `approvalGate`, `ensureUnknownEffectApprovals`, `ensureMayDispatch`, `dispatch` |
| ledger | `agent-job-ledger.js` | tables `effects`, `approvals` | one SQL statement per operation; `decideApproval` |
| run store | `agent-job-store.js` | tables `runs`, `attempts`, `journal` | `acquireLeaseSync`, `renewLease`, `releaseLease`, `holdsLeaseSync`, updates |
| audit | `agent-job-audit.js` | table `notifications`, the sealed audit | `finalizeRunSync`, `recordNotificationsSync` |
| admission | `agent-job-admission.js` | tables `runs`, `run_keys` | `admitRun` (dedupe, concurrency), `requestCancel` |
| scheduler | `agent-job-scheduler.js` | table `schedule_state`, the set of runs it drives | sweep every 5 s, `fireDueSchedules` |
| native attempts | `agent-job-native-*.js` | grants of one turn | permission hook, completion events, abort |
| provider adapters | `agent-job-{codex,claude-code,openai-compatible}.js` | none that a run depends on | wire protocols |
| triggers | `agent-job-hooks-http.js`, `whatsapp-job-triggers.js`, `agent-job-http.js` | none | parse, authenticate, call admission |
| notification relay and dispatcher | `connectors/src/agent-job-notification-*.js` | fences on outbox rows | relay intents, deliver, fence, retry |
| connector outbox | `connectors/src/connector-outbox*.js` | outbox rows with claims | ensure, claim, release, mark, retain |
| mailbox delivery | `mailbox-thread-delivery.js`, `connectors/src/mailbox-inbox.js`, `thread-resource-policy-*.js` | deliveries with claims, quarantine records, the policy with its revision, inbox rows | ingress, enqueue, claim, append under the fence, complete, recover, replay |
| desktop leases | `browsers/src/desktop-lease*.js` | leases and a generation counter in one JSON file; a lock file with a marker | init, acquire, heartbeat, release, action under a lease |
| effect ledger of threads | `effect-ledger.js` | one row per effect | `runEffect`, `decideEffectApproval` |
| timers | `timers.js` | one JSON list | due pass, manual run, edits |
| the rest | server, web, CLI, launcher, secrets, tenants, charts | configuration and I/O | out of scope |

### How they interact

The processes of Agent Jobs share one SQLite file. The scheduler of the server and
`orkestr run`, `jobs approve` and `jobs cancel` call `driveRun` on a run; `driveRun` takes the
lease, loops over `driveLeased` and releases the lease. Inside an attempt the
agent answers step by step, and each tool call goes through `executeToolCall`,
which writes an intent, perhaps looks it up, perhaps asks a person, checks the
lease and the cancel, marks the row dispatched, awaits `tool.perform` and
commits. A native provider makes its calls itself and asks the runner first. `requestCancel`
and `decideApproval` write to the same tables from anywhere. `finalizeRunSync` writes the terminal state, the notification intents
and the sealed audit in one transaction. The scheduler's tick and the CLI relay
the intents into the connector outbox, claim the rows and deliver them.

Mail reaches the connector inbox; the same request, or a pump of the server,
turns it into deliveries for the listeners of a thread and appends it there
while the policy's revision row is locked. Desktop leases are rewritten whole by
whichever process mutates them, under a kernel lock on a file beside them.

### What is hard

- *Interleaving.* Every `await` is a place where another process may commit.
  The row a driver read before waiting for the agent, the tool or a look-up may
  have changed.
- *Crashes.* A process may be killed between any two transactions, in
  particular between the external call and its commit, and inside recovery; or
  between the rename of a state file and the marker that belongs to it.
- *Leases and claims.* A driver whose event loop is blocked loses its lease
  while it is alive; a pass outlives its claim on a row.
- *People.* Approvals are decided late, twice, after they expired, or never;
  the agent asks again with other arguments in the meantime; listeners are
  revoked while their mail is appended; operators retry what is in doubt.
- *Actors nobody waits for.* A native turn that ignores its abort goes on
  asking and calling beside the attempts that follow.
- *Stale copies.* The outbox pass, the mail worker, the desktop caller that
  recovers a lease, the timers and the thread ledger read, wait and write back.

`PROJECT.json` lists each hazard at its line, with the properties that cover it.

### What makes each component correct

- runner: bounded attempts (G5), one driver at a time, a sealed run does not
  move, every run ends (G1), a cancel ends it (G11), a recovered run has asked
  about every unknown effect (G4);
- executor and ledger: no silent repetition (G3, G4), approval binding and
  single use (G7), no effect for a call made after a cancel (G11);
- audit: state, terminal notification and record change together (G9, G10);
- admission and scheduler: one run per key (G2), the concurrency policy, the
  queue in order and without a mutual wait, missed fires coalesced;
- outbox, relay and dispatcher: a message is accepted again only for a cause
  the design names (G10), settled rows stay settled, every intent settles;
- native attempts: no call repeated on an old answer, no call that
  may have run forgotten by the ledger;
- mailbox delivery: an append happens under the policy the mail was enqueued
  under, one copy in the thread, nothing revoked without a cause, every
  delivery settles;
- desktop leases: an answered lease stays until somebody with a cause takes it,
  actions are fenced, deaths never lock everybody out;
- thread ledger, timers: no lost update, at most one performance per key.

## 2. How the models correspond to the code

**Granularity.** One action is one transaction, one mutation under a file lock,
one call of something outside, or one read followed by an early return. An
`await` separates actions. Definitions marked "Mutation" are variants with a
plausible bug. They are not part of the specifications: substituting one for
the definition that follows it breaks the property it is paired with in
`PROJECT.json`.

### AgentJobRun (with AgentJobLedger and AgentJobPromise)

Exceptions to the granularity, none of which hides a write of another process
from a decision that depends on it: `Ensure` is the transaction of
`ensureUnknownEffectApprovals` together with the reads that follow it (pending
approval, backoff, counted attempts); `ReadRun` reads the run row and the
attempts at once, in the code two consecutive synchronous reads; `MayDispatch`
reads the args hash, the cancel and the lease at once.

**Tables.** `run`, `lease`, `attempts`, `effects`, `approvals`, `notes` and
`audit` are the rows of the SQLite tables. Hashes are the args they identify;
`effects` is a function of the effect key, with `NoEffect` for a key never
intended; rows of `attempts` and `approvals` are in rowid order. Times are
booleans: `backoff` (next_attempt_at is in the future), `lease.live`
(lease_expires_at is in the future), `due` (expires_at has passed).

**Drivers.** `pc[d]` is where a process is in `driveRun`, `cx[d]` its local
variables. Each label is a point between two transactions:

| label | code about to run |
| --- | --- |
| `idle` | not driving |
| `loop` | the top of `driveLeased` (runner 172-180) |
| `recover`, `reconcile` | `recover()` (161-170), `reconcileDispatchedEffects` |
| `look`, `settle` | `reconcileEffect`: the hook, the write of its verdict |
| `ensure`, `sleep`, `start` | approvals and backoff (181-203), insert of the attempt (204-216) |
| `step`, `agent` | the step loop of `runAttempt` |
| `reopen`, `gate`, `check`, `mark`, `perform`, `performed` | `executeToolCall`, `approvalGate`, `ensureMayDispatch`, `dispatch` |
| `ended` | the attempt is over and not yet closed (243-255) |
| `park`, `expire`, `retry`, `finalize` | the transactions of the same names |
| `release` | the `finally` of `driveRun` |

**Environment.** The agent answers anything: a message, a read-only call, a
side effect with any key and args, a final output (valid or not), or a failure
of any kind in `Failures`. The tools may succeed, throw (a plain error means by
contract that nothing happened), throw an error marked `outcomeUnknown`, or take
effect and never report. A reconcile hook tells the truth or fails. People
decide or do not. `world`, the sequence of external calls that took effect, is
the only variable that is not in the program; the properties are about it.
`Performance.approval` and `Performance.late` are history for the properties.

**Death and leases.** `Crash` stops a driver anywhere; the holder id then
belongs to a dead pid, which `AcquireLease` sees (`HolderIsDead`).
`LeaseLapses` lets the clock pass `lease_expires_at` while the holder is alive;
`RenewLease` asks only whether the holder is unchanged, as the code does.
`AcquireLease` does not pick up terminal runs, which the sweep does not list.
A process drives a run once at a time (the scheduler's `inFlight` set; the CLI
drives one run), so a driver is a process.

**Promise.** `AgentJobPromise` has three variables: the outcome, how often
each call took effect, and how often it may. `AgentJobRun` implements it under
the mapping `Promise` (the run is over when it is sealed; one performance is
allowed, and one more for each consumed `effect_unknown` approval). The mapping
is over the keys whose args are fixed (`OwnArgs`); the reason is finding 3.

### AgentJobNative

The same ledger operators, with another executor. `turns` are the turns of the
provider, actors of their own: `Turn.state` is `on` while it may ask,
`stopping` when it was told to park, expire or cancel, `over` when its `run()`
returned or its process died. The runner does not wait longer than the grace
for a turn it aborted, so a turn may outlive its attempt in the process that
started it. `calls` are the calls the hook granted; they outlive even that
process, and their completion may be heard late (`settleNativeEffect` asks for
neither the lease nor the attempt) or never. A call ends `done` or `failed`, as
the provider reports it. What `failed` means the ledger cannot know: a command that
ran and exited non-zero is reported like one that never ran, so the
properties take either for a call that may have changed something. The permission hook is one
transaction (`agent-job-native-attempt.js` 55-100 does not await). `asked` is
history: how many approvals there were when the call was granted.

### AgentJobAdmission

`runs` is the job's part of the table `runs` in rowid order, with the policy of
each run's pinned spec. Between `ReadSpec` (the spec is read and the provider is
asked for its status) and `Admit` (the transaction) another process may commit
anything, also register another version of the job. `fireDueSchedules` is
`FirstFire`, `SlotIsDue`, `Admit` or `Refuse`, `Advance`: the slot is admitted and
`next_fire_at` moved in separate transactions with the `now` read at the start
of the sweep. A run's `drive` is the runner reduced to what concerns other
runs: the queue wait is passed (`cleared`), the attempt runs, ends, is tried
again, waits for a person, or its driver dies. Cron arithmetic is reduced to
slots on a clock, aligned (daily, weekly) or not.

### ConnectorOutbox and AgentJobNotify

`ConnectorOutbox` has the row and one operator for each mutation of the outbox.
The outbox is rewritten whole under a file lock, so an operator is one step of
the module that uses it. `AgentJobNotify` follows one notification: `intent`
(the run's row in `notifications`), `outer` (its outbox row) and, for WhatsApp,
`inner` (the row `sendWhatsApp` makes under `<key>:whatsapp`). A pass `p` is at
`pc[p]` with `job[p]`, the copy of the row its claim returned; it delivers and
records with that copy although the row may have been claimed again, archived,
suppressed, retried or pruned meanwhile. Faults are deaths of passes
(`Crash`), claims that run out while their pass lives, an operator's
action (what the operator saw may be old when the action is written) and
retention. A mail transport that throws may
have been refused or may have been accepted (`ThrowsAfter`). So may the
local bridge of WhatsApp: when its page dies under a send it sends again in the
same call, and a second death is thrown under a name the dispatcher's pattern
for lost answers does not match. `hidden` counts the messages that a channel
accepted in this way and the dispatcher does not know of; an answer lost in the
open (`not_confirmed`) is not among them.

### MailboxDelivery

`policy` is the revision row and what it guards: the thread's grant, whether it
has lapsed (time, which moves no revision), each listener. `row[k]` is the
delivery of a message for a listener, with the revision it was enqueued under,
its claim epoch and its attempts. A worker is a request that brings mail
(`Ingests`) or a pass of the pump (`Pumps`). Enqueue is: decide outside a
transaction, then insert inside one that compares the revision. Dispatch is:
claim, validate, open the fence (a transaction on the revision row, which every
policy change needs too), append, commit. The append is in the thread's own
store and outlives a rollback; a second append with the same
`client-message id` adds nothing. It may throw before it saved the message and
after (`AppendFails` at `append` and at `commit`): the history, the thread's own
record and its events are written after the message. `inbox` and `replays` are the connector inbox
row: a message that met a policy store that was down is replayed by the pump up
to `MaxReplays` times.

### DesktopLease

A mutation is seven steps: open the lock file (its inode), wait for the kernel's
lock and check that the file is still the one under the name, read and change
the copy in memory, check again, rename, mark the lock file as initialized and
return. `lockFile` is the inode under the name, `marked` the inodes with the
marker; the state file names the inode it belongs to. `Accepts` is the table in
`readLeaseState` of which inode accepts which file. `acquireDesktopLease` reads
the active lease before it takes the lock (`Look`), and may recover what it found
expired or stale. `withCurrentLeaseAction` checks the lease and performs the action
without an `await` between (`Act`). `owed` (the lease that the last answered
grant gave) and `acted` (the last action) are history. Faults: an operator
replaces the lock file, or loses the state file.

## 3. What the runs check

| run | instance | what it shows |
| --- | --- | --- |
| `recovery` | two drivers; a reconcilable tool and a gated at-most-once tool with two sets of args; two providers, a failure that leads from one to the next; 2 attempts, 2 steps, 3 calls, 1 death. 4.2 M states | `NoSilentRepeat`, `ApprovalBindsArgs`, `BoundedAttempts`, `OneDriver`, `SealedIsFinal`, and the refinement `KeepsPromise` |
| `lapse` | two drivers, the gated tool, 3 calls, one lapsed lease. 2.2 M states | `ApprovalSingleUse`, `NoEffectAfterCancel`, `FinishAnnouncedOnce` although two processes drive at once |
| `live` | one process that may die and come back, the gated tool, whose outcome may be unknown; 2 attempts, 2 steps, 4 calls, a failure that is tried again and one that is not, with fairness. 0.92 M states | `CancelFinishes`, `RunFinishes`, `AskedBeforeStart`, and `TypeOK` where the first failure is at the end of the provider chain |
| `native` | one process, one tool call key, 2 attempts, 2 granted calls, 1 death or lapse, with fairness. 1.3 M states | `RepeatedByPerson`: no call is granted again on an answer given before the first; `CallsAccountedFor`: a call that may have run is not forgotten, unless the provider reported one as not ok or its question expired; `CancelEnds` although a turn never returns |
| `admission` | the server with its schedule, the CLI, one event, three policies, 2 runs, clock to 3, 1 new version of the job, 1 death, with fairness. 0.78 M states | `OneRunPerKey`, `OverlapAllowed`, `QueueInOrder`, `MissedFiresCoalesced`, `RunsEnd` |
| `notify` | two passes, each of the four channels, 2 attempts, any two faults, transports that throw before or after they were accepted, with fairness. 1.5 M states | `WhatsAppOnce`, `MailedAgainForCause`, `ClaimsBounded`, `DeliveredReached`, `EnqueuedOnce`, `SettledStays`, `NotificationSettles` |
| `mailbox` | a request and a pump, one message, one listener, 2 attempts, 2 replays, 3 changes of the policy, 1 crash or outage, appends that fail at any time, with fairness. 0.86 M states | `AppendUnderPolicy`, `ThreadMatchesRow`, `RevokedForCause`, `RowsSettle` |
| `lease` | two processes, two threads, one desktop, 3 calls, ttl 2, stale after 1, clock to 2, 1 death, 1 fault. 8.4 M states | `GrantsKept`, `ActionsFenced`, `TakenForCause`, `CrashNeverShuts` |
| `reconcile`, `expire`, `newargs`, `email` | the smallest instances that show a disagreement | the findings of section 5 |

### The bounds, and why they are enough

*Runs.* `MaxCalls` (tool calls of the agent in the whole run), `MaxCrashes`,
`MaxLapses` bound the environment; `MaxAttempts`, `Providers` and `MaxSteps`
are the program's own. An effect is repeated by at least two calls of one key, or
one call and a recovery, and a third call meets what the second left (an answer
that was used up by a call that failed); a stale decision needs one death or one lapse at the
worst moment, and TLC tries every moment; an approval is reused by at least two
calls; a fallback needs two providers (`recovery`), and the end of the chain is
reached with one (`live`). `recovery` has the one provider failure that leads to
the next provider and to a retry, besides the one every tool loop may end with;
`live` has that one and a timeout, which leads to neither; the other kinds
take one of these two ways through the loop. `AskedBeforeStart` is about an
effect that is interrupted again while it is repeated. That needs a call, its repetition on an answer, and a
start after each, and it was made sure that `live` gets there: 4 calls, of which
the outcome may stay unknown without a death, and attempts that end in an
approval wait, which do not count. A second death matters inside recovery, which `reconcile` (two deaths) is about.
`NoSilentRepeat` counts: for each key, the calls that took effect (`Times`) and
what the answers allow (`Allowed`, one and one more for each consumed answer),
and asks in addition that a row the executor would perform unasked (`Free`) has
one left. It does not ask that the call that repeats another carries the
approval itself: a person answers "perform it once more", the answer is
consumed, the tool throws a plain error (by contract, nothing happened), and
the next call of that key is performed without an approval. That is one
repetition for one answer, and it needs the third call to be seen.
While a lease lapses, `NoSilentRepeat` does not hold: the old driver passed
`ensureMayDispatch` and performs, commits or parks without asking again, and
the new one may repeat the call. The failure model of `runtime-guarantees.md`
does not name a blocked process. `OneDriver`, `SealedIsFinal` and
`AskedBeforeStart` are for the same reason claims about heartbeats that are in
time (`MaxLapses = 0`). What still holds under lapses is what `lapse` checks.

*Native.* A call that is repeated needs two grants; a turn that outlives its
attempt meets one more attempt; one death or one lapse puts it in either place.
A second process adds more than four times the states and no case that a second
drive of the same process does not have: the turn, the calls and the ledger do
not know who drives.

*Admission.* Two runs are what overlap, order and deduplication are about; a
slot is missed when the clock passes two fires while the server is down or
slow, for which a clock of 3 with a period of 1 is enough; one new version of
the job changes the policy between the reads and the transaction.

`AskedBeforeStart` asks for a *closed* question that was not used up, not for a
person's answer. A question whose time ran out is closed: the run starts another
attempt, and ends as soon as the agent asks for that call (`expire`). And the
question is found by its key and args, as the code finds it, so an answer to the
same args that was never used counts although other args came between (finding 3).

*Notify.* Two passes race for one row; two faults are a death and a late pass,
an operator and a prune, and so on in any order. `MaxAttempts` of 2 has a retry
and the last attempt.

*Mailbox.* One message and one listener: deliveries of different keys meet only
in the fence and in the inbox row of their message. Three changes of the policy
are grant, creation and revocation; two replays have one that fails.

*Lease.* A race needs two processes and two threads; a third call acts, renews
or releases after the race. A lease is stale after one tick and expires after two.
With two faults (the lock file replaced *and* the state lost) there is nothing
left to refuse on, so the properties are about one.

Symmetry is used for processes that the specification treats alike (drivers;
processes and threads of `lease`), and never in a run with liveness.

### Fairness

- `AgentJobRun`: weak fairness of some process acquiring the lease of
  a run that can be driven (the scheduler sweeps every five seconds and is started
  again with the server); each driver's steps (the agent answers before the
  attempt's deadline or fails with a timeout, runner 55-62; that a tool's
  `perform` and `reconcile` return or throw is assumed, the runner sets no
  deadline on them); `ApprovalTimeout` (every approval has an `expires_at`);
  `BackoffElapses` (a time in the future comes). None on people, crashes or
  lapses. `MaxCalls` bounds what the agent asks for. That matters: without it
  finding 2 would let an agent that asks for an expired effect again, in every
  attempt, keep the run alive for ever, because an attempt closed as
  `approval_wait` does not count. `RunFinishes` is therefore a statement about
  agents that ask finitely often.
- `AgentJobNative`: acquiring and the driver's steps, which include the
  deadline and the grace after it; nothing of the turn and of people. A cancel
  must not depend on either.
- `AgentJobAdmission`: the clock, the steps of a request and of the sweep, the drive of
  each run that may start; a request is not started by fairness.
- `AgentJobNotify`: the steps of each pass (the scheduler starts them for as
  long as the server runs, a transport answers or throws), and the two times that
  come. None on operators and retention.
- `MailboxDelivery`: the steps of a worker that is not stopped, the pump's
  timer, and the times. None on people, grants and outages.

`DesktopLease` has no liveness: a caller that does not get the lock gives up, and
nobody retries for it.

## 4. What is proved

The theorems hold for every value of the constants, bounds included, from the
assumptions the modules state (`BoundsAssumption`, `KeysAssumption`,
`FailuresAssumption`, `NativeAssumption`, `AdmissionAssumption`,
`NotifyAssumption`, `MailboxAssumption`, `LeaseAssumption`: numbers are
naturals, sets have the shapes their comments say, sentinels are not members).
A theorem that needs more says so in its statement. Each proof has an inductive
invariant that is stronger than the property, one lemma for each action or
group of actions, and a temporal step at the end.

| module | theorems |
| --- | --- |
| `AgentJobRun_proofs` | `TypeCorrect`, `SingleUse` (`ApprovalSingleUse`) |
| `AgentJobRunDrive_proofs` | in every behaviour `AnnouncedOnce` (`FinishAnnouncedOnce`), `CancelHolds` (`NoEffectAfterCancel`); until a lease lapses `OneDriverQuiet`, `SealHolds` (`SealedIsFinal`), `AttemptsBounded` (`BoundedAttempts`), `ArgsBound` (`ApprovalBindsArgs`), `NeverRepeated` (`NoSilentRepeat`); in behaviours without a lapse `AskedFirst` (`AskedBeforeStart`), `PromiseKept` (the refinement `KeepsPromise`) |
| `AgentJobNative_proofs` | `TypeAlways`, `RepeatedByPersonAlways`, `CallsAccountedForAlways` |
| `AgentJobAdmission_proofs` | `TypeAlways`, `OneRunPerKeyAlways`, `OverlapAllowedAlways`, `QueueInOrderAlways`, and for one server `MissedFiresCoalescedAlways` |
| `AgentJobNotify_proofs` | `TypeAlways`, `EnqueuedOnceAlways`, `DeliveredReachedAlways`, `ClaimsBoundedAlways`, `WhatsAppOnceAlways` and, where no transport throws after it was accepted, `WhatsAppOnceInTheOpen`, `MailedAgainForCauseAlways`, `SettledStaysAlways` |
| `MailboxDelivery_proofs` | `TypeAlways`, `ThreadMatchesRowAlways`, `RevokedForCauseAlways`, `AppendUnderPolicyAlways` |
| `DesktopLease_proofs` | `TypeAlways`, `CrashNeverShutsAlways`, and under `MaxFaults = 0` `GrantsKeptAlways`, `ActionsFencedAlways`, `TakenForCauseAlways` |

`AgentJobLedger_proofs` has the lemmas about the ledger's operators that the
proofs of `AgentJobRun` and `AgentJobNative` cite.

**AgentJobRun, types.** `TypeOK` is not inductive: `Settle` reads
`effects[call.key]`, `Park` reads `approvals[ask]` and `Gate` creates an
approval with `call.row.args`, and the types alone admit a driver at those
labels with no key, no approval and no args. `TypeInv` adds `KnownRows` (an
effect that was intended has args; approvals are about intended effects) and,
for each driver, `Known` (what it holds at its label names rows that exist).
This has to survive the steps of *other* drivers, which is why it asks only for
what no statement takes back (`RowsGrow`): a row that was intended is never
forgotten and an approval is never deleted, whatever a driver with a lapsed
lease writes.

**AgentJobRun, single use.** `ApprovalSingleUse` is about the world, and the
world learns of an approval only two transactions after it was consumed.
`SingleUseInv` follows it on the way: `SpentInFlight` says that what a driver
between the gate and the call brings was consumed for its key, is not in the
world, and is carried by no other driver, and that a gated call is never in
flight with none; `SpentInWorld` says the same of calls that took effect. The
proof turns on three facts: rows of approvals are never deleted, un-approved or
un-consumed (`ApprovalsKept`); the gate consumes a row it read as unconsumed in
the same transaction (`PayUse`); and a driver passes `perform` once with what
it carries (`PerformUse`). Neither the lease nor the pid check is used: the
single use of an approval does not depend on them.

**AgentJobRun, the rest of what always holds.** `FinishInv` adds to
`FinishAnnouncedOnce` that a driver at `finalize` brings a terminal state
(`FinalStates`). The sealed check and the announcement are one transaction,
which is why two drivers may come to it. `LateInv` adds to
`NoEffectAfterCancel` that a call marked late never gets past `ensureMayDispatch`
(`LateCalls`): a cancel is never taken back, so a call that was asked for under
one is refused whoever drives.

**AgentJobRun while heartbeats are in time.** The rest of the promises rest on
the lease, and so does their proof. `Quiet` (`faults.lapses = 0`) is not an
assumption on a constant: `MaxLapses` may be anything, and the theorems say that
the properties hold in every state before the first lapse (for the two that are
about steps: in behaviours without one). `QuietInv` has seven parts, each of
which the next ones need:

1. `OneDriver`: whoever is not idle is the live holder. A holder that is taken
   over is dead, and the dead are idle. `Alone`, its corollary, reduces every
   later lemma to the one driver that moves.
2. `SealedInv`: when the run is sealed, drivers are on their way out.
3. `AttemptsInv`: one attempt more fits where one may start, and the row of a
   driver inside an attempt has not ended, so ending it counts nothing twice.
   Without the last, a second end could turn an `approval_wait` into an
   attempt that counts.
4. `CallsInv`: what the row of the ledger is at each label of
   `executeToolCall`: the args are those of the call, at the gate the row the
   driver holds is the row in the table, before the call it is intended and not
   dispatched, after it dispatched. This is where the local copies of the code
   are shown not to be stale.
5. `PaidInv`: the approval a driver carries was granted for the args of its
   call; with `SpentInWorld` this gives `ApprovalBindsArgs`.
6. `RepeatInv`: `NoSilentRepeat` at every label: a key about to be performed has
   one performance left, and one whose look-up found nothing has taken no effect
   at all. The count works out because the gate moves `Allowed` by one for each
   answer (`Used`) and only `Perform` moves `Times`.
7. `AskedInv`: at `start` nothing is left to ask: no approval is pending, and
   every unknown effect has a closed question that no repetition used up.

The refinement is one more induction on top: every step of the run is a step of
`AgentJobPromise` or a stutter under the mapping, where `RepeatInv` gives the
guard of the performance and `SealedInv` that the outcome is decided once.

The proofs found three things in the models. `OwnArgs` was stated with a
cardinality and let a key whose set of args is infinite pass; `Dispose` and
`TurnReturns` (of `AgentJobNative`) were written with `CASE` arms that overlap, where TLC
takes the first and the language leaves the choice open, so no theorem about
them could be proved. The arms are disjoint now.

**AgentJobNative.** `Inv` adds to the types `CallSound` (what a granted call
says about its turn and its approval is so) and `RowSound` (for each key, the
row of the ledger and the calls that were granted fit together; its part
`Accounted` says where a call that ended may be found, a call that ended well or
one the provider called failed). The lemma that
carries it, `ApprovalsStep`, says that an approval in the table is never taken
back. As above the lease is not used, so the theorems hold although two processes drive at once.

**AgentJobAdmission.** Rows are created in rowid order and never in the future;
a run that is driven is active; and a run under `queue` that was let through
has no older active run. The last is what makes the wait acyclic, and it
has to survive that other processes admit, cancel and replace.
`MissedFiresCoalesced` has an invariant of its own, `SlotInv`: the slot in the
scheduler's hand is the next one and was due when it was read, no run was made
of it before, and when the schedule is about to move on, one was, not earlier than
the sweep began. It needs one server (`OneScheduler`, a hypothesis of the
theorem): of two sweeps that hold one slot, the later one may find the run made
before its own clock was read, and moves the schedule past fires that no run
stands for. It needs that nothing died so far, as the property says.

**AgentJobNotify.** Everything is counted. Each statement about how often
something happens is proved by counting permits: what the passes that are under
way may still do, and what the row may still let somebody begin. A step hands a
permit on or spends it, and only a fault adds one. `WhatsAppInv` is: messages
accepted, plus passes that have claimed the inner row and not sent (or were told
that it was not sent), plus one when the row is open, is at most one plus the
faults that reopen (`WhatsAppCauses`: the operator, retention, and what a
transport hid). Deaths, late claims and answers lost in the open are not among those
faults: the quarantine takes a row in doubt out of the count. Where no transport
throws after an acceptance nothing is hidden (`NothingHidden`), and only the
operator and retention remain (`WhatsAppOnceInTheOpen`). `MailInv` counts likewise, with the fence:
a row whose claimant died after setting it has no permit left (`FenceInv`).
`ClaimsInv` counts the passes that deliver (`Busy`) against the row's claim and
the faults, and, once the attempts are used up, those that may still reopen the
row (`Young`). What the operator has read and not acted on yet has been counted
by the bound already; `Acted` takes it back. The theorems have no hypothesis
besides `NotifyAssumption`, but for `WhatsAppOnceInTheOpen`: faults of every kind,
as many as one likes.

**MailboxDelivery.** `WorkerKnows` says what a worker may rely on at each step
although nobody holds a lock for it: the epoch it claimed, and what that
epoch implies as long as the row still has it; inside the fence, also the
policy. `RowSound` links a row's state with its tries (`Tried`) and with the
copies in the thread, which a failed append may leave there, and says
that a row enqueued under the policy of now is for an active listener of a
thread that is allowed to have it. `AppendUnderPolicy` follows because every
policy change waits for the fence.

**DesktopLease.** The invariant has a part that always holds (types) and a part
about a world without faults: `Locks` (one holder of the kernel's lock, and the
marker is there only when the state it stands for is) and `Grants` (what an
operation prepared differs from the file only in its desktop, and there only
for one of the causes; what was answered is on file; generations grow). The
pure part, what each mutator makes of a state, is a lemma per mutator
(`AcquiredIs`, `HeartbeatIs`, `ReleasedIs`). That a candidate for recovery is
overdue at the rename, although it was read before the lock was taken, follows
because a lease only gets more overdue and a heartbeat between changes a field
the mutator compares. The properties of the three
theorems that assume `MaxFaults = 0` are checked with one fault by the run
`lease`.

**Model-checked only.** The liveness properties (`CancelFinishes`,
`RunFinishes`, `CancelEnds`, `RunsEnd`, `NotificationSettles`, `RowsSettle`),
which are outside what the proof system can do, as is ENABLED. Every other
property of a passing run is a theorem; for those with a hypothesis the runs go
further or elsewhere in one case: `lease` has a replaced lock file or a lost
state, which the theorems about `DesktopLease` leave out. What the properties of
the run are after a lease lapsed is not stated: `NoSilentRepeat` is false then
(section 3), and `lapse` checks what remains.

## 5. Where the documents and the code disagree

Each of the first four is a run whose property TLC violates.

1. **Recovery that dies is not repeated** (`reconcile`).
   `recover()` marks the attempt interrupted first (runner 163) and looks up
   its effects afterwards; a process that dies in between leaves an attempt
   that the next `recover()` takes for handled. The next attempt starts with a
   dispatched effect in doubt, though "every dispatched-but-uncommitted effect
   of the run is reconciled before the run continues" (effects 222). The call
   is still not repeated silently: `executeToolCall` looks it up if asked again.
2. **`expire()` is two transactions** (`expire`). After the first alone, the
   effect is failed as expired and the run goes on. The next call of that effect
   returns `expired` without an approval (effects 207) and `expire(rc,
   undefined)` throws, in an attempt that is not counted.
3. **Other args replace an unknown effect** (`newargs`).
   `intendEffectSync` overwrites every row that is not committed when the args
   differ, so an effect of unknown outcome runs again unasked. `effect_key`
   does not contain the args.
4. **A transport that throws is taken for one that did not accept the mail**
   (`email`). The dispatcher clears its fence and mails again
   (dispatcher 156-158), also when the answer to the message's data was late.

Noticed while modelling, and allowed by the models:

*Runs.*
- A cancel is handled before recovery (runner 178): the run of a dead driver is
  sealed with an attempt still running and dispatched effects still intended,
  though `docs/spec/agent-job.md` 147-148 has every running attempt whose holder
  is gone marked interrupted.
- `ensureMayDispatch` reads the cancel and the lease, and a later transaction
  marks the row: a cancel in between does not stop the call (effects 122-136,
  G11 "no new effect is started after the cancel is recorded").
  `NoEffectAfterCancel` is about calls the agent *asks for* after the cancel.
- An approval that was granted in time is consumed after `expires_at` (effects
  81; G7 "only before `expires_at`").
- A cancel recorded during the final answer: the run is `succeeded` (runner 233).
- A decision that comes too late expires the approval row and neither fails the
  effect nor drives the run; the next sweep does. `decideApproval` does not ask
  for the run's state and changes approvals of a sealed run.
- `docs/spec/agent-job-runner.md` 90-92 describes `recovery_loop` by the last
  interruptions; the code (runner 74-81) requires all of them to be at one point.
- `docs/spec/agent-job.md` 193 has an unknown effect reconciled first; the code
  goes to the approval gate at once.

*Native attempts.*
- An attempt that ends by timeout, park or error while a granted call is in
  flight leaves its effect dispatched, and `recover()` looks only when the last
  attempt is running: the next attempt starts with the effect in doubt.
- The late completion of one call settles the effect that was granted again for
  another: the ledger may say `failed` although a call took place.
  `CallsAccountedFor` allows exactly this.
- A failed effect may have happened. `ok` is `event.status === "completed"`
  (`agent-job-codex.js` 122-123) or `is_error !== true` (`agent-job-claude-code.js`
  270), so a command that ran, changed things and exited non-zero is recorded as
  failed (`agent-job-native-effects.js` 33-35), and a failed effect may be called
  again. The hook asks before it grants the next call (`RepeatedByPerson`); the
  record does not say what happened.
- A late turn passes `holdsLease` again when its process drives the run again.

*Admission.*
- The queue compares `created_at` with `<` (runner 196), so two runs admitted in the same
  millisecond start together. `QueueInOrder` allows the tie; `RunsEnd` shows that
  they do not wait for each other.
- A refused slot is skipped for good; `docs/spec/agent-job-runner.md` 294-296
  says so, and `MissedFiresCoalesced` counts it as fired.
- A scheduler that dies between the admission and `next_fire_at`, or a second
  scheduler, fires the old slot again, which dedupes: the fires missed meanwhile
  coalesce into no run at all (`docs/spec/runtime-guarantees.md` 44-46).

*Notifications.*
- A pass that outlives its claim before it writes the fence mails a second time.
- The local WhatsApp bridge can send a message twice in one call and say that it
  was refused. When the page dies under `sendMessage` ("Target closed",
  "Execution context was destroyed"; `whatsapp-local-bridge.js` 1559-1562), the
  message is sent again in the same call, two sends at most (1737-1833). When that
  send dies too, or a send dies with a protocol error, the page is recovered and the
  call throws `whatsapp_local_bridge_not_ready_recovered_after_send_runtime_error`
  (7764-7835, 8128-8129; `whatsapp.js` 5963-5978), which is none of the names
  `/not_confirmed|timeout|partial/` of dispatcher 129: the claim is released and the next
  pass sends once more. The dispatcher's header (2-14) and G10 promise at most
  once. The model has both (`SendWhatsApp`); `WhatsAppOnce` counts each hidden
  acceptance as a cause, and `WhatsAppOnceInTheOpen` says that it is the only one
  besides people and retention.
- A row an operator suppressed during a delivery is opened again by the late
  `failed_retryable`; a stale record opens settled rows likewise. `SettledStays`
  is about rows nobody acted on and whose claims did not run out; what a reopened row
  may cost is counted by `MailedAgainForCause`, one mail for each such cause.

*Mailbox.*
- `docs/user-guide.md` ("Replay uses the stable delivery client-message ID, so a
  retry cannot append twice") does not hold when the listener was replaced
  between ingress and replay: the id contains the listener.
- Any change of the policy between the decision and its transaction, related or
  not, quarantines the mail or revokes its deliveries; this fails closed.
- A grant that lapses after the last check does not stop the append.
- An append that throws may have saved the message: `appendThreadMessage` saves it
  and then awaits the history, attachment events, the thread's record (which can
  fail on a lock or a revision) and an event (`threads.js` 970-989). The catch
  (`mailbox-thread-delivery.js` 284-296) makes the delivery pending or, after the
  last try, a dead letter, and a pending one may be revoked: so a message can be in the
  thread whose delivery says that it was given up. `ThreadMatchesRow` allows it;
  it does not allow a second copy or one without a claim.
- A slow ingress may overwrite the inbox state `routed` with
  `policy-unavailable`.

*Desktop leases.*
- `acquireDesktopLease` reads the active lease again after it acquired and
  returns that one, so its answer may carry another thread's lease.
- Viewing "is never renewed or released" (`desktop-owner-share.ts`); but a lease
  that viewing created and that a worker of the same thread renews keeps its
  token, and viewing releases it at the end.
- Two acquisitions of one thread in one millisecond make one lease id, and the
  second write is refused as invalid.
- When the lock file is replaced *and* the state is lost, the store starts
  afresh and hands every desktop out again.

## 6. What is not modelled

In `AgentJobRun`: the text of messages, results and journal entries (but the
point an attempt was interrupted at); several notification rules per event;
database errors. In `AgentJobNative`: Orkestr tools a native turn calls (the
path of `AgentJobRun`), fallback, backoff, wire protocols. In
`AgentJobAdmission`: several jobs, a clock that goes back. In `AgentJobNotify`:
several notifications at once, the bound of 50 rows a pass; in
`ConnectorOutbox`: logical output aliases, partial deliveries, attachments and
`sent_to_broker`. In `MailboxDelivery`: mailbox routes, shadow mode, the pump's
lease (passes run side by side instead, which is more), Postgres. In
`DesktopLease`: the check-only `assertDesktopLeaseForOperation`, the capability
broker, access policies, modes other than exclusive, leases without expiry, the
archive of released rows, the adoption of a retired cohort. Disk corruption,
clock jumps and shared data directories are excluded by the failure model of the
documents.

Not modelled at all:

- *The effect ledger of threads* (`effect-ledger.js`): only the simulated
  executor of the demo goes through `runEffect`; its hazard (read, await, save
  without a transaction) is listed.
- *Timers* (`timers.js`): every writer saves the whole list it read before an
  await. That the last writer wins is plain from the code and acknowledged in
  `docs/setups/manifest-v1.md` 47; a model would only repeat it.
- *Thread runtimes, the WhatsApp bridge, adapters*: terminals, browsers and wire protocols whose
  state is outside the program; most of the code is heuristics about text.
- *Server, web, CLI, launcher, parsing, HTTP, secrets, tenants, charts*:
  configuration, rendering and I/O. They keep no state the guarantees above
  depend on, and they are most of the repository's lines.

## 7. Plan

Done: the modules of the list at the top, and a theorem for every property of a
passing run that is not liveness. Left, in this order:

1. `DesktopLease` with one fault: the three theorems that assume `MaxFaults = 0`
   also when the lock file is replaced or the state is lost once, from an
   invariant that says which inode each rewrite under way belongs to.
2. What remains of the run's promises after a lapse: how many performances
   more than the answers allow a lapse can cost, checked first, then proved by
   counting as for a notification.
3. Abstract specifications for a delivery (accepted at most once, or in doubt)
   and for a lease (a desktop has at most one holder), with refinements as for
   the run.
4. `DesktopLease` with the capability broker on top of it, and the WhatsApp
   delivery scanner on top of `ConnectorOutbox`.

No module declares a RECURSIVE operator, so that all can be proved about.
