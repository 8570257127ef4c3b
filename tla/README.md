# TLA+ specifications of psd-eoc

psd-eoc lets a school district declare an emergency (or a drill) and notifies
the people concerned by push, SMS and email. What makes it hard is the way from
"an operator confirmed" to "each recipient was notified once, and the record
says truthfully what happened": it begins on a phone that loses its network,
crosses commands of several operators, a database, two layers of queues and
workers that may stop anywhere, and ends with providers without idempotency
keys, whose callbacks and receipts arrive in any order. These modules follow
that way from the phone's session to the evidence of a delivery.

Paths below are relative to the repository; `lib/` is `packages/server/lib/`.

## 1. The system

| Part | State it keeps | Operations | What makes it hard | What makes it correct |
|---|---|---|---|---|
| **Event lifecycle** (`lib/capabilities/events.ts`, `journal.ts`) | event row, journal, previews, confirmations, notification intent, outbox row | preview, confirm, start, join, post, all-clear, close, reactivate | concurrent operators, stale previews, repeated commands | what takes effect is what was shown; who was told of an event is told of its end |
| **Capability engine** (`lib/capabilities/engine.ts`) | idempotency records, audit entries | claim, execute, complete, replay, fail | a repeat while the first runs, a request that dies | a command takes effect at most once, and its answer says so |
| **Outbox dispatcher** (`lib/notify/dispatcher.ts`) | `outbox`, `dispatch_batches`; a claim in the memory of each dispatcher | list, claim, send, settle, poll | leases that end under a live holder, partial and lost SQS answers, crashes | one settling holder, stable batch ids, honest `published`, retry budget, eventual settlement |
| **Delivery router** (`infra/lambda/delivery-router`) | none | forward a batch to a channel queue | at-least-once on both sides, partial failures | nothing lost, identity kept |
| **Email queue loop** (`workers/email/queue-runtime.ts`, `service.ts`, `workers/shared/terminal-failure.ts`) | SQS message, receive count, dead-letter queue; a cursor in memory | receive, walk pages, publish a retry, retire, delete | redelivery, two pollers, eligibility that changes between pages | nobody forgotten, everyone attempted |
| **Attempt processor and execution leases** (`workers/shared/processor.ts`, `lib/notify/attempt-execution-store.ts`) | `channel_attempt_executions` | look up, claim, authorize, complete, release, replay | takeovers, crash between any two calls | a completion is final, an attempt concludes |
| **SES adapter and send ledger** (`workers/email/ses-adapter.ts`, `lib/notify/email-runtime-store.ts`) | `ses_email_provider_io` | claim the only permit, send, complete | SES has no idempotency key, answers get lost | one send per attempt, one email per recipient |
| **SES callback** (`app/api/webhooks/ses/runtime.ts`) | the ledger and the evidence | reconcile an SES event | it may overtake the worker | proof of delivery never contradicts the record |
| **Delivery-truth store** (`app/api/internal/delivery-state/runtime.ts`) | `delivery_evidence`, append-only per attempt | record a fact | replays, late, duplicate and contradicting facts | legal chain, terminal facts final |
| **Reconciler** (`lib/notify/reconcile.ts`) | none of its own | turn silence into `unknown` | works from a stale list; nothing schedules it | its writes are legal too |
| **SMS worker** (`workers/sms`, `lib/notify/sms-runtime-store.ts`) | SMS ledger, evidence, opt-outs, the receipts' queue | claim, recover, send, complete, retry, match a receipt | takeover during a send, receipts that overtake the worker, opt-outs | one text per recipient, true reports, only foreign receipts given up |
| **Push worker and receipts** (`workers/push`, `lib/notify/expo-push-runtime-store.ts`) | receipt rows, leases, evidence, retry references | bind, poll, stage, record, drop the device, resend, decide | receipts are polled, leases lapse, ids repeat, an hour ends | a receipt speaks for its own attempt only, a resend means a failure, every receipt decided |
| **Push audience** (`lib/capabilities/devices.ts`) | enrolments, registrations, endpoint status | sign in, hand over, register, unregister, resolve a page, check before a push | phones change hands while a batch is paged | one owner per token, each device reached once, none at the wrong person |
| **Roster publication** (`lib/roster/groups-sync.ts`, `scheduled-publish.ts`) | snapshots, publication records, members, consents, configuration | reserve, read, guard, publish, fail | overlapping publications over moving sources | newest reading wins, a saved change is in the roster one is told of |
| **Sessions** (`lib/auth/sessions.ts`; `packages/mobile/src/lib/auth/auth-controller.ts`) | token chain and revocations; vault, memory and flow of the phone | refresh, recover a lost answer, replay detection, sign out, revoke | rotation against lost answers, kills and theft detection | one live token, no false theft alarm, sign-out is true |
| **Audit** (`lib/audit`) | anchors and rows of one hash chain | append in five ways, record a failure, verify page by page | concurrent appends, damage between two pages of a verification | what happened is entered, nobody is refused because others append, no false alarm |
| **Start and join coordinator** (`packages/mobile/src/lib/start`) | a record in the keychain, the process's memory | submit, settle, recover, dismiss, go on without recovery | kills, a keychain that refuses, somebody else signing in | no request forgotten, none called refused that can still be done, always a way out |
| **Photo of an event** (`packages/mobile/src/features/event-room`, `lib/media`) | manifest and private copy on the phone; reservation, objects and record on the server | reserve, upload, complete, append, clean up; retry, reconcile, discard | calls given up and served late, kills between two writes, an event that closes | posted once, kept until then, never after it was discarded |
| Partners (`lib/partners`), Agent gateway (`lib/agents`), event-type drafts, MCP server, infrastructure and scripts | tables of their own | see `PROJECT.json` | | |

How they interact. The phone's session gives it the bearer for every command;
its coordinator remembers the start or join it has asked for, and a photo draft
the step its photo has come to. An event command
commits its journal, its audit entry, its idempotency record and, when people
are to be told, an outbox row in one transaction; the post-commit hook polls the
outbox; the dispatcher claims a row, stores one batch per channel and sends the
batches to the delivery queue; the router forwards each to its channel's queue;
the channel's loop receives the batch, asks the server page by page who is in it
(the roster's snapshot, and for push the devices registered when the batch was
made), and runs one attempt per recipient; an attempt takes an execution lease,
writes `attempted`, asks the ledger for the permit, calls the provider, records
the answer in ledger, execution and evidence, and publishes a reference to the
next attempt when the answer allows one. Provider reports come back afterwards:
SES events and AWS SMS receipts through a callback and a queue, Expo receipts by
polling, and a registration whose device is gone is dropped.

`PROJECT.json` lists every component with its status, and every hazard with the
line where it bites and the properties that watch it.

## 2. The modules

| Module | Models | Lines of the code |
|---|---|---|
| `DurableHandoff` | abstract: what the outbox promises | specification only |
| `OutboxDispatch` | dispatcher processes on the outbox | `dispatcher.ts`, the hook and insert of `events.ts` |
| `CommittedRecords` | composes outbox and audit, the two tables every command writes | composition only |
| `CommittedRecordsProofs` | proofs about both | |
| `DeliveryRouting` | the router between two queues | `infra/lambda/delivery-router/index.mjs`, the queues of `psd-eoc-stack.ts` |
| `EmailBatch` | one batch message of the email queue | `queue-runtime.ts`, `service.ts`, `terminal-failure.ts` |
| `AttemptExecution` | one recipient's attempts: leases, ledger, SES, evidence (through `DeliveryTruth`), callbacks | `processor.ts`, `attempt-execution-store.ts`, `ses-adapter.ts`, `email-runtime-store.ts`, `webhooks/ses/runtime.ts` |
| `AttemptExecutionProofs` | proofs about it | |
| `EmailPath` | composes router, walk, attempt and evidence | composition only |
| `EmailPathProofs` | proofs about router, walk and evidence in it | |
| `DeliveryTruth` | the rules for one more fact (operators only) | `delivery-state/runtime.ts`, `contracts/src/notification.ts` |
| `DeliveryEvidence` | one attempt's evidence, all writers and the reconciler | the same and `reconcile.ts` |
| `SmsAttempt` | one recipient's texts with queue, ledger, opt-outs and receipts | `workers/sms`, `sms-runtime-store.ts`, `processor.ts` |
| `PushReceipts` | push receipts under polling leases | `workers/push/receipt-lifecycle.ts`, `expo-push-runtime-store.ts` |
| `TextsAndReceipts` | composes texts and push receipts, the two accounts of what became of an alert on a phone | composition only |
| `TextsAndReceiptsProofs` | proofs about both | |
| `PushAudience` | whom a push batch reaches | `lib/capabilities/devices.ts`, `lib/auth/sessions.ts` |
| `PushAudienceProofs` | proofs about it | |
| `AtomicCommands` | abstract: a command happens at once, and once | specification only |
| `EventLifecycle` | event commands of several operators and the capability engine | `engine.ts`, `persistence.ts`, `events.ts`, `journal.ts` |
| `EventLifecycleProofs` | proofs about it | |
| `SessionRotation` | a session's chain of tokens on the server (operators and their state) | `lib/auth/sessions.ts` |
| `DeviceSession` | the phone's session against it | `auth-controller.ts`, `auth-api.ts` |
| `StartRecovery` | the phone's starts and joins | `packages/mobile/src/lib/start` |
| `PhotoDraft` | a photo from the phone into the journal, both sides | `photo-draft.ts`, `use-event-photo-draft.ts`, `native-photo.ts`, `lib/media/capabilities.ts` |
| `PhoneMemory` | composes session, start and photo, the three things a phone remembers | composition only |
| `PhoneProofs` | proofs about all three | |
| `RosterPublication` | publications of the roster over moving sources | `groups-sync.ts`, `scheduled-publish.ts` |
| `RosterPublicationProofs` | proofs about it | |
| `AuditChain` | the audit's writers and its verification | `lib/audit`, `capabilities/persistence.ts` |
| `MC*` | instances for TLC | |

`PROJECT.json` `map` gives the lines of every definition. Definitions commented
"Variant" are wrong forms of the definition that follows them, kept to show
that a property would notice that mistake; no specification uses them.

### OutboxDispatch

`row` is the `outbox` table (status, attempts, `available_at`, `locked_until`),
`batch` is `dispatch_batches`, `queue` everything SQS ever accepted. A
dispatcher is one execution of the hook: `ListReady` reads up to the poll limit
outside any transaction, `ClaimRow`, `MarkPublished`, `ScheduleRetry` and
`RecordTerminalFailure` are one transaction each, and `Send` lies between
transactions, so leases end, rows are taken over and processes stop at every
point where they can. The order of the rows of a poll is left open.

- `claimOutbox` uses `FOR UPDATE SKIP LOCKED`; a row locked by a concurrent
  transaction is `busy`, which is the order in which the other transaction goes
  first (`SkipRow`).
- `SendOutcomes` is the meaning of `sqsHttpFailure` and
  `parseSqsSendMessageBatchResponse`: success names every entry; a failure that
  may not be retried is raised only when nothing was accepted; in every other
  case any subset may have been accepted.
- `claimOutbox` has a branch for a pending row without attempts left. It is
  modelled (`ExhaustedRow`); `RetryBudget` shows that it is never taken by a row
  this code wrote.
- `failures` is history, for `BudgetSpentByFailures`.
- `DurableHandoff` is the promise without leases, attempts and clocks:
  retained, handed off with every batch queued, or abandoned. The mapping reads
  the phase off the row's status and the sent channels off the queue.

### DeliveryTruth and DeliveryEvidence

`Reply` is `recordAttemptEvidence`: first fact, repeated latest fact, the
`strongerEvidenceDisposition` rules (`Disposition`), older facts replayed, and
the table of transitions. Each write is one transaction under the attempt's advisory lock,
so a write is one action. The reconciler reads the clock and the list in one
step and looks at each attempt again under its lock in another; in between the
other writers go on. A fact carries the provider and message it is about and one
further value (`detail`) that stands for reason, proof and digest, which the
code compares for equality only.

### AttemptExecution

Every `await` of `process` that reaches the server or SES is an action. A call
that fails ends the run: `Crash` before the call is the failure without effect,
`Crash` after it the lost answer. Four calls are different, because the code
turns their failure into an answer: the authorization (a denial), the write of
`attempted` (the lease is released), the ledger's claim (`LEDGER_UNAVAILABLE`)
and its completion (ignored). Those have actions of their own.

- `Take` does not tell look-up from claim: the claim repeats the look-up under
  the row lock and gives the same answers.
- `EligibleFor` is the server's reading of the work item, the batch's lifecycle,
  the channel switch and the send horizon: one flag, which may be withdrawn at
  any time, and restored where `MayResume` says so.
- A retry answer of the endpoint's resolution ends, like a denial, in
  `Release`.
- The queue holds the batch, which stands for attempt 1, and the published
  retry references; it may deliver each any number of times. What the code does
  when a message is exhausted is in `EmailBatch`.

### EmailBatch

One batch message in SQS: queued or not, visible or not, received so often, in
the dead-letter queue or not. A poller keeps its cursor and page in memory only.
`ResolvePage` is `resolveBatch`: candidates in a fixed order, the ones without a
usable address left out on that page, the cursor moved over the whole page. The
attempt of a recipient is one step here (its inside is `AttemptExecution`): it
is sent, recorded with a retry, refused, or throws. A `dlq` result stops the
message: copy to the dead-letter queue, then delete.

### DeliveryRouting

The delivery queue, the function's invocations and the channel queue. An
invocation holds up to a batch of messages, forwards those it can read one by
one and names the others as failures; the event source then deletes the rest.
An invocation may stop at any point, and a forward may succeed without anybody
hearing of it. `CopiesAccounted` counts what the channel queue holds.

### SmsAttempt

The same walk of an attempt as for email, with the differences of the SMS
adapter: a worker whose ledger says "claimed" settles the attempt as ambiguous
instead of asking again (`recover`), an opt-out that AWS reports is marked after
the outcome is recorded, and retries are messages of the same queue. The
carrier's receipt is a message of its own queue: matched by the id the evidence
holds, recorded, or put back, and given up after five reads. Look-up and claim
of the ledger are one step. The dead-letter limit is not reached within the
message's 300 s and a visibility of 120 s and is left out. `Contexts` says
whether receipts carry the send's context. A receipt is given up only when its
attempt is neither queued nor worked on: what happens to the others is a
finding.

### PushReceipts

A row per device and attempt from the ticket to its decision. The clock has
three values: live, the push's hour over, and late. A poller claims single rows,
with Expo's answer and the reading of `now` that goes with it; then it stages
what it learnt, records it through `DeliveryTruth`, drops the device or
schedules the next attempt, and decides the row, each a transaction. Expo may
give one receipt id to two attempts. Repeated scheduling of the same reference
is a no-op. `MaxFaults` bounds crashes, overrun leases and dropped acceptances.
The adapter's ledger has the shape of the SMS one and is not repeated.

### PushAudience

Enrolments, registrations and endpoint status as the database holds them, with
instants for its times (a batch is paged as of the instant it was created), and
on the other side who holds a phone and where a push arrives. Sign-in is one
transaction, and so is `SignOut`, which includes unregistering the token. The
check before a push and the push are one step. A behaviour is of one `setting`,
which says who exists, how large a page is and what may happen besides installing
the app (`Disturbances`), and never changes; what a property promises may depend
on what may happen there. The code sorts candidates and cuts the list into pages;
here they are a set with the order in which they are listed (`Earlier`), and a
page has those that as many come before as its offset and size say. A token never comes back to the installation it
died on. The cap of ten endpoints, delivery tests and partners' endpoints are
left out.

### EventLifecycle and AtomicCommands

A request is a preview or a command with its key. The engine's transaction is
walked wait by wait: claim of the key (which waits for the holder of the same
key), lock of the facility or the event, the checks under the lock, commit; a
request may die at any of them, be sent again, or be sent twice at once.
`AtomicCommands` has one step, "the command takes effect and its answer is this
result"; `CommandsAreAtomic` says that the engine implements it. Application
server and database share one clock. Reactivation exists for synthetic events
only, as in the code; reopening as a correction has no route and is left out.
Expiry of previews, channel and wording checks and rate limits are one
refusal (`Fail`). Keys are per session. The outbox row and its hook are in
`OutboxDispatch`.

### SessionRotation and DeviceSession

`SessionRotation` is the server: what a request with a given token and key finds,
and what it does to the chain. `DeviceSession` is the phone with the requests on
their way, which are served in any order. The vault and its marker are one
variable (`disk`), written by a queue of operations; `mem` is the controller, and
the flows (unlock, refresh, retry, sign-out) resume after each wait under the
generation they started with, as the JavaScript does. The app may be put away
and killed at every step. Enrolment, expiry timers, connectivity epochs, web
cookies, the Retry button of the checking screen and the invalid-response state
are left out.

### StartRecovery

One action per handler, since JavaScript runs to completion. `away` is locked,
checking or offline. The server may have done a request, refused it, or not have
seen it yet; the phone learns one of the answers or none. A mismatch of the
result and an abort are `SettleUnknown`; a `setItem` that throws leaves the
record as it was. Requests made after "continue without recovery" are outside
the promise, as the screen says. Parsing of the record, wording, the event room
and the preview are left out.

### PhotoDraft

The controller with its manifest in memory and in storage, and the server's
reservation, objects, record and entry. An operation is walked call by call:
written, sent, served, answered; a call may be given up at any point and still be
served later, any number of them. A write compares what is stored with what the
controller knows, and may throw although it was done. A draft's n-th pair of
upload keys makes reservation n, so that a call repeated with its key finds what
the first made. `sound` is whether the decoder accepts the image. Picking and
describing the photo, drafts of an earlier session, budgets, processing gates and
read grants are left out.

### RosterPublication

`syncRoster` step by step: reservation, configuration, baseline, one read per
source (each a transaction of its own), the guard against drops, contacts,
publication or failure; two at a time, begun by schedule, by hand, by a save and
by a consent. In between membership runs, saves, consents, devices and the
configuration change. A reservation may be called abandoned while its owner goes
on. Sources without a drop guard, inactive sources, alerts, recipient details
and the synthetic population are left out.

### AuditChain

An append locks, reads its predecessor, inserts and commits: one step, because
the advisory lock is held to the end of the transaction. What differs is where
the predecessor is read from, which is the writer's `Style`: the anchor, the
newest row, both with their hashes compared or computed again, or the anchor in
the snapshot of a transaction that began earlier. Verification reads page after page; storage may lose or change one row.
Verification from a later sequence, the queries and sign-in's retry are left out.

## 3. What is checked

The runs are suites: an `MC` module composes components that share no state, a
behaviour picks one of them (`moving`, or `scenario`) and the others stay in
their first state. `CommittedRecords`, `EmailPath`, `TextsAndReceipts` and `PhoneMemory` are such
compositions that theorems are about as well; their `MC` modules only give the
constants values and, where a run looks at several instances of a component,
name them. Where a suite has
fairness, the fair actions of different components are joined by disjunction:
since a behaviour sees those of one component only, that is fairness of each.

| Run | Instance | Question | Time |
|---|---|---|---|
| `race` | 1 row, 2 dispatchers, 2 channels, 3 attempts, lease 2, clock 7, 2 faults; audit with 3 writers, 1 verifier, 1 damaged row | fencing, batch identity, honesty, budget, refinement; a true audit | 1 min |
| `faults` | 2 workers, 2 attempts, failing ledger, channel stopped and resumed, 2 faults | one send per attempt, no false acceptance, completion final | 1 min |
| `email_path` | router with 4 messages, 2 invocations, 2 receives; 2 pollers, 3 recipients in pages of 2; 2 workers, 2 attempts, ledger that answers; 10 facts of two messages and two providers | is every copy accounted for, nobody forgotten, one email each, the chain legal | 2 min |
| `texts_receipts` | 2 workers, 2 texts, receipts with and without context; 2 devices, 2 pollers, 2 receipt ids | one text and true reports; receipts speak for their own attempts | 1 min |
| `audience` | four settings of up to 2 people, 2 installations, 2 or 3 tokens: handing over; reinstalling; two providers; pages of one | whom a batch reaches | 1 min |
| `events` | 2 events, 3 requests; two people start one; a synthetic one is ended, reactivated and ended again; one is ended, closed, joined and posted to | does what was shown take effect, are the same people told, are commands atomic | 1 min |
| `phones` | 2 late calls, 2 or 3 keys; 2 requests, 2 sessions, 3 kills or refusals; a photo with 2 pairs of keys and 2 mishaps | a session that recovers, signs out and cannot come back; starts that are told; photos posted once | 2 min |
| `rosters` | 3 people, 2 sources of which one kept by hand, 2 publications, 2 edits, 1 fault | newest reading, a saved change read, one publication per reservation | 2 min |
| `conclusions` | liveness: 2 rows, 2 attempts; router with 3 messages; a walk of 3; an attempt; 6 facts; a roster | is everything settled, forwarded, attempted, concluded and caught up | 1 min |
| `endings` | liveness: texts, receipts, a phone, 3 requests | are messages concluded, screens left, requests answered | 1 min |
| `refused` | a batch with refusals and no fault | is everyone attempted: **violated** | 1 s |
| `outage` | a ledger that may fail | one email per recipient: **violated** | 4 s |

Properties, in the words of their comments:

- `SingleHolder`, `SettledIsFinal`: two claims never both fit the fence; a
  settled row never changes.
- `OneBatchPerChannel`, `KeepsHandoffPromise`: `published` is said only of rows
  whose batches are all queued, under one id.
- `RetryBudget`: attempts stay within the limit, crashes and takeovers cost none.
- `AuditedAsHappened`, `ValidWhenSaid`: entries say what happened, appends do
  not refuse each other, a verification that says "valid" has seen it so, and
  one that says "invalid" is right.
- `AtMostOneSend`, `OneEmailPerRecipient`, `NoFalseAcceptance`,
  `CompletionIsFinal`, `CopiesAccounted`, `NobodyForgotten`, `LegalChain`,
  `TerminalIsFinal`: the way of an email.
- `OneTextAsReported`, `ForeignReceiptsOnly`: a text is sent once, the report is
  true, and only receipts of nobody's text are given up.
- `ReceiptsSpeakForTheirOwn`, `StagedIsFinal`: a shared receipt id speaks for
  nobody, devices are dropped on proof of their own, what is sent again has
  failed, and what was staged stands.
- `PhoneHandedOver`, `EachReachedOnce`: a token has one owner, a phone that changed
  hands gets nothing meant for its former holder, and each device of a page gets
  one push.
- `StartedAsShown`, `SameAudience`, `PreviewedInItsState`: nobody starts an
  event without having seen every active one; the partners told of the end are
  those told of the beginning; a preview is used in the state that it showed.
- `ServedInTime`, `SignOutIsTrue`, `RevocationIsFinal`: no refresh is mistaken
  for theft and none is wasted while its window is open; a phone that says it is
  signed out has nothing left; a revoked session never rotates again.
- `StartsAreTold`, `AlwaysAWayOut`: the phone's memory of its starts and joins.
- `PhotosPostOnce`: a draft becomes one entry whose photo was checked and stored,
  the phone keeps it until then, and what was discarded unposted stays unposted.
- `SavedMeansRead`, `NeverGoesBack`, `PublishesOnce`: the roster.
- `RetainedIsSettled`, `EmailsConclude`, `RosterCatchesUp`, `MessagesConclude`,
  `NoLimbo`, `EveryRequestAnswered`: what happens in the end.
- `CommandsAreAtomic`: the engine implements `AtomicCommands`.

Every property has a mutant in `PROJECT.json`: a plausible slip in the code that
makes TLC refute it in the same run.

### Bounds, and why they suffice

- Two processes of each kind: every mutual exclusion here is between a holder
  and the one who takes over; a third would repeat the second. The theorems of
  section 5 do not depend on it.
- Two attempts (three in `race`) against `MAX_OUTBOX_DISPATCH_ATTEMPTS` and
  `DEFAULT_RETRY_POLICY`, both 5: first, a middle one and the last are
  told apart by the code, nothing else is.
- The clock of `race` lets a lease end twice and a retry come due after it; it
  advances only while a row waits for it. The 30 s lease is 2 ticks, the backoff
  1. Two faults hit both a handoff and its takeover.
- Pages of 2 among 3 recipients give a full page and a short one (50 in the
  code); 2 or 3 receives stand for 5. In `audience` pages of one put every
  candidate on a page of its own.
- `MaxRegistrations`, `MaxEnrolments`, `LastBatch`, `MaxPreviews`, `MaxKeys`,
  `MaxEdits`, `MaxCommands` bound how often a person acts; each is large enough
  for the shortest history that breaks a variant of each action, which the
  mutants confirm.
- Rosters have three people and lists that are whole, too short or empty, with a
  guard of 2 removals instead of 5: one list passes the guard, one fails it.
- `MaxEpochs`: a second pair of upload keys is enough for an entry made under the
  first to meet a repetition under another.
- `MaxFaults` bounds crashes, failed calls and late heartbeats together.
- `SYMMETRY` is used for interchangeable workers, requests, calls and tokens, in
  runs without liveness.
- Deadlock checking is off everywhere: a finished system rests, and a bounded
  clock or fault budget runs out.

### Fairness, and what justifies it

- `OutboxDispatch`: a hook that started runs on and the clock moves. Hooks keep
  starting, that is, notifications keep being committed somewhere in the
  district; this is an assumption about the world, and finding 1 says what
  happens without it. `HoldersBeatLease` is set in the liveness runs: a handoff
  that is always slower than its 30 s lease could be taken over for ever.
- `DeliveryRouting`: invocations run on, and SQS delivers a message until it is
  deleted or set aside.
- `DeliveryEvidence`: writers repeat a fact until it is acknowledged (queues
  redeliver). Nothing is assumed of the reconciler.
- `AttemptExecution`, `SmsAttempt`: workers go on, leases end, and the queue
  redelivers a message until it is deleted (strong fairness of taking it, since
  an attempt held by a live lease is not available all the time).
  `HoldersBeatLease`: 2 minutes of lease against calls with timeouts of 15 s.
- `EmailBatch`: some loop polls, who holds the message goes on, and operators
  redrive dead letters. The 14 days after which the dead-letter queue drops a
  message are not modelled.
- `PushReceipts`: the scheduled poller claims what is due, goes on, and the
  clock moves.
- `DeviceSession`: what the phone started goes on, its requests are answered or
  time out, the secure store's operations end. Nothing is assumed of the person.
- `EventLifecycle`: requests that did not die go on. Locks are granted in any
  order.
- `RosterPublication`: the two-hourly publication keeps being started and runs
  on.

## 4. Findings

Two runs show a disagreement between code and documents, the others are stated
as definitions beside the properties (their names are in `PROJECT.json`, with
the lines quoted on both sides), which TLC refutes when they are checked.

1. **A stranded row waits for the next notification.** The comments in
   `dispatcher.ts` and the wiki speak of a scheduled poller and of sweeps; the
   repository's only poll is the hook after a committed notification.
2. **One refused recipient hides those behind it** (`refused`). A terminal
   result of one attempt retires the batch message, and every redrive stops at
   the same recipient.
3. **A ledger outage can send twice** (`outage`). The email adapter calls a
   failed ledger claim safe to retry even when an earlier holder of the attempt
   may have sent it. The SMS adapter treats the same failure as ambiguous.
4. **A read in the middle of a refresh signs the phone out.** A 401 of any read
   clears the credential, also while the answer of a rotation is still out.
5. **A stored token can go back.** An unlock that read the vault before a queued
   write of the successor writes the old bearer behind it.
6. **A receipt of our own text is given up** when its id is only in the ledger.
7. **A delivery reported after the expiry becomes the truth of a text**, which a
   comment says it does not.
8. **A staged resend that expires is never decided**: the decision conflicts with
   what was staged, on every poll.
9. **An accepted push may never be polled** when the worker stops between
   recording its acceptance and binding its receipt, and the hour passes.
10. **A reinstalled device is not reached** by the same roster once the token it
    replaced was found invalid.
11. **The registration of a frozen token is ended on another's receipt.**
12. **A page may skip a device**, because two conditions of the list are read as
    of now and not as of the batch's creation.
13. **Publishing by hand does not accept a drop**, which a runbook says it does.
14. **A records report fails when somebody appends to the audit meanwhile.**
15. **An unresolved start blocks the next one** until its notice is dismissed,
    which a comment and a test say it must not.
16. **A rejected photo cannot be replaced.** The server says to choose another
    image and the composer offers to discard the draft; the controller refuses,
    and no other photo can be chosen while the event is open.
17. **A discard that fails half-way leaves a draft without its photo**, which can
    be submitted and then neither sent nor discarded.

## 5. What is proved

With the TLA+ proof system, for all values of the constants that satisfy the
modules' `ASSUME`s: bounds are natural numbers (positive where the code divides
by them, counts attempts or needs a first), switches are Boolean, model values
lie outside the sets they are added to (no vault of a phone is `None`), and the facts, styles and outcomes an
instance offers are of the kinds the module knows. The people of a roster and
the messages of the router are finitely many. Nothing is assumed about how many
workers, requests, devices or events there are, and the clock and fault bounds
are arbitrary. All 34 safety and action properties that the
passing runs check are stated by theorems; what remains is liveness.

A safety property is seldom inductive. Each proof module therefore defines a
stronger invariant, conjunct by conjunct, shows that the initial states have it
and that each action keeps it, and derives the properties from it. TLC has
checked these invariants on small instances first.

`CommittedRecordsProofs`, about the outbox (`OutboxDispatch`)

| Theorem | Property | Inductive invariant |
|---|---|---|
| `TypeCorrect` | `TypeOK` | itself, with `LockState` |
| `OneHolder` | `SingleHolder` | `HolderInv`: a claim is at or behind its row in (attempt, lease end) |
| `SettledStaysPut` | `SettledIsFinal` | types suffice: each write is fenced by the status |
| `PublishedMeansQueued`, `BatchIdsAreStable` | `PublishedIsQueued`, `OneBatchPerChannel` | `HandoffInv`: claims carry the stored ids, the queue holds only stored ids, an acknowledged claim is queued |
| `DispatchersKeepPromise` | `KeepsHandoffPromise` | `RefinementInv`, the conjunction of the two above: under it each step is a step of `DurableHandoff` or a stutter |
| `BudgetIsKept` | `BudgetSpentByFailures`, `RetryBudget` | `BudgetInv`: per row, attempts, failures and limit together |

`SingleHolder` is not inductive. A takeover keeps the attempt number, so only
the lease end tells the two claims apart; that it does needs to know that no
claim has a lease end beyond its row's, and that a takeover happens after the
old one has passed, so that the new one is strictly later.

`CommittedRecordsProofs`, about the audit (`AuditChain`)

| Theorem | Property | Inductive invariant |
|---|---|---|
| `AuditIsTrue` | `AuditedAsHappened` | `AuditInv`: `AuditTyped` (as many rows as anchors, in one order), `Entered` (a request that may still write has no entry, and whoever was told an outcome has the entry that says so), `Blamed` (damage is never undone and is behind every refusal and bad verdict), `Walked` |
| `ValidMeansIntact` | `ValidWhenSaid` | `Walked`: what a verification found good it holds locked until its verdict |

`AttemptExecutionProofs`

| Theorem | Property | Inductive invariant |
|---|---|---|
| `TypeCorrect` | `TypeOK` | `Typed`: also that answers suit the step a worker is at and that a retry fits in the budget |
| `OneSendPerAttempt` | `AtMostOneSend` | `SendInv`: only the claimant of the ledger row can be about to send, and nobody else's send happened |
| `CompletionStands` | `CompletionIsFinal` | `DoneInv`: who owns an attempt at its completion finds it open |
| `OneEmailWhileLedgerAnswers` | `OneEmailPerRecipient`, given `LedgerMayFail = FALSE` | `OneEmailInv`: an answer with a retry means that the attempt sent nothing and never will; a later attempt is sent only after such answers |
| `AcceptanceIsNeverFalse` | `NoFalseAcceptance` | `AcceptanceInv`: wherever acceptance is written down or carried, a message was sent |

The premise of `OneEmailWhileLedgerAnswers` is the finding `outage` turned
round.

`EmailPathProofs` (about `EmailPath`; `PathInv` has a part for each stage)

| Theorem | Property | Inductive invariant |
|---|---|---|
| `CopiesExplained` | `CopiesAccounted` | `RouterInv`: invocations hold disjoint sets of at most a batch of messages; whatever counts as forwarded has a copy; a batch's copies are at most its forwarded messages and a batch size per fault |
| `NobodyLeftOut` | `NobodyForgotten` | `WalkInv`: whom a poller's cursor has passed is settled or on its page, and a poller is about to delete the message only when everyone is settled |
| `ChainsLegal` | `LegalChain` | `TruthInv`: the chain is legal, facts are retained once, acceptance is not forgotten; it needs `Disposition` to say what each kind of contradiction may follow |
| `LastWordStands` | `TerminalIsFinal` | the same: by cases of `Reply` on the newest fact |

The number of copies is counted with the cardinality theorems of the library: an
invocation that dies gives back no more messages than it was handed.

`TextsAndReceiptsProofs` (about `TextsAndReceipts`)

| Theorem | Property | Inductive invariant |
|---|---|---|
| `OneText` | `OneTextAsReported` | `IInv`: `Fenced` (one worker has the permit, nothing is sent before it), `KnownIsTrue` (what a worker, the execution or the ledger knows is what happened), `EvidenceIsTrue`, `InTurn` (an attempt is worked on when all before it failed for good) |
| `ReceiptsAreForeign` | `ForeignReceiptsOnly` | the same with `SaidBeforeLeaving`: who was told of an acceptance names the message before it lets go, and the message stays queued until then |
| `ReceiptsSafe` | `ReceiptsSpeakForTheirOwn` | `ReceiptInv`: of each attempt, its row, its facts and what every poller carries agree (`AttemptFits`), and who was taken off the list has an attempt that ended so (`GoneOnProof`) |
| `StagedForGood` | `StagedIsFinal` | the same: under it each step leaves a row where it is or moves it on (`RowGoesOn`) |

The point of `ReceiptInv` is the poller that has lost its lease and goes on. The
recording of a fact is not fenced by the lease, only the writes to the row are;
what saves it is that staging is fenced, so that whatever a poller carries past
that point is what the row says or has said, and recording it again adds
nothing. The invariant therefore speaks of every poller, holder of the lease or
not.

`EventLifecycleProofs`

| Theorem | Property | Inductive invariant |
|---|---|---|
| `ShownBeforeStart` | `StartedAsShown` | `Typed` and `UnderLocks`: only the holder of the event's row and of the facility moves an event, so what was read under a lock still holds at the commit |
| `AudienceIsKept` | `SameAudience` | `OutboxAsPinned`: every message goes to the audience that the activation preview pinned |
| `PreviewsAreCurrent` | `PreviewedInItsState` | `StampsLater`, `JournalTells` (the row is where the journal leaves it), `PreviewsInOrder` (a preview of an earlier state is older than one of a later state, and older than the entry into the present one) |
| `CommandsAtomic` | `CommandsAreAtomic` | refinement of `AtomicCommands`: a commit maps to `Apply`, a replay or an answer after the commit to `Tell`, every other step to a stutter |

`PreviewsAreCurrent` is the deepest of them: the code compares a preview's time
with the time of the state change, so the proof has to order all previews and
all changes of an event's states in time, although both are read from one clock
by requests that then wait for locks.

`PushAudienceProofs`

| Theorem | Property | Inductive invariant |
|---|---|---|
| `PhonesAreHandedOver` | `PhoneHandedOver` | `Delivering`: one open registration of a token (`OneOwner`) and of a device with a provider (`OnePerDevice`), `EnrolledOnce` (a phone has one enrolment that is not revoked), `Traced` (a token that a phone holds was registered from that phone only), `Addressed` |
| `DevicesReachedOnce` | `EachReachedOnce` | the same with `Steady`: `NoneRevoked`, and `Covering` (the registrations that lived at the batch's creation share no token and no device; everything that comes before the cursor is handed out, has an endpoint found invalid or no live device) |

At any one moment, "each device once" is a fact about resolution: own
registrations first, then one spare registration for each endpoint that lost its
own, matched by rank, then the devices that are left (`ResolvedWell`,
`OnlyOneStands`, `EveryDeviceStands`). For a batch it has to hold across pages
that are resolved anew. `Pinned` says when two states agree on it: nothing that
lived at the instant has ended at or before it, nothing new is registered as of
then, and no enrolment is revoked. Every step is so while nobody takes a phone
over and no registration commits late, which is the premise inside
`EachReachedOnce` (finding 12 is what happens otherwise); then the candidates,
their order, and the number of those before each are the same in both states.

`RosterPublicationProofs`

| Theorem | Property | Inductive invariant |
|---|---|---|
| `TypeCorrect` | `TypeOK` | itself |
| `SavesAreRead` | `SavedMeansRead` | `IInv`: `OneChange` (a key names one change), `ReadAfter` (reading begins after it), `Told` (who is told of a publication is told of the one on record) |
| `OverlapsDoNotUndo` | `NeverGoesBack` | `Compared`: a publication that nobody overtook is compared with the snapshot in force, and began to read after all that it holds; `Judged`: past the guard every list was read and none is refused |
| `OncePerKey` | `PublishesOnce` | `Spent`: a key that has published is completed |

`PhoneProofs` (about `PhoneMemory`)

| Theorem | Property | Inductive invariant |
|---|---|---|
| `SessionInductive` | | `SessionInv`: `Confirmed` (what confirms a revocation exists only when the session is revoked), `Fenced` (while a sign-out waits, no other flow can change the credential), `Alone` (once the store is to be cleared nobody is left to write after it), `Bare` (a phone that shows itself signed out holds nothing and nothing is about to be written), `InTurn` |
| `SignsOutInTruth` | `SignOutIsTrue` | the same |
| `RevokedForGood` | `RevocationIsFinal` | its part about the server |
| `NeverTakenForAThief` | `ServedInTime`, given `Patient` | `PatientInv`: `SpendableSound` (whatever the phone may still present is the head of the chain of tokens, or the token and key that the head was made with), `OneRequest` (while a request that would rotate is out, nothing else is kept or asked), `NoneAhead` (while the answer to a rotation is out, nothing kept would rotate again), `LeaderLast`, `OneLeader` (one flow leads, and its write is the last that announces a request) |
| `StartsAreKnown` | `StartsAreTold` | `StartInv`: `Mirrored` (while the store works, the record is of the request in hand), `Apart` (while it does not, that request was made without one), `Untouched` (nothing is known of a request never made), `Announced`, `Owned` |
| `NobodyLockedOut` | `AlwaysAWayOut` | the same |
| `PhotosAreSafe` | `PhotosPostOnce` | `PhotoInv`: `Fit` (a manifest names what its next call is about, and is to be cleaned up only when the entry is made), `Advancing` (the stored manifest is never behind the one in memory when that has left the first stage), `Working`, `Seen` (what the phone reads of the event stays so), `Unsent` (of a draft that is ready no append was ever given up), `Gone` (nothing is left of what was discarded unposted that could still post it) |

`Patient` is the premise of `ServedInTime`, and the configuration of the run: no
screen reads beside the session (`Reads`; finding 4 is what a read does), no
request is served long after the phone gave it up and refreshed again
(`Stragglers`; to the server such a request is a replay), repetitions come within
the recovery window (`WindowCanClose`), and a tap on Retry reaches the controller
only in the offline phase (`Offered`). Under it `SpendableSound` says that the
phone is never more than one rotation behind and holds the key that brings it up
again; `OneRequest` and `NoneAhead` are what keeps two requests of
one phone from racing each other past that one rotation.

`Unsent` is why a discarded draft stays unposted: an append that was given up
may be served at any later time, so the only drafts that may be discarded while
the event is open are those no append was ever sent of, and that in turn needs
the manifest to be written before the call it announces.

Only model-checked, and why:

- Liveness (`RetainedIsSettled`, `EmailsConclude`, `RosterCatchesUp`,
  `MessagesConclude`, `NoLimbo`, `EveryRequestAnswered`): fairness and ENABLED
  are outside the prover's reach.

`PublishedIsQueued` and `BudgetSpentByFailures` are proved and not run on their
own: the refinement and `RetryBudget` stand for them in `race`. `TypeOK` is
proved for all modules with proofs, as a conjunct of the invariants.

## 6. Not modelled, and why

- Contents: rendering, addresses, signatures, digests and fingerprints, parsing
  and authentication of requests. No property depends on them, except that a
  changed fingerprint after a deployment turns a sent attempt into a failed one.
- Retry references of the email queue as messages of their own: when one is
  postponed, found expired or ineligible and deleted. `AttemptExecution` lets
  the queue deliver a published reference at any time, for ever; `SmsAttempt`
  models the same life for texts.
- SES callbacks beyond delivery: bounces and complaints also suppress addresses;
  callback replay identities.
- Prepared activations of agents: the routes of the human start flow accept
  activation previews only, so nothing happens between agent and person.
- Sign-in: protocols with outside identity providers, one request at a time.
- User interface, deployment description, migrations, scripts, MCP translation:
  no state of their own worth a model. They are a large part of the repository;
  so are parsing, validation and queries of the administration screens.

## 7. Plan

1. Done: the modules of section 2, and the proofs of section 5.
2. A retry reference of the email queue as a message of its own; sign-in
   with codes; partners' sweep.

## 8. Running

    tlc -config OutboxDispatch_race.cfg MCOutboxDispatch.tla
    tlapm CommittedRecordsProofs.tla

and likewise for the other configurations (`PROJECT.json` names the module of
each) and proof modules. Each run takes a minute or two on two cores; each proof
module a few minutes.
