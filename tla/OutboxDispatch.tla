--------------------------- MODULE OutboxDispatch ---------------------------
(***************************************************************************)
(* The transactional outbox and its dispatchers                            *)
(* (packages/server/lib/notify/dispatcher.ts), driven by the post-commit   *)
(* hook of packages/server/lib/capabilities/events.ts.                     *)
(*                                                                         *)
(* A row is written `pending' in the event's own transaction.  The hook of *)
(* the request that committed it polls: it lists the ready rows, then for  *)
(* each one claims it (one transaction), hands its batches to SQS outside  *)
(* any transaction, and settles the claim (one transaction).  Several      *)
(* server processes do so at once; any of them may crash, lose a database  *)
(* call, or be overtaken because its lease ran out.                        *)
(***************************************************************************)
EXTENDS Naturals, FiniteSets

CONSTANTS
    Rows,               \* outbox rows
    Dispatchers,        \* hook executions that can be live at once
    Channels,           \* channels of a row's notification plan
    MaxAttempts,        \* MAX_OUTBOX_DISPATCH_ATTEMPTS
    Lease,              \* DEFAULT_OUTBOX_LEASE_MILLISECONDS, in ticks
    Backoff,            \* computeOutboxBackoffMilliseconds, in ticks
    PollLimit,          \* POST_COMMIT_OUTBOX_DISPATCH_LIMIT
    HoldersBeatLease,   \* TRUE: a live holder settles before its lease ends
    MaxTime,            \* bound on the clock
    MaxFaults,          \* bound on crashes and failed database calls
    NoClaim             \* model value: the dispatcher holds no claim

ASSUME BoundsAssumption ==
    /\ MaxAttempts \in Nat \ {0}
    /\ Lease \in Nat \ {0}
    /\ Backoff \in Nat \ {0}
    /\ PollLimit \in Nat \ {0}
    /\ MaxTime \in Nat /\ MaxFaults \in Nat
    /\ HoldersBeatLease \in BOOLEAN

VARIABLES
    now,        \* clock_timestamp() of the database
    row,        \* the outbox table
    batch,      \* dispatch_batches: the batch id of each row and channel, 0 if none
    lastBatch,  \* the newest batch id handed out (randomUUID)
    queue,      \* <<row, channel, batch id>> ever accepted by SQS
    pc,         \* where each dispatcher is
    todo,       \* rows its poll still has to visit
    claim,      \* the claim it holds
    result,     \* what SQS answered it
    failures,   \* history: queue failures recorded for each row
    faults      \* crashes and failed database calls so far

table == <<row, batch, lastBatch>>
local == <<pc, todo, claim, result>>
vars  == <<now, table, queue, local, failures, faults>>

Statuses == {"absent", "pending", "processing", "published", "failed"}
Settled  == {"published", "failed"}
Results  == {"none", "acked", "retryable", "terminal"}

OutboxRow == [status : Statuses, attempts : Nat,
              availableAt : Nat, lockedUntil : Nat]
Claims == [row : Rows, attempt : Nat, until : Nat, batch : [Channels -> Nat]]

ASSUME NoClaimAssumption == NoClaim \notin Claims

\* The table's outbox_lock_state check: a lock exactly while processing.
LockState(e) == (e.status = "processing") <=> (e.lockedUntil # 0)

TypeOK ==
    /\ now \in Nat
    /\ row \in [Rows -> OutboxRow] /\ \A r \in Rows : LockState(row[r])
    /\ batch \in [Rows -> [Channels -> Nat]]
    /\ lastBatch \in Nat
    /\ queue \subseteq Rows \X Channels \X Nat
    /\ pc \in [Dispatchers -> {"idle", "list", "poll", "send", "settle"}]
    /\ todo \in [Dispatchers -> SUBSET Rows]
    /\ claim \in [Dispatchers -> Claims \cup {NoClaim}]
    /\ result \in [Dispatchers -> Results]
    /\ failures \in [Rows -> Nat]
    /\ faults \in Nat

NoRow == [status |-> "absent", attempts |-> 0, availableAt |-> 0, lockedUntil |-> 0]

Init ==
    /\ now = 0
    /\ row = [r \in Rows |-> NoRow]
    /\ batch = [r \in Rows |-> [c \in Channels |-> 0]]
    /\ lastBatch = 0
    /\ queue = {}
    /\ pc = [d \in Dispatchers |-> "idle"]
    /\ todo = [d \in Dispatchers |-> {}]
    /\ claim = [d \in Dispatchers |-> NoClaim]
    /\ result = [d \in Dispatchers |-> "none"]
    /\ failures = [r \in Rows |-> 0]
    /\ faults = 0
-----------------------------------------------------------------------------
Deadline(r) == IF row[r].status = "pending" THEN row[r].availableAt
                                            ELSE row[r].lockedUntil

Waiting(r) == row[r].status \in {"pending", "processing"}

\* Variant: an expired lease is never taken over.
ReadyWhenPending(r) == row[r].status = "pending" /\ Deadline(r) <= now

\* Due for a claim: pending and available, or processing under an expired lease.
Ready(r) == Waiting(r) /\ Deadline(r) <= now

Holding(d) == pc[d] \in {"send", "settle"}

\* Variant: a fence that trusts the attempt number alone.
FenceWithoutLease(entry, c) ==
    entry.status = "processing" /\ entry.attempts = c.attempt

\* Variant: a fence that does not look at the status.
FenceWithoutStatus(entry, c) == entry.attempts = c.attempt

\* claimFence: the row is still exactly the one this claim wrote.
FenceMatches(entry, c) ==
    /\ entry.status = "processing"
    /\ entry.attempts = c.attempt
    /\ entry.lockedUntil = c.until

Fence(d) == FenceMatches(row[claim[d].row], claim[d])

\* failExhaustedClaim spends one more attempt to get to the terminal state.
ExhaustedRow(e) == [e EXCEPT !.status = "failed", !.attempts = @ + 1,
                             !.lockedUntil = 0]

\* A new lease.  Only a pending row starts a new attempt; a row whose lease ran
\* out is taken over within its attempt.
ClaimedRow(r) ==
    LET e == row[r] IN
    IF e.status = "pending" /\ e.attempts >= MaxAttempts
    THEN ExhaustedRow(e)
    ELSE [e EXCEPT !.status = "processing", !.lockedUntil = now + Lease,
                   !.attempts = IF e.status = "pending" THEN @ + 1 ELSE @]

\* The row as markPublished and the two ends of recordFailure leave it.
PublishedRow(e) == [e EXCEPT !.status = "published", !.lockedUntil = 0]
RetryRow(e) == [e EXCEPT !.status = "pending", !.lockedUntil = 0,
                         !.availableAt = now + Backoff]
FailedRow(e) == [e EXCEPT !.status = "failed", !.lockedUntil = 0]

\* Variant: every claim writes batches of its own.
FreshBatches(r) == [c \in Channels |-> lastBatch + 1]

\* ensureStableDispatchBatches: the ids already stored are kept.
StableBatches(r) ==
    [c \in Channels |-> IF batch[r][c] = 0 THEN lastBatch + 1 ELSE batch[r][c]]

\* Rows listReadyOutboxIds may answer: the ones available longest, up to the limit.
ReadyPages ==
    LET R == {r \in Rows : Ready(r)} IN
    {P \in SUBSET R :
        /\ Cardinality(P) <= PollLimit
        /\ P # R => Cardinality(P) = PollLimit
        /\ \A r \in P, s \in R \ P : row[r].availableAt <= row[s].availableAt}

\* Variant: a partial acknowledgement taken for a complete one.
SendOutcomesTrustingPartial ==
    {<<{}, "terminal">>} \cup {<<S, "acked">> : S \in SUBSET Channels \ {{}}}
        \cup {<<S, "retryable">> : S \in SUBSET Channels}

\* What one SendMessageBatch can do: <<channels SQS accepted, what the caller
\* learns>>.  A success names every entry; an error that may not be retried is
\* only raised when nothing was accepted; every other answer, a lost one
\* included, is retryable and says nothing certain about what was accepted.
SendOutcomes ==
    {<<Channels, "acked">>, <<{}, "terminal">>}
        \cup {<<S, "retryable">> : S \in SUBSET Channels}
-----------------------------------------------------------------------------
\* The event transaction commits its row, and the hook of that request starts.
Commit(d, r) ==
    /\ row[r].status = "absent"
    /\ pc[d] = "idle"
    /\ row' = [row EXCEPT ![r] = [NoRow EXCEPT !.status = "pending",
                                               !.availableAt = now]]
    /\ pc' = [pc EXCEPT ![d] = "list"]
    /\ UNCHANGED <<now, batch, lastBatch, queue, todo, claim, result,
                   failures, faults>>

\* The hook of another notification (its own row is not one of Rows) starts.
HookStarts(d) ==
    /\ pc[d] = "idle"
    /\ \E r \in Rows : Waiting(r)
    /\ pc' = [pc EXCEPT ![d] = "list"]
    /\ UNCHANGED <<now, table, queue, todo, claim, result, failures, faults>>

ListReady(d) ==
    /\ pc[d] = "list"
    /\ \E P \in ReadyPages : todo' = [todo EXCEPT ![d] = P]
    /\ pc' = [pc EXCEPT ![d] = "poll"]
    /\ UNCHANGED <<now, table, queue, claim, result, failures, faults>>

\* claimOutbox finds the row gone from ready: busy, published or failed.
SkipRow(d, r) ==
    /\ pc[d] = "poll" /\ r \in todo[d]
    /\ ~Ready(r)
    /\ todo' = [todo EXCEPT ![d] = @ \ {r}]
    /\ UNCHANGED <<now, table, queue, pc, claim, result, failures, faults>>

\* claimOutbox writes the lease and the batches in one transaction.
ClaimRow(d, r) ==
    /\ pc[d] = "poll" /\ r \in todo[d]
    /\ Ready(r)
    /\ todo' = [todo EXCEPT ![d] = @ \ {r}]
    /\ row' = [row EXCEPT ![r] = ClaimedRow(r)]
    /\ IF ClaimedRow(r).status = "failed"
       THEN UNCHANGED <<batch, lastBatch, pc, claim>>
       ELSE /\ batch' = [batch EXCEPT ![r] = StableBatches(r)]
            /\ lastBatch' = IF StableBatches(r) = batch[r] THEN lastBatch
                                                           ELSE lastBatch + 1
            /\ pc' = [pc EXCEPT ![d] = "send"]
            /\ claim' = [claim EXCEPT ![d] =
                           [row |-> r, attempt |-> ClaimedRow(r).attempts,
                            until |-> ClaimedRow(r).lockedUntil,
                            batch |-> StableBatches(r)]]
    /\ UNCHANGED <<now, queue, result, failures, faults>>

\* queue.send, outside any transaction.
Send(d) ==
    /\ pc[d] = "send"
    /\ \E o \in SendOutcomes :
          /\ queue' = queue \cup
                {<<claim[d].row, c, claim[d].batch[c]>> : c \in o[1]}
          /\ result' = [result EXCEPT ![d] = o[2]]
    /\ pc' = [pc EXCEPT ![d] = "settle"]
    /\ UNCHANGED <<now, table, todo, claim, failures, faults>>

\* The dispatcher is done with its claim and goes on with its poll.
DropClaim(d) ==
    /\ pc' = [pc EXCEPT ![d] = "poll"]
    /\ claim' = [claim EXCEPT ![d] = NoClaim]
    /\ result' = [result EXCEPT ![d] = "none"]
    /\ UNCHANGED todo

\* markPublished.
MarkPublished(d) ==
    /\ pc[d] = "settle" /\ result[d] = "acked"
    /\ Fence(d)
    /\ row' = [row EXCEPT ![claim[d].row] = PublishedRow(@)]
    /\ DropClaim(d)
    /\ UNCHANGED <<now, batch, lastBatch, queue, failures, faults>>

\* Variant: the last attempt may be tried again too.
RetriesLeftOffByOne(d) ==
    result[d] = "retryable" /\ claim[d].attempt <= MaxAttempts

\* recordFailure decides whether a failed handoff is tried again.
RetriesLeft(d) == result[d] = "retryable" /\ claim[d].attempt < MaxAttempts

\* recordFailure, when the handoff is to be tried again.
ScheduleRetry(d) ==
    /\ pc[d] = "settle" /\ RetriesLeft(d)
    /\ Fence(d)
    /\ row' = [row EXCEPT ![claim[d].row] = RetryRow(@)]
    /\ failures' = [failures EXCEPT ![claim[d].row] = @ + 1]
    /\ DropClaim(d)
    /\ UNCHANGED <<now, batch, lastBatch, queue, faults>>

\* recordFailure, when the error is terminal or the attempts are used up.
RecordTerminalFailure(d) ==
    /\ pc[d] = "settle" /\ result[d] \in {"retryable", "terminal"}
    /\ ~RetriesLeft(d)
    /\ Fence(d)
    /\ row' = [row EXCEPT ![claim[d].row] = FailedRow(@)]
    /\ failures' = [failures EXCEPT ![claim[d].row] = @ + 1]
    /\ DropClaim(d)
    /\ UNCHANGED <<now, batch, lastBatch, queue, faults>>

\* Either settlement finds the fence changed: OUTBOX_CLAIM_LOST.
ClaimLost(d) ==
    /\ pc[d] = "settle"
    /\ ~Fence(d)
    /\ DropClaim(d)
    /\ UNCHANGED <<now, table, queue, failures, faults>>

PollEnds(d) ==
    /\ pc[d] = "poll" /\ todo[d] = {}
    /\ pc' = [pc EXCEPT ![d] = "idle"]
    /\ UNCHANGED <<now, table, queue, todo, claim, result, failures, faults>>

\* The process stops; what it knew is gone.
Crash(d) ==
    /\ pc[d] # "idle" /\ faults < MaxFaults
    /\ pc' = [pc EXCEPT ![d] = "idle"]
    /\ todo' = [todo EXCEPT ![d] = {}]
    /\ claim' = [claim EXCEPT ![d] = NoClaim]
    /\ result' = [result EXCEPT ![d] = "none"]
    /\ faults' = faults + 1
    /\ UNCHANGED <<now, table, queue, failures>>

\* A claim transaction that rolls back only defers its row.
ClaimFails(d, r) ==
    /\ pc[d] = "poll" /\ r \in todo[d] /\ faults < MaxFaults
    /\ todo' = [todo EXCEPT ![d] = @ \ {r}]
    /\ faults' = faults + 1
    /\ UNCHANGED <<now, table, queue, pc, claim, result, failures>>

\* A settlement that rolls back leaves the row leased: OUTBOX_PERSISTENCE_FAILED.
SettlementFails(d) ==
    /\ pc[d] = "settle" /\ faults < MaxFaults
    /\ DropClaim(d)
    /\ faults' = faults + 1
    /\ UNCHANGED <<now, table, queue, failures>>

\* Time only matters to a row that waits for it.
Tick ==
    /\ now < MaxTime
    /\ \E r \in Rows : Waiting(r) /\ Deadline(r) > now
    /\ HoldersBeatLease =>
          \A d \in Dispatchers : Holding(d) /\ Fence(d) => claim[d].until > now + 1
    /\ now' = now + 1
    /\ UNCHANGED <<table, queue, local, failures, faults>>

Step(d) == \/ ListReady(d)
           \/ \E r \in Rows : SkipRow(d, r)
           \/ \E r \in Rows : ClaimRow(d, r)
           \/ Send(d)
           \/ MarkPublished(d)
           \/ ScheduleRetry(d)
           \/ RecordTerminalFailure(d)
           \/ ClaimLost(d)
           \/ PollEnds(d)

Fault(d) == \/ Crash(d)
            \/ SettlementFails(d)
            \/ \E r \in Rows : ClaimFails(d, r)

Next == \/ \E d \in Dispatchers : \E r \in Rows : Commit(d, r)
        \/ \E d \in Dispatchers : HookStarts(d)
        \/ \E d \in Dispatchers : Step(d)
        \/ \E d \in Dispatchers : Fault(d)
        \/ Tick

Spec == Init /\ [][Next]_vars

\* Every dispatcher keeps running and time passes.
DispatcherFairness == WF_vars(Tick) /\ \A d \in Dispatchers : WF_vars(Step(d))

\* Nothing in the repository polls but the hook: rows left behind move only
\* when another notification is committed.
HookOnlySpec == Spec /\ DispatcherFairness

\* Notifications keep being committed somewhere in the district.
RecurringHooksSpec ==
    HookOnlySpec /\ \A d \in Dispatchers : WF_vars(HookStarts(d))
-----------------------------------------------------------------------------
(* Properties. *)

\* At most one live dispatcher can settle a row: the lease fence of two claims
\* on the same row is never satisfied at once, although a claim outlives its
\* lease and a takeover keeps the attempt number.
SingleHolder ==
    \A d, e \in Dispatchers :
        /\ Holding(d) /\ Fence(d)
        /\ Holding(e) /\ Fence(e)
        /\ claim[d].row = claim[e].row
        => d = e

\* A row is published only when SQS holds the stored batch of every channel.
PublishedIsQueued ==
    \A r \in Rows : row[r].status = "published" =>
        \A c \in Channels : <<r, c, batch[r][c]>> \in queue

\* Whatever is retried, taken over or sent late, SQS never sees two batch ids
\* for one channel of a row, so a worker can recognise a duplicate.
OneBatchPerChannel ==
    \A p, q \in queue : p[1] = q[1] /\ p[2] = q[2] => p[3] = q[3]

\* A retry attempt is spent by a recorded queue failure and by nothing else:
\* crashes, lost settlements and takeovers leave the budget alone.
BudgetSpentByFailures ==
    \A r \in Rows :
        row[r].attempts = failures[r] +
            (IF row[r].status \in {"processing", "published"} THEN 1 ELSE 0)

\* The budget is never exceeded, and no row waits with an empty one: the
\* exhaustion branch of claimOutbox is only a second line of defence.
RetryBudget ==
    \A r \in Rows :
        /\ row[r].attempts <= MaxAttempts
        /\ row[r].status = "pending" => row[r].attempts < MaxAttempts

\* A published or failed row never changes again, whoever still holds a claim.
SettledIsFinal ==
    [][\A r \in Rows : row[r].status \in Settled => row'[r] = row[r]]_vars

\* Every retained notification is settled in the end: none is left pending, or
\* processing under a lease nobody honours.
AllSettled == \A r \in Rows : row[r].status \in {"absent"} \cup Settled
EventuallySettled == <>[]AllSettled

\* The promise of DurableHandoff, read off the table and the queue's history.
Phase(r) == CASE row[r].status = "absent"    -> "absent"
              [] Waiting(r)                  -> "retained"
              [] row[r].status = "published" -> "handed-off"
              [] row[r].status = "failed"    -> "abandoned"

Reached(r) == {c \in Channels : <<r, c, batch[r][c]>> \in queue}

Handoff == INSTANCE DurableHandoff WITH
    phase <- [r \in Rows |-> Phase(r)],
    sent <- [r \in Rows |-> Reached(r)]

\* The dispatchers keep the promise of DurableHandoff.
KeepsHandoffPromise == Handoff!Spec
=============================================================================
