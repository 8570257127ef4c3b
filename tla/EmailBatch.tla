----------------------------- MODULE EmailBatch -----------------------------
(***************************************************************************)
(* One email batch message and the recipients it names                     *)
(* (workers/email/queue-runtime.ts, workers/email/service.ts,              *)
(* workers/shared/terminal-failure.ts, resolveBatch of                     *)
(* packages/server/lib/notify/email-runtime-store.ts).                     *)
(*                                                                         *)
(* A poll loop walks the pinned candidates a page at a time and emails     *)
(* them one after another; it deletes the message at the end, leaves it to *)
(* the queue when something failed that may pass, and retires it to the    *)
(* dead-letter queue when something failed for good.  A recipient's own    *)
(* attempt is AttemptExecution; here it is one step with a durable result. *)
(***************************************************************************)
EXTENDS Naturals, FiniteSets

CONSTANTS
    Pollers,        \* poll loops that may receive the message
    N,              \* candidates, in their pinned order
    PageSize,       \* EMAIL_PAGE_SIZE
    MaxReceives,    \* EMAIL_QUEUE_MAX_RECEIVES
    Answers,        \* how a recipient's first attempt may end
    MayChange,      \* TRUE: addresses become ineligible, the send may be stopped
    MaxFaults       \* bound on crashes, failed calls and lapsed visibility

\* What the constants must be.
BatchAssumption ==
    /\ N \in Nat /\ PageSize \in Nat \ {0} /\ MaxReceives \in Nat \ {0}
    /\ Answers \subseteq {"sent", "retry", "refused"}
    /\ MayChange \in BOOLEAN /\ MaxFaults \in Nat

VARIABLES
    inQueue,    \* the message exists in the email queue
    visible,    \* and may be received
    receives,   \* how often it was received since it entered the queue
    dead,       \* the dead-letter queue holds a copy
    live,       \* resolveBatch finds channel, lifecycle and horizon in order
    eligible,   \* candidates whose address may be used
    result,     \* the durable result of each candidate's first attempt
    published,  \* candidates whose retry reference is in the queue
    skipped,    \* history: candidates a page read left out
    pc,         \* where each poller is
    cursor,     \* the candidates its pages have covered
    page,       \* candidates of its page still to be emailed
    faults      \* crashes, failed calls and lapses so far

message == <<inQueue, visible, receives, dead>>
policy  == <<live, eligible>>
outcome == <<result, published, skipped>>
poller  == <<pc, cursor, page>>
vars    == <<message, policy, outcome, poller, faults>>

Candidates == 1..N

TypeOK ==
    /\ inQueue \in BOOLEAN /\ dead \in BOOLEAN /\ live \in BOOLEAN
    /\ visible \in BOOLEAN /\ (visible => inQueue)
    /\ receives \in 0..MaxReceives
    /\ eligible \subseteq Candidates
    /\ result \in [Candidates -> {"none"} \cup Answers]
    /\ published \subseteq {r \in Candidates : result[r] = "retry"}
    /\ skipped \subseteq Candidates
    /\ pc \in [Pollers -> {"idle", "resolve", "work", "copy", "drop", "finish"}]
    /\ cursor \in [Pollers -> 0..N]
    /\ page \in [Pollers -> SUBSET Candidates]
    /\ faults \in 0..MaxFaults

Init ==
    /\ inQueue = TRUE /\ visible = TRUE /\ receives = 0 /\ dead = FALSE
    /\ live = TRUE /\ eligible = Candidates
    /\ result = [r \in Candidates |-> "none"]
    /\ published = {} /\ skipped = {}
    /\ pc = [p \in Pollers |-> "idle"]
    /\ cursor = [p \in Pollers |-> 0]
    /\ page = [p \in Pollers |-> {}]
    /\ faults = 0
-----------------------------------------------------------------------------
AFault == faults < MaxFaults /\ faults' = faults + 1

GoTo(p, step) == pc' = [pc EXCEPT ![p] = step] /\ UNCHANGED <<cursor, page>>

LetGo(p) == /\ pc' = [pc EXCEPT ![p] = "idle"]
            /\ cursor' = [cursor EXCEPT ![p] = 0]
            /\ page' = [page EXCEPT ![p] = {}]

NextOf(p, r) == r \in page[p] /\ \A s \in page[p] : r <= s

\* Variant: the cursor counts eligible candidates.
PageAmongEligible(c) ==
    {r \in eligible : Cardinality({s \in eligible : s <= r}) \in c+1 .. c+PageSize}

\* The candidates of the page after c, counted among all candidates.
Page(c) == Candidates \cap (c+1 .. c+PageSize)

\* nextCursor: what the pages up to the one after c cover.
Covered(c) == IF c + PageSize < N THEN c + PageSize ELSE N

\* Variant: the first page is taken for the whole batch.
AfterPageOne(p) == "finish"

\* The walk goes on while the cursor names another page.
AfterPage(p) == IF cursor[p] < N THEN "resolve" ELSE "finish"

\* #resultForAttempt throws, not to be retried, at a recipient refused for good.
StopsMessage(r) == result'[r] = "refused"

\* #resultForAttempt publishes a retry whenever the attempt answers with one.
NeedsPublishing(r) == result'[r] = "retry"
-----------------------------------------------------------------------------
Receive(p) ==
    /\ pc[p] = "idle"
    /\ visible /\ receives < MaxReceives
    /\ visible' = FALSE /\ receives' = receives + 1
    /\ GoTo(p, "resolve")
    /\ UNCHANGED <<inQueue, dead, policy, outcome, faults>>

\* resolveBatch reads eligibility anew for every page.
ResolvePage(p) ==
    /\ pc[p] = "resolve" /\ live
    /\ page' = [page EXCEPT ![p] = Page(cursor[p]) \cap eligible]
    /\ skipped' = skipped \cup (Page(cursor[p]) \ eligible)
    /\ cursor' = [cursor EXCEPT ![p] = Covered(@)]
    /\ pc' = [pc EXCEPT ![p] = "work"]
    /\ UNCHANGED <<message, policy, result, published, faults>>

\* ... and answers one empty, last page when the send was stopped.
ResolveStopped(p) ==
    /\ pc[p] = "resolve" /\ ~live
    /\ skipped' = Candidates
    /\ GoTo(p, "finish")
    /\ UNCHANGED <<message, policy, result, published, faults>>

\* The next recipient of the page: a first attempt, or the replay of its result.
ProcessRecipient(p) ==
    /\ pc[p] = "work"
    /\ \E r \in Candidates :
       /\ NextOf(p, r)
       /\ \E a \in IF result[r] = "none" THEN Answers ELSE {result[r]} :
             result' = [result EXCEPT ![r] = a]
       /\ published' = IF NeedsPublishing(r) THEN published \cup {r} ELSE published
       /\ IF StopsMessage(r)
          THEN GoTo(p, "copy")
          ELSE /\ page' = [page EXCEPT ![p] = @ \ {r}]
               /\ UNCHANGED <<pc, cursor>>
    /\ UNCHANGED <<message, policy, skipped, faults>>

\* The attempt throws before its result or after it: in progress elsewhere, a
\* failed call, a denied authorization, a publication that failed or seemed to.
RecipientFails(p) ==
    /\ pc[p] = "work" /\ AFault
    /\ \E r \in Candidates :
       \E a \in IF result[r] = "none" THEN Answers \cup {"none"} ELSE {result[r]} :
          /\ NextOf(p, r)
          /\ result' = [result EXCEPT ![r] = a]
          /\ published' \in {published} \cup
                (IF a = "retry" THEN {published \cup {r}} ELSE {})
    /\ LetGo(p)
    /\ UNCHANGED <<message, policy, skipped>>

PageDone(p) ==
    /\ pc[p] = "work" /\ page[p] = {}
    /\ GoTo(p, AfterPage(p))
    /\ UNCHANGED <<message, policy, outcome, faults>>

\* DeleteMessage at the end of the walk.
Delete(p) ==
    /\ pc[p] = "finish"
    /\ inQueue' = FALSE /\ visible' = FALSE
    /\ LetGo(p)
    /\ UNCHANGED <<receives, dead, policy, outcome, faults>>

\* retireMessage: first the copy ...
CopyToDeadLetters(p) ==
    /\ pc[p] = "copy"
    /\ dead' = TRUE
    /\ GoTo(p, "drop")
    /\ UNCHANGED <<inQueue, visible, receives, policy, outcome, faults>>

\* ... then the delete.
DropRetired(p) ==
    /\ pc[p] = "drop"
    /\ inQueue' = FALSE /\ visible' = FALSE
    /\ LetGo(p)
    /\ UNCHANGED <<receives, dead, policy, outcome, faults>>

\* A poller stops, or a call of its own to SQS fails.
Crash(p) ==
    /\ pc[p] # "idle" /\ AFault
    /\ LetGo(p)
    /\ UNCHANGED <<message, policy, outcome>>

Working == \E p \in Pollers : pc[p] # "idle"

\* Nobody extends the visibility timeout of a message nobody works on.
VisibilityTimeout ==
    /\ inQueue /\ ~visible /\ ~Working
    /\ visible' = TRUE
    /\ UNCHANGED <<inQueue, receives, dead, policy, outcome, poller, faults>>

\* The heartbeat of a working poller comes too late.
VisibilityLapses ==
    /\ inQueue /\ ~visible /\ Working /\ AFault
    /\ visible' = TRUE
    /\ UNCHANGED <<inQueue, receives, dead, policy, outcome, poller>>

\* The queue's redrive policy, after the last receive.
RedriveToDeadLetters ==
    /\ visible /\ receives = MaxReceives
    /\ inQueue' = FALSE /\ visible' = FALSE /\ dead' = TRUE
    /\ UNCHANGED <<receives, policy, outcome, poller, faults>>

\* An operator sends the dead letter back to the queue.
OperatorRedrive ==
    /\ dead /\ ~inQueue /\ ~Working
    /\ inQueue' = TRUE /\ visible' = TRUE /\ dead' = FALSE /\ receives' = 0
    /\ UNCHANGED <<policy, outcome, poller, faults>>

\* An address is suppressed, or the send stops.
LoseAddress(r) ==
    /\ MayChange /\ r \in eligible
    /\ eligible' = eligible \ {r}
    /\ UNCHANGED <<message, live, outcome, poller, faults>>

StopSend ==
    /\ MayChange /\ live
    /\ live' = FALSE
    /\ UNCHANGED <<message, eligible, outcome, poller, faults>>

Step(p) == \/ ResolvePage(p) \/ ResolveStopped(p)
           \/ ProcessRecipient(p) \/ PageDone(p)
           \/ Delete(p) \/ CopyToDeadLetters(p) \/ DropRetired(p)

Queue == VisibilityTimeout \/ RedriveToDeadLetters

Next == \/ \E p \in Pollers : Receive(p) \/ Step(p)
        \/ \E p \in Pollers : RecipientFails(p) \/ Crash(p)
        \/ Queue \/ VisibilityLapses \/ OperatorRedrive
        \/ \E r \in Candidates : LoseAddress(r)
        \/ StopSend

Spec == Init /\ [][Next]_vars

\* Some loop polls, whoever has the message goes on, and operators return what
\* reached the dead-letter queue.
FairSpec ==
    /\ Spec
    /\ WF_vars(\E p \in Pollers : Receive(p))
    /\ \A p \in Pollers : WF_vars(Step(p))
    /\ WF_vars(Queue) /\ WF_vars(OperatorRedrive)
-----------------------------------------------------------------------------
(* Properties. *)

\* Deleted as completed: neither queued nor dead.
Completed == ~inQueue /\ ~dead

\* The message leaves the system only when every candidate was emailed,
\* scheduled or deliberately left out.  In particular retirement never loses
\* it, and the cursor skips nobody when addresses change between two pages.
NobodyForgotten ==
    Completed => \A r \in Candidates :
        result[r] \in {"sent", "retry"} \/ r \in skipped

\* A retry that was recorded is published before the message may go, unless
\* the recipient was left out by then.
RetriesPublished ==
    Completed => \A r \in Candidates :
        result[r] = "retry" => r \in published \cup skipped

\* Every candidate of a send that goes on, whose address stays in order, is
\* attempted.
AllAttempted == live => \A r \in eligible : result[r] # "none"
EveryoneAttempted == <>[]AllAttempted
=============================================================================
