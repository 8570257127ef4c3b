--------------------------- MODULE MCConclusions ---------------------------
(* What must happen in the end on the way of a notification and to the      *)
(* roster it is addressed from: one small instance of each component, under *)
(* the fairness its scheduling justifies.                                   *)
(* A behaviour picks one component; the others stay in their first state.   *)
EXTENDS DeliveryTruth, TLC

CONSTANTS NoClaim, NoWorker, None

VARIABLES
    moving,                                         \* the component picked
    now, row, batch, lastBatch, queue, dispatcherPc, todo, claim,
    dispatchResult, queueFailures, dispatchFaults,
    at, routerReceives, copies, handed, routerFailures, done, routerFaults,
    inQueue, visible, receives, dead, live, candidates, result, published,
    skipped, pollerPc, cursor, page, pollerFaults,
    exec, ledger, evidence, due, sent, eligible, pc, job, answer, faults,
    chain, stale, cutoff,
    edits, members, waiting, config, consent, device, snapshot, record, issued,
    call, rosterFaults, snapshots

Components == {"outbox", "router", "batch", "attempt", "truth", "roster"}

\* Two rows, and other activations that keep the hook running.
Outbox == INSTANCE OutboxDispatch WITH
    Rows <- {"r1", "r2"}, Dispatchers <- {"d1", "d2"}, Channels <- {"push"},
    MaxAttempts <- 2, Lease <- 1, Backoff <- 1, PollLimit <- 1,
    HoldersBeatLease <- TRUE, MaxTime <- 8, MaxFaults <- 1,
    pc <- dispatcherPc, result <- dispatchResult, failures <- queueFailures,
    faults <- dispatchFaults

\* A message nobody can read travels with two others.
Router == INSTANCE DeliveryRouting WITH
    Message <- {"m1", "m2", "m3"}, Batch <- {"b1", "b2", "b3"},
    Carries <- "m1" :> "b1" @@ "m2" :> "b2" @@ "m3" :> "b3",
    Unreadable <- {"b3"}, Invocation <- {1, 2}, BatchSize <- 3,
    MaxReceives <- 3, MaxFaults <- 2,
    receives <- routerReceives, failures <- routerFailures,
    faults <- routerFaults

\* Three candidates on two pages, addresses that become ineligible.
Batch == INSTANCE EmailBatch WITH
    Pollers <- {"p1", "p2"}, N <- 3, PageSize <- 2, MaxReceives <- 3,
    Answers <- {"sent", "retry"}, MayChange <- TRUE, MaxFaults <- 1,
    eligible <- candidates, pc <- pollerPc, faults <- pollerFaults

\* Two workers of which one may die, two attempts.
Attempt == INSTANCE AttemptExecution WITH
    Workers <- {"w1", "w2"}, MaxAttempts <- 2, LedgerMayFail <- FALSE,
    MayResume <- FALSE, HoldersBeatLease <- TRUE, MaxFaults <- 1

\* One message that was delivered, reported by a worker in doubt and by
\* callbacks in any order.
OfferedFacts ==
    {Attempted, Fact("provider-accepted", "ses", "m1", Null),
     Fact("expired", "ses", "m1", "TTL"),
     Fact("delivered", "ses", "m1", "proof"),
     Fact("delivered", "ses", "m1", "later proof"),
     Fact("unknown", "ses", Null, "AMBIGUOUS")}

Truth == INSTANCE DeliveryEvidence WITH Offered <- OfferedFacts

\* A school of three whose list is kept by hand and may lose one or two, a
\* subscriber, two edits, one publication at a time.
Roster == INSTANCE RosterPublication WITH
    Person <- {"ann", "ben", "cid"}, Subscriber <- {"ann"}, Source <- {"office"},
    Manual <- {"office"},
    Lists <- {{"ann", "ben", "cid"}, {"ann", "ben"}, {"ann"}},
    Call <- {"c1"}, MinimumRemovals <- 2, RemainingPercent <- 80,
    Edits <- {"save", "consent", "configuration"},
    MaxEdits <- 2, MaxCommands <- 1, MaxFaults <- 1,
    faults <- rosterFaults, published <- snapshots

outbox == <<now, row, batch, lastBatch, queue, dispatcherPc, todo, claim,
            dispatchResult, queueFailures, dispatchFaults>>
router == <<at, routerReceives, copies, handed, routerFailures, done, routerFaults>>
pages  == <<inQueue, visible, receives, dead, live, candidates, result,
            published, skipped, pollerPc, cursor, page, pollerFaults>>
lease  == <<exec, ledger, evidence, due, sent, eligible, pc, job, answer, faults>>
truth  == <<chain, stale, cutoff>>
roster == <<edits, members, waiting, config, consent, device, snapshot, record,
            issued, call, rosterFaults, snapshots>>
vars   == <<moving, outbox, router, pages, lease, truth, roster>>

Others(c) == /\ UNCHANGED moving
             /\ c # "outbox" => UNCHANGED outbox
             /\ c # "router" => UNCHANGED router
             /\ c # "batch" => UNCHANGED pages
             /\ c # "attempt" => UNCHANGED lease
             /\ c # "truth" => UNCHANGED truth
             /\ c # "roster" => UNCHANGED roster

Init == /\ moving \in Components
        /\ Outbox!Init /\ Router!Init /\ Batch!Init /\ Attempt!Init /\ Truth!Init
        /\ Roster!Init

Next == \/ moving = "outbox" /\ Outbox!Next /\ Others("outbox")
        \/ moving = "router" /\ Router!Next /\ Others("router")
        \/ moving = "batch" /\ Batch!Next /\ Others("batch")
        \/ moving = "attempt" /\ Attempt!Next /\ Others("attempt")
        \/ moving = "truth" /\ Truth!Next /\ Others("truth")
        \/ moving = "roster" /\ Roster!Next /\ Others("roster")

\* Actions of which a behaviour sees those of one component only: fairness of
\* their disjunction is fairness of each.
Either(outboxAction, routerAction, batchAction, attemptAction, truthAction) ==
    \/ moving = "outbox" /\ outboxAction /\ Others("outbox")
    \/ moving = "router" /\ routerAction /\ Others("router")
    \/ moving = "batch" /\ batchAction /\ Others("batch")
    \/ moving = "attempt" /\ attemptAction /\ Others("attempt")
    \/ moving = "truth" /\ truthAction /\ Others("truth")

Says(state, detail) == Truth!Record(CHOOSE f \in OfferedFacts :
                                       f.state = state /\ f.detail = detail)

\* The fairness of each component's own FairSpec.
FairSpec ==
    /\ Init /\ [][Next]_vars
    /\ WF_vars(Either(Outbox!Step("d1"), Router!Step(1), Batch!Step("p1"),
                      Attempt!Step("w1"), Says("attempted", Null)))
    /\ WF_vars(Either(Outbox!Step("d2"), Router!Step(2), Batch!Step("p2"),
                      Attempt!Step("w2"), Says("provider-accepted", Null)))
    /\ WF_vars(Either(Outbox!HookStarts("d1"), Router!SetAside("m1"),
                      \E p \in {"p1", "p2"} : Batch!Receive(p),
                      Attempt!LeaseExpires(1), Says("expired", "TTL")))
    /\ WF_vars(Either(Outbox!HookStarts("d2"), Router!SetAside("m2"), Batch!Queue,
                      Attempt!LeaseExpires(2), Says("delivered", "proof")))
    /\ WF_vars(Either(Outbox!Tick, Router!SetAside("m3"), Batch!OperatorRedrive,
                      FALSE, Says("delivered", "later proof")))
    /\ WF_vars(moving = "truth" /\ Says("unknown", "AMBIGUOUS") /\ Others("truth"))
    /\ SF_vars(Either(FALSE, Router!Receive("m1"), FALSE,
                      \E w \in {"w1", "w2"} : Attempt!Take(w, 1), FALSE))
    /\ SF_vars(Either(FALSE, Router!Receive("m2"), FALSE,
                      \E w \in {"w1", "w2"} : Attempt!Take(w, 2), FALSE))
    /\ SF_vars(moving = "router" /\ Router!Receive("m3") /\ Others("router"))
    /\ WF_vars(moving = "roster" /\ Roster!Step("c1") /\ Others("roster"))
    /\ WF_vars(moving = "roster" /\ Roster!Scheduled("c1") /\ Others("roster"))
-----------------------------------------------------------------------------
(* Properties. *)

\* Every retained notification is published or given up in the end, also when
\* the dispatcher that holds it dies (claimOutbox, settleOutbox).
RetainedIsSettled == <>[](moving = "outbox" => Outbox!AllSettled)

\* An email comes to its end.  With fewer faults than receives every readable
\* message reaches its channel without an operator, whatever unreadable ones
\* it travels with (router); every candidate of a send that goes on, whose
\* address stays in order, is attempted (page walk and dead-letter queue); an
\* attempt that was announced gets an outcome unless the send was stopped,
\* also when the worker that holds it dies (processor, execution leases); and
\* proof of delivery ends up as the truth, in whatever order the facts arrive
\* (delivery-truth store and reconciler).
EmailsConclude == <>[](/\ moving = "router" => Router!AllForwarded
                       /\ moving = "batch" => Batch!AllAttempted
                       /\ moving = "attempt" => Attempt!AllConcluded
                       /\ moving = "truth" => Truth!KnownDelivered)

\* A change whose own publication was lost, refused or never begun reaches the
\* snapshot with the scheduled publications, unless the guard against a bad
\* read refuses the lists (scheduled-publish.ts, syncRoster).
RosterCatchesUp == <>[](moving = "roster" => Roster!CaughtUp)
=============================================================================
