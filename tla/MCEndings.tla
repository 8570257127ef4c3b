----------------------------- MODULE MCEndings -----------------------------
(* What must happen in the end in the text, push-receipt, sign-in and event  *)
(* parts: one small instance of each, under the fairness its scheduling justifies.  *)
(* A behaviour picks one component; the others stay in their first state.    *)
EXTENDS TLC, FiniteSets

CONSTANTS NoWorker, None

VARIABLES
    moving,                                         \* the component picked
    exec, io, evidence, queued, texts, reported, ignored, enabled, listed,
    expired, pc, job, answer, faults,
    clock, poll, resend, references, truth, invalid, work, pollerFaults,
    chain, recoverable, revoked, receipts, call, phase, mem, disk, queue, flow,
    before, revocation, cleaned, minted, ended,
    stamped, row, journal, outbox, preview, confirmed, input, idem, claim,
    rowLock, facLock, requestPc, cmd, stamp, read, told, among

\* A worker that dies twice and comes back, two attempts, no receipts.
Text == INSTANCE SmsAttempt WITH
    Workers <- {"w1"}, MaxAttempts <- 2, Statuses <- {},
    Contexts <- {FALSE}, HoldersBeatLease <- TRUE, MaxFaults <- 2

\* One device, one more attempt, a poller that stops, Expo reusing its
\* receipt ids.
Receipt == INSTANCE PushReceipts WITH
    Devices <- {"d1"}, MaxSend <- 2, Ids <- {"r1", "r2"},
    Pollers <- {"p1"}, Answers <- {"missing", "rate", "unregistered"},
    MaxFaults <- 2, queue <- references, faults <- pollerFaults

\* Requests served one at a time, one tap on Retry.
Phone == INSTANCE DeviceSession WITH
    Call <- {"c1"}, MaxKeys <- 2, WindowCanClose <- FALSE,
    Retrying <- {"retry"}, Offered <- {"offline"}, Reads <- FALSE,
    Stragglers <- FALSE

\* An active event is ended, closed, joined and posted to by three requests.
Event == INSTANCE EventLifecycle WITH
    Event <- {"e1"}, Command <- {"c1", "c2", "c3", "c4"},
    Request <- {"q1", "q2", "q3"},
    Kind <- "c1" :> "all-clear" @@ "c2" :> "close" @@ "c3" :> "post"
              @@ "c4" :> "join",
    Staff <- TRUE, Opening <- {"e1"}, MaxPreviews <- 1,
    clock <- stamped, pc <- requestPc, answer <- told

text    == <<exec, io, evidence, queued, texts, reported, ignored, enabled,
             listed, expired, pc, job, answer, faults>>
receipt == <<clock, poll, resend, references, truth, invalid, work, pollerFaults>>
phone   == <<chain, recoverable, revoked, receipts, call, phase, mem, disk,
             queue, flow, before, revocation, cleaned, minted, ended>>
event   == <<stamped, row, journal, outbox, preview, confirmed, input, idem,
             claim, rowLock, facLock, requestPc, cmd, stamp, read, told, among>>
vars    == <<moving, text, receipt, phone, event>>

Others(c) == /\ UNCHANGED moving
             /\ c # "text" => UNCHANGED text
             /\ c # "receipt" => UNCHANGED receipt
             /\ c # "phone" => UNCHANGED phone
             /\ c # "event" => UNCHANGED event

Init == /\ moving \in {"text", "receipt", "phone", "event"}
        /\ Text!Init /\ Receipt!Init /\ Phone!Init /\ Event!Init
        /\ moving # "event" => Cardinality(outbox) = 1    \* Init has a choice

Next == \/ moving = "text" /\ Text!Next /\ Others("text")
        \/ moving = "receipt" /\ Receipt!Next /\ Others("receipt")
        \/ moving = "phone" /\ Phone!Next /\ Others("phone")
        \/ moving = "event" /\ Event!Next /\ Others("event")

\* Actions of which a behaviour sees those of one component only: fairness of
\* their disjunction is fairness of each.
Either(textAction, receiptAction, phoneAction, eventAction) ==
    \/ moving = "text" /\ textAction /\ Others("text")
    \/ moving = "receipt" /\ receiptAction /\ Others("receipt")
    \/ moving = "phone" /\ phoneAction /\ Others("phone")
    \/ moving = "event" /\ eventAction /\ Others("event")

First  == <<"d1", 1>>
Second == <<"d1", 2>>
Polled(a) == Receipt!Claim("p1", a)
ServeAlone(c) == Phone!Serve(c) /\ UNCHANGED <<mem, disk, queue, flow, phase, before, revocation, cleaned, minted, ended>>

\* The fairness of each component's own FairSpec.
FairSpec ==
    /\ Init /\ [][Next]_vars
    /\ WF_vars(Either(Text!Step("w1"), Receipt!Tick, Phone!BeginStore,
                      Event!Step("q1")))
    /\ WF_vars(Either(Text!LeaseExpires(1), Receipt!ScheduleReceipt(First),
                      Phone!StoreWrites \/ Phone!StoreFails \/ Phone!StoreClears,
                      Event!Step("q2")))
    /\ WF_vars(Either(Text!LeaseExpires(2), Receipt!ScheduleReceipt(Second),
                      Phone!Unlock, Event!Step("q3")))
    /\ WF_vars(Either(FALSE, Receipt!Release(First), Phone!SignOutUnlocked, FALSE))
    /\ WF_vars(Either(FALSE, Receipt!Release(Second),
                      Phone!Refreshed("retry") \/ Phone!GiveUp("retry"), FALSE))
    /\ WF_vars(Either(FALSE, Polled(First),
                      Phone!Refreshed("unlock") \/ Phone!GiveUp("unlock"), FALSE))
    /\ WF_vars(Either(FALSE, Polled(Second), Phone!SignedOut \/ Phone!SignOutFailed,
                      FALSE))
    /\ WF_vars(Either(FALSE, Receipt!Go("p1", First), ServeAlone("c1"), FALSE))
    /\ WF_vars(Either(FALSE, Receipt!Go("p1", Second), FALSE, FALSE))
    /\ SF_vars(Either(Text!Fetch("w1", 1), FALSE, FALSE, FALSE))
    /\ SF_vars(Either(Text!Fetch("w1", 2), FALSE, FALSE, FALSE))
-----------------------------------------------------------------------------
(* Properties. *)

\* The recipient's text comes to a conclusion, over all its attempts, unless it
\* may no longer be sent, and a number AWS refuses because its owner opted out
\* is marked so, unless the batch expires first (SMS worker, retry messages and
\* after-outcome steps); and every push receipt that is bound is decided, but
\* for a push that was to be sent again and whose hour ended before the next
\* attempt was scheduled.
MessagesConclude == <>[](/\ moving = "text" => /\ Text!Concluded \/ ~Text!Sendable
                                              /\ Text!RefusalIsLearned
                         /\ moving = "receipt" => Receipt!AllDecided)

\* No wait of the phone is for ever: the checking screen gives way to another
\* one and a sign-out comes to an end, whatever the flows behind them find
\* changed when they resume.
NoLimbo == /\ []<>(moving = "phone" => phase # "checking")
           /\ []<>(moving = "phone" => flow["signout"].at = "idle")

\* Every request gets an answer: no order of waits for the key, the event row
\* and the facility row leaves requests waiting for each other.
EveryRequestAnswered == <>[](moving = "event" => Event!AllAnswered)
=============================================================================
