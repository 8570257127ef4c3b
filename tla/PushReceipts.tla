---------------------------- MODULE PushReceipts ----------------------------
(***************************************************************************)
(* What becomes of a push that Expo has accepted                           *)
(* (workers/push/receipt-lifecycle.ts, workers/push/runtime.ts,            *)
(* workers/push/worker.ts,                                                 *)
(* packages/server/lib/notify/expo-push-runtime-store.ts).                 *)
(*                                                                         *)
(* An accepted attempt leaves a poll row that names its receipt.  Pollers  *)
(* lease due rows, ask Expo, stage what they have learnt in the row, act   *)
(* on it (record the fact, take the device off the list, send again) and   *)
(* only then decide the row.  A lease fences the row and nothing else: a   *)
(* poller that has outlived its lease still records facts and publishes.   *)
(* Facts are recorded by the rules of DeliveryTruth.                       *)
(***************************************************************************)
EXTENDS DeliveryTruth, FiniteSets

CONSTANTS
    Devices,     \* push endpoints, each of one recipient of one batch
    MaxSend,     \* maxSendAttempts
    Ids,         \* receipt ids Expo may hand out, not always distinct
    Pollers,     \* workers running runDue, more than one during a rollout
    Answers,     \* what Expo may say of a receipt
    MaxFaults    \* bound: crashes, lost replies and overrun leases

\* No poller at all.
Nobody == "nobody"

\* What the constants must be.
ReceiptConstants == /\ MaxSend \in Nat \ {0}
                    /\ Null \notin Ids
                    /\ Nobody \notin Pollers
                    /\ Answers \subseteq {"ok", "missing", "rate",
                                        "unregistered", "undeliverable"}
                    /\ MaxFaults \in Nat

Attempts == Devices \X (1..MaxSend)
Device(a) == a[1]
Number(a) == a[2]
Next2(a)  == <<a[1], a[2] + 1>>

\* The push is alive, its hour is over, the receipt's horizon is over too.
Live == 0  Expired == 1  Late == 2

\* ExpoReceiptPendingAction, and the decision of a row that is complete.
Action(kind, state, reason) == [kind |-> kind, state |-> state, reason |-> reason]
NoAction      == Action("none", Null, Null)
Completion    == Action("complete", "provider-accepted", Null)
Resend        == Action("resend", "failed", "rate")
Expiry        == Action("terminal-expiry", "expired", "expired")
Failure(r)    == Action("terminal-failure", "failed", r)
Doubt(r)      == Action("terminal-unknown", "unknown", r)
Collision     == Doubt("conflict")

Staged == {Resend, Expiry, Collision, Doubt("missing"), Doubt("horizon")}
              \cup {Failure(r) : r \in {"unregistered", "undeliverable", "exhausted"}}

\* ChannelAttempt facts of one send and its receipt.
Accepted(id)   == Fact("provider-accepted", "expo", id, Null)
Learnt(act, id) == Fact(act.state, "expo", id, act.reason)

NoRow  == [id |-> Null]
Idle   == [step |-> "idle", act |-> NoAction]
Doing(step, act) == [step |-> step, act |-> act]

VARIABLES
    clock,     \* Live, Expired or Late; every server and worker reads it
    poll,      \* expo_push_receipt_polls by attempt
    resend,    \* expo_push_retry_schedules: source attempts with a next one
    queue,     \* attempt references of next attempts on the push queue
    truth,     \* the facts about each attempt
    invalid,   \* devices taken off the list as no longer registered
    work,      \* what each poller is doing with each row it claimed
    faults     \* bound
vars == <<clock, poll, resend, queue, truth, invalid, work, faults>>

Bound(a)      == poll[a] # NoRow
Rows          == {a \in Attempts : Bound(a)}
Decided(a)    == Bound(a) /\ poll[a].decided # NoAction
ToBeResent(a) == Bound(a) /\ poll[a].pending = Resend

Init ==
    /\ clock = Live
    /\ poll = [a \in Attempts |-> NoRow]
    /\ resend = {}
    /\ queue = {}
    /\ truth = [a \in Attempts |-> <<>>]
    /\ invalid = {}
    /\ work = [w \in Pollers \X Attempts |-> Idle]
    /\ faults = 0

-----------------------------------------------------------------------------
(* Sending                                                                 *)

Tick ==
    /\ clock < Late
    /\ clock' = clock + 1
    /\ UNCHANGED <<poll, resend, queue, truth, invalid, work, faults>>

Ready(a) ==
    /\ clock = Live
    /\ Device(a) \notin invalid
    /\ Number(a) = 1 \/ a \in queue

\* The batch is worked on, or the reference of a next attempt resolves to it,
\* and Expo accepts the push under a receipt id.
Send(a, id) ==
    /\ Ready(a)
    /\ truth[a] = <<>>
    /\ truth' = [truth EXCEPT ![a] = <<Attempted, Accepted(id)>>]
    /\ UNCHANGED <<clock, poll, resend, queue, invalid, work, faults>>

ReceiptOf(a) == truth[a][2].ref

\* Rows that a second binding of a receipt turns into collisions.
Unsettled(a, id) ==
    poll[a] # NoRow /\ poll[a].id = id /\ poll[a].pending = NoAction
                    /\ poll[a].decided = NoAction

\* The worker that saw the acceptance, or sees it again on redelivery, binds
\* the receipt: alone, or as one of several attempts under one id.  Repeating
\* it changes nothing.
ScheduleReceipt(a) ==
    /\ Len(truth[a]) > 1
    /\ poll[a] = NoRow
    /\ Number(a) = 1 \/ a \in queue
    /\ LET id == ReceiptOf(a)
           shared == \E b \in Rows : poll[b].id = id
           new == [id |-> id, state |-> IF shared THEN "conflict" ELSE "unique",
                   pending |-> NoAction, last |-> Null, lease |-> Nobody,
                   decided |-> NoAction]
       IN poll' = [b \in Attempts |->
                      CASE b = a -> new
                        [] b # a /\ Unsettled(b, id) -> [poll[b] EXCEPT !.state = "conflict"]
                        [] OTHER -> poll[b]]
    /\ queue' = queue \ {a}
    /\ UNCHANGED <<clock, resend, truth, invalid, work, faults>>

\* resolveRetry says the next attempt is expired or its device ineligible, or
\* the attempt is found done: the reference is deleted.
DropReference(a) ==
    /\ a \in queue
    /\ \/ truth[a] = <<>> /\ (clock > Live \/ Device(a) \in invalid)
       \/ Bound(a)
    /\ queue' = queue \ {a}
    /\ UNCHANGED <<clock, poll, resend, truth, invalid, work, faults>>

\* The worker stops between the acceptance and the binding, and the reference
\* comes back when it no longer resolves.
DropAccepted(a) ==
    /\ faults < MaxFaults
    /\ a \in queue
    /\ Len(truth[a]) > 1
    /\ ~Bound(a)
    /\ clock > Live \/ Device(a) \in invalid
    /\ queue' = queue \ {a}
    /\ faults' = faults + 1
    /\ UNCHANGED <<clock, poll, resend, truth, invalid, work>>

-----------------------------------------------------------------------------
(* Polling: runDue                                                         *)

\* executePendingAction: what is done about a staged outcome.
Resume(act) == Doing(IF act = Resend THEN "resend" ELSE "record", act)

\* What a rate-exceeded receipt leads to: another attempt, nothing as the hour
\* is over before it could start, or nothing as the budget is spent.
AfterRateExceeded(a) ==
    IF clock > Live THEN {Expiry}
    ELSE {Expiry, IF Number(a) < MaxSend THEN Resend ELSE Failure("exhausted")}

\* What a poller means to write after it has read Expo's answer.
AfterAnswer(a, answer) ==
    CASE answer = "ok"      -> {Doing("complete", Completion)}
      [] answer = "missing" -> {Doing("reschedule", NoAction)}
      [] answer = "rate"    -> {Doing("stage", act) : act \in AfterRateExceeded(a)}
      [] OTHER              -> {Doing("stage", Failure(answer))}

\* runDue up to the first write about a row: what is staged is resumed, a
\* collision and a passed horizon are staged, anything else is asked for.
FirstStep(a) ==
    LET row == poll[a]
    IN CASE row.pending # NoAction ->
               {Resume(row.pending)}
         [] row.pending = NoAction /\ row.state = "conflict" -> {Doing("stage", Collision)}
         [] row.pending = NoAction /\ row.state = "unique" /\ clock = Late ->
               {Doing("stage", Doubt(IF row.last = Null THEN "horizon" ELSE row.last))}
         [] OTHER -> UNION {AfterAnswer(a, answer) : answer \in Answers}

\* claimDueReceipts and the query of Expo, which changes nothing here.
Claim(p, a) ==
    /\ poll[a] # NoRow
    /\ poll[a].decided = NoAction
    /\ poll[a].lease = Nobody
    /\ work[<<p, a>>] = Idle
    /\ poll' = [poll EXCEPT ![a].lease = p]
    /\ \E first \in FirstStep(a) : work' = [work EXCEPT ![<<p, a>>] = first]
    /\ UNCHANGED <<clock, resend, queue, truth, invalid, faults>>

-----------------------------------------------------------------------------
(* Deciding: decideReceipt                                                 *)

\* Variant: any poller that once held the row may write it.
LeaseHeldOnce(p, a) == poll[a].decided = NoAction

LeaseHeld(p, a) == poll[a].lease = p /\ poll[a].decided = NoAction

\* Variant: a collision does not change what the row accepts.
HeardAlways(a, act) == TRUE

\* A row in collision accepts no word but that it is one.
Heard(a, act) == poll[a].state = "conflict" => act = Collision

\* A staged row is decided as it was staged.
Agrees(a, act) ==
    poll[a].pending # NoAction =>
        act.state = poll[a].pending.state /\ act.reason = poll[a].pending.reason

\* One decision in one transaction: written, or refused and the item fails.
Decide(p, a, ok, row, next) ==
    /\ IF ok
       THEN /\ poll' = [poll EXCEPT ![a] = row]
            /\ work' = [work EXCEPT ![<<p, a>>] = next]
       ELSE /\ work' = [work EXCEPT ![<<p, a>>] = Idle]
            /\ UNCHANGED poll
    /\ UNCHANGED <<clock, resend, queue, truth, invalid, faults>>

Stage(p, a) ==
    /\ work[<<p, a>>].step = "stage"
    /\ LET act == work[<<p, a>>].act
       IN Decide(p, a, LeaseHeld(p, a) /\ Heard(a, act),
                 [poll[a] EXCEPT !.pending = act],
                 Resume(act))

Reschedule(p, a) ==
    /\ work[<<p, a>>].step = "reschedule"
    /\ Decide(p, a,
              LeaseHeld(p, a) /\ poll[a].state = "unique" /\ poll[a].pending = NoAction,
              [poll[a] EXCEPT !.last = "missing", !.lease = Nobody], Idle)

\* complete, terminal-dlq and resend-scheduled.
Conclude(p, a) ==
    /\ work[<<p, a>>].step \in {"complete", "decide"}
    /\ LET act == work[<<p, a>>].act
       IN Decide(p, a, LeaseHeld(p, a) /\ Heard(a, act) /\ Agrees(a, act),
                 [poll[a] EXCEPT !.lease = Nobody, !.pending = NoAction, !.decided = act],
                 Idle)

-----------------------------------------------------------------------------
(* Acting on what was staged                                               *)

\* Variant: the deadline is looked at before the retained schedule.
RetryStepByDeadline(a) ==
    CASE clock > Live    -> Doing("record", Expiry)
      [] OTHER           -> Doing("publish", Resend)

\* scheduleRetry: a schedule that exists is given again whatever the time; a
\* new one is made only before the deadline.
RetryStep(a) ==
    CASE a \in resend                   -> Doing("publish", Resend)
      [] a \notin resend /\ clock > Live -> Doing("record", Expiry)
      [] OTHER                          -> Doing("publish", Resend)

ScheduleRetry(p, a) ==
    /\ work[<<p, a>>].step = "resend"
    /\ work' = [work EXCEPT ![<<p, a>>] = RetryStep(a)]
    /\ resend' = IF RetryStep(a).step = "publish" THEN resend \cup {a} ELSE resend
    /\ UNCHANGED <<clock, poll, queue, truth, invalid, faults>>

\* The reference of the next attempt is put on the queue, again if need be.
Publish(p, a) ==
    /\ work[<<p, a>>].step = "publish"
    /\ queue' = queue \cup {Next2(a)}
    /\ work' = [work EXCEPT ![<<p, a>>].step = "record"]
    /\ UNCHANGED <<clock, poll, resend, truth, invalid, faults>>

AfterRecord(act) == IF act.reason = "unregistered" THEN "invalidate" ELSE "decide"

\* recordAttemptEvidence: the fact is retained or the item fails.
Record(p, a) ==
    /\ work[<<p, a>>].step = "record"
    /\ LET act == work[<<p, a>>].act
           fact == Learnt(act, poll[a].id)
       IN IF Reply(truth[a], fact) = "refuse"
          THEN /\ work' = [work EXCEPT ![<<p, a>>] = Idle]
               /\ UNCHANGED truth
          ELSE /\ truth' = [truth EXCEPT ![a] = Recorded(@, fact)]
               /\ work' = [work EXCEPT ![<<p, a>>].step = AfterRecord(act)]
    /\ UNCHANGED <<clock, poll, resend, queue, invalid, faults>>

Invalidate(p, a) ==
    /\ work[<<p, a>>].step = "invalidate"
    /\ invalid' = invalid \cup {Device(a)}
    /\ work' = [work EXCEPT ![<<p, a>>].step = "decide"]
    /\ UNCHANGED <<clock, poll, resend, queue, truth, faults>>

-----------------------------------------------------------------------------
(* Faults                                                                  *)

\* The poller stops, or never learns what became of its last call.
Crash(p, a) ==
    /\ faults < MaxFaults
    /\ work[<<p, a>>] # Idle
    /\ work' = [work EXCEPT ![<<p, a>>] = Idle]
    /\ faults' = faults + 1
    /\ UNCHANGED <<clock, poll, resend, queue, truth, invalid>>

\* A lease ends while its poller is still at work.
Overrun(p, a) ==
    /\ faults < MaxFaults
    /\ poll[a] # NoRow
    /\ poll[a].lease = p
    /\ work[<<p, a>>] # Idle
    /\ poll' = [poll EXCEPT ![a].lease = Nobody]
    /\ faults' = faults + 1
    /\ UNCHANGED <<clock, resend, queue, truth, invalid, work>>

\* A lease ends whose poller has given up.
Release(a) ==
    /\ poll[a] # NoRow
    /\ poll[a].lease # Nobody
    /\ work[<<poll[a].lease, a>>] = Idle
    /\ poll' = [poll EXCEPT ![a].lease = Nobody]
    /\ UNCHANGED <<clock, resend, queue, truth, invalid, work, faults>>

-----------------------------------------------------------------------------
Go(p, a) ==
    \/ Stage(p, a) \/ Reschedule(p, a) \/ Conclude(p, a)
    \/ ScheduleRetry(p, a) \/ Publish(p, a) \/ Record(p, a) \/ Invalidate(p, a)

Next ==
    \/ Tick
    \/ \E a \in Attempts :
           \/ \E id \in Ids : Send(a, id)
           \/ ScheduleReceipt(a)
           \/ DropReference(a)
           \/ DropAccepted(a)
           \/ Release(a)
           \/ \E p \in Pollers :
                  \/ Claim(p, a) \/ Go(p, a) \/ Crash(p, a) \/ Overrun(p, a)

Spec == Init /\ [][Next]_vars

\* Time passes, leases end, the service loop polls again, and a poller that is
\* not stopped finishes what it began.
Fairness ==
    /\ WF_vars(Tick)
    /\ \A a \in Attempts :
           /\ WF_vars(ScheduleReceipt(a))
           /\ WF_vars(Release(a))
           /\ WF_vars(\E p \in Pollers : Claim(p, a))
           /\ \A p \in Pollers : WF_vars(Go(p, a))

FairSpec == Spec /\ Fairness

-----------------------------------------------------------------------------
(* Properties                                                              *)

Facts(a) == {truth[a][i] : i \in DOMAIN truth[a]}

RowSet ==
    [id : Ids, state : {"unique", "conflict"}, pending : Staged \cup {NoAction},
     last : {Null, "missing"}, lease : Pollers \cup {Nobody},
     decided : Staged \cup {NoAction, Completion}]

TypeOK ==
    /\ clock \in Live..Late
    /\ \A a \in Attempts : poll[a] = NoRow \/ poll[a] \in RowSet
    /\ resend \subseteq {a \in Attempts : Number(a) < MaxSend}
    /\ queue \subseteq {a \in Attempts : Number(a) > 1}
    /\ \A a \in Attempts : \A f \in Facts(a) : f.state \in States
    /\ invalid \subseteq Devices
    /\ \A w \in Pollers \X Attempts :
           /\ work[w].step \in {"idle", "stage", "reschedule", "complete", "resend",
                                "publish", "record", "invalidate", "decide"}
           /\ work[w].act \in Staged \cup {NoAction, Completion}
    /\ faults \in 0..MaxFaults

\* A row is decided only as the attempt's facts already say: a failure, an
\* expiry or a doubt is among them, and a receipt without an error leaves
\* nothing but the acceptance (recordTerminal and scheduleResend record before
\* they decide; complete records nothing).
DecidedAsRecorded ==
    \A a \in Rows :
        LET d == poll[a].decided
        IN CASE d = NoAction   -> TRUE
             [] d = Completion -> Facts(a) = {Attempted, Accepted(poll[a].id)}
             [] OTHER          -> Learnt(d, poll[a].id) \in Facts(a)

\* An attempt that is to be sent again is one that failed: no poller, however
\* late, records it as expired or in doubt, and its row says nothing else
\* (an exact schedule is given again after its deadline).
ResentMeansFailed ==
    \A a \in resend :
        /\ Resend \in {poll[a].pending, poll[a].decided}
        /\ Facts(a) \subseteq {Attempted, Accepted(poll[a].id), Learnt(Resend, poll[a].id)}

\* A receipt id that two attempts share speaks for neither: what a row in
\* collision has staged or decided is the collision, and no other fact than
\* doubt is recorded of its attempt after its acceptance.
CollisionSpeaksForNobody ==
    \A a \in Rows : poll[a].state = "conflict" =>
        /\ {poll[a].pending, poll[a].decided} \subseteq {NoAction, Collision}
        /\ Facts(a) \subseteq {Attempted, Accepted(poll[a].id), Learnt(Collision, poll[a].id)}

\* A device is taken off the list only on a recorded fact, learnt from a
\* receipt that belonged to one of its attempts alone.
DeviceDroppedOnProof ==
    \A d \in invalid : \E a \in Rows :
        /\ Device(a) = d
        /\ poll[a].state = "unique"
        /\ Learnt(Failure("unregistered"), poll[a].id) \in Facts(a)

\* What is staged stays staged until the row is decided with the same state
\* and reason, and a decided row never changes again.
StagedKept ==
    \A a \in Rows :
        /\ poll[a].pending # NoAction =>
              \/ poll'[a].pending = poll[a].pending
              \/ /\ poll'[a].pending = NoAction
                 /\ poll'[a].decided.state = poll[a].pending.state
                 /\ poll'[a].decided.reason = poll[a].pending.reason
        /\ poll[a].decided # NoAction => poll'[a] = poll[a]
StagedIsFinal == [][StagedKept]_vars

\* Every receipt that is bound is decided, but for a push that was to be sent
\* again and whose hour ended before the next attempt was scheduled.
AllDecided ==
    \A a \in Rows : Decided(a) \/ (ToBeResent(a) /\ a \notin resend)
BoundIsDecided == <>[]AllDecided

\* receipt-lifecycle.test.ts: a staged resend whose push has expired ends as
\* expired.
StagedResendEnds ==
    \A a \in Attempts :
        ToBeResent(a) ~> Decided(a)

\* docs/INTEGRATIONS.md: each accepted send schedules a receipt poll.
AcceptedIsPolled ==
    \A a \in Attempts : (Len(truth[a]) > 1) ~> Bound(a)
=============================================================================
