----------------------------- MODULE SmsAttempt -----------------------------
(***************************************************************************)
(* One recipient's text, from the queue to AWS End User Messaging and back *)
(* (workers/sms/service.ts, worker.ts, aws-eum-adapter.ts and              *)
(* delivery-events.ts, workers/shared/processor.ts,                        *)
(* packages/server/lib/notify/sms-runtime-store.ts).                       *)
(*                                                                         *)
(* A text differs from an email (AttemptExecution) in three ways.  Its     *)
(* ledger row keeps errors too and is consulted before the execution lease *)
(* is claimed, so that a later run settles what an earlier one left.  The  *)
(* authorization is read once more after the ledger row is claimed.  And   *)
(* the carrier's receipts name the message, not the attempt, and are given *)
(* up when nobody knows the message for long enough.  A call that fails    *)
(* ends a run as a crash would, except where the code makes it an answer.  *)
(***************************************************************************)
EXTENDS DeliveryTruth

CONSTANTS
    Workers,          \* poll loops of the work queue, in any task
    NoWorker,         \* model value: nobody
    MaxAttempts,      \* DEFAULT_RETRY_POLICY.maxAttempts
    Statuses,         \* what carriers may report of a message
    Contexts,         \* TRUE in it: receipts carry the attempt and its token
    HoldersBeatLease, \* TRUE: a worker is done before its lease ends
    MaxFaults         \* bound on crashes and failed calls

ASSUME RetryPolicyAssumption == MaxAttempts \in Nat \ {0}
ASSUME NobodyAssumption == NoWorker \notin Workers
ASSUME SwitchesAssumption ==
    /\ Statuses \subseteq {"delivered", "failed", "expired", "unknown"}
    /\ Contexts \subseteq BOOLEAN
    /\ HoldersBeatLease \in BOOLEAN /\ MaxFaults \in Nat

VARIABLES
    exec,       \* channel_attempt_executions of each attempt
    io,         \* sms_provider_io of each attempt
    evidence,   \* delivery_evidence of each attempt
    queued,     \* attempts whose message is on the work queue
    texts,      \* messages AWS accepted for each attempt
    reported,   \* statuses the carrier reported of an attempt's message
    ignored,    \* those the worker gave up
    enabled,    \* the channel sends, and the batch's lifecycle is current
    listed,     \* the roster and its opt-outs still give the number
    expired,    \* SMS_TOTAL_LIFETIME_SECONDS have passed
    pc,         \* where each worker is
    job,        \* the attempt it works on
    answer,     \* what it will record
    faults      \* crashes and failed calls so far

records  == <<exec, io, evidence>>
carrier  == <<texts, reported, ignored>>
policy   == <<enabled, listed, expired>>
work     == <<pc, job, answer>>
vars     == <<records, queued, carrier, policy, work, faults>>

Attempts == 1..MaxAttempts

\* An answer is a provider outcome and whether it schedules another attempt.
Answer(outcome, retry) == [outcome |-> outcome, retry |-> retry]

NoAnswer == Answer(Fact("none", Null, Null, Null), FALSE)
Final(state, ref, detail) == Answer(Fact(state, "eum", ref, detail), FALSE)
Accepted == Final("provider-accepted", "message", Null)
Unknown  == Final("unknown", Null, "AMBIGUOUS")
OptedOut == Final("failed", Null, "OPTED_OUT")
Rejected == Final("failed", Null, "REJECTED")
Denied   == Final("failed", Null, "UNAUTHORIZED")
Exhausted == Final("failed", Null, "RETRY_EXHAUSTED")
Throttled == Answer(Fact("failed", "eum", Null, "THROTTLED"), TRUE)
Unasked   == Answer(Fact("failed", "eum", Null, "AUTHORIZATION_UNAVAILABLE"), TRUE)

Answers == {NoAnswer, Accepted, Unknown, OptedOut, Rejected, Denied, Exhausted,
            Throttled, Unasked}

\* evidenceFor: what a receipt says of the attempt.
Receipt(status) ==
    Fact(status, "eum", "message", IF status = "delivered" THEN "proof" ELSE "CARRIER")

\* A ledger row says nothing, or that a send was claimed, or how it went.
NoRow     == NoAnswer
ClaimedRow == Answer(Fact("claimed", Null, Null, Null), FALSE)

NoExecution == [holder |-> NoWorker, live |-> FALSE, done |-> NoAnswer]

Steps == {"idle", "lookup", "recover", "adopt", "settle", "claim", "authorize",
          "attempted", "reauthorize", "release", "ledger", "gate", "send",
          "record", "complete", "replay", "outcome", "schedule", "optout", "ack"}

TypeOK ==
    /\ exec \in [Attempts -> [holder : Workers \cup {NoWorker}, live : BOOLEAN,
                              done : Answers]]
    /\ \A n \in Attempts : exec[n].live \/ exec[n].done # NoAnswer =>
          exec[n].holder # NoWorker
    /\ io \in [Attempts -> {NoRow, ClaimedRow} \cup Answers]
    /\ evidence \in [Attempts -> Seq({Attempted} \cup {a.outcome : a \in Answers \ {NoAnswer}}
                                        \cup {Receipt(s) : s \in Statuses})]
    /\ queued \subseteq Attempts
    /\ texts \in [Attempts -> 0..1]
    /\ reported \in [Attempts -> SUBSET Statuses]
    /\ \A n \in Attempts : ignored[n] \subseteq reported[n]
    /\ enabled \in BOOLEAN /\ listed \in BOOLEAN /\ expired \in BOOLEAN
    /\ pc \in [Workers -> Steps]
    /\ job \in [Workers -> Attempts]
    /\ answer \in [Workers -> Answers]
    /\ faults \in 0..MaxFaults

Init ==
    /\ exec = [n \in Attempts |-> NoExecution]
    /\ io = [n \in Attempts |-> NoRow]
    /\ evidence = [n \in Attempts |-> <<>>]
    /\ queued = {1}
    /\ texts = [n \in Attempts |-> 0]
    /\ reported = [n \in Attempts |-> {}]
    /\ ignored = [n \in Attempts |-> {}]
    /\ enabled = TRUE /\ listed = TRUE /\ expired = FALSE
    /\ pc = [w \in Workers |-> "idle"]
    /\ job = [w \in Workers |-> 1]
    /\ answer = [w \in Workers |-> NoAnswer]
    /\ faults = 0
-----------------------------------------------------------------------------
Free(n)  == exec[n].done = NoAnswer /\ ~exec[n].live
Owns(w)  == exec[job[w]].holder = w

\* authorizeProviderSend: batch, enablement, endpoint, lifecycle and lifetime.
Sendable == enabled /\ listed /\ ~expired

\* decideProviderRetry: the last attempt schedules no other.
Decision(n, a) == IF a.retry /\ n = MaxAttempts THEN Exhausted ELSE a

\* Variant: a send somebody claimed and did not complete is tried again.
SettledByRepeating(row) == IF row = ClaimedRow THEN Throttled ELSE row

\* replayCompletion, and AWS_EUM_LEDGER_INDETERMINATE for an unfinished claim.
Settled(row) == IF row = ClaimedRow THEN Unknown ELSE row

\* The worker goes on, or lets go; the message stays on the queue.
GoTo(w, step) == pc' = [pc EXCEPT ![w] = step] /\ UNCHANGED job
LetGo(w) == GoTo(w, "idle") /\ answer' = [answer EXCEPT ![w] = NoAnswer]
With(w, a, step) == answer' = [answer EXCEPT ![w] = a] /\ GoTo(w, step)

Hold(w, n) == [exec EXCEPT ![n] = [holder |-> w, live |-> TRUE, done |-> NoAnswer]]

AFault == faults < MaxFaults /\ faults' = faults + 1
-----------------------------------------------------------------------------
\* Variant: a message is deleted when it is received.
StaysWhileUnread(n) == FALSE

\* A message is deleted when its work is done.
StaysMeanwhile(n) == n \in queued

\* resolveBatch or resolveRetry: what has expired, or is no longer listed, is
\* taken off the queue.
Fetch(w, n) ==
    /\ pc[w] = "idle" /\ n \in queued
    /\ IF listed /\ ~expired
       THEN /\ pc' = [pc EXCEPT ![w] = "lookup"]
            /\ job' = [job EXCEPT ![w] = n]
            /\ queued' = IF StaysMeanwhile(n) THEN queued ELSE queued \ {n}
       ELSE queued' = queued \ {n} /\ UNCHANGED <<pc, job>>
    /\ UNCHANGED <<records, carrier, policy, answer, faults>>

\* AttemptExecutionStore.lookup.
Lookup(w) ==
    /\ pc[w] = "lookup"
    /\ LET n == job[w] IN
       CASE exec[n].done # NoAnswer -> With(w, exec[n].done, "replay")
         [] Free(n) -> GoTo(w, "recover") /\ UNCHANGED answer
         [] OTHER -> LetGo(w)
    /\ UNCHANGED <<records, queued, carrier, policy, faults>>

\* AwsEumSmsAdapter.recover reads the ledger before anything is claimed.
Recover(w) ==
    /\ pc[w] = "recover"
    /\ LET n == job[w] IN
       IF io[n] = NoRow THEN GoTo(w, "claim") /\ UNCHANGED answer
                        ELSE With(w, Decision(n, Settled(io[n])), "adopt")
    /\ UNCHANGED <<records, queued, carrier, policy, faults>>

\* AttemptExecutionStore.claim, on the way to a send or to store what the
\* ledger knows.
Claim(w) ==
    /\ pc[w] \in {"claim", "adopt"}
    /\ LET n == job[w] IN
       \/ /\ exec[n].done # NoAnswer
          /\ With(w, exec[n].done, "replay") /\ UNCHANGED exec
       \/ /\ exec[n].live
          /\ LetGo(w) /\ UNCHANGED exec
       \/ /\ Free(n)
          /\ exec' = Hold(w, n)
          /\ GoTo(w, IF pc[w] = "adopt" THEN "settle" ELSE "authorize")
          /\ UNCHANGED answer
    /\ UNCHANGED <<io, evidence, queued, carrier, policy, faults>>

\* providerSendIsAuthorized, before the attempt is recorded and after it.
Authorize(w) ==
    /\ pc[w] \in {"authorize", "reauthorize"}
    /\ GoTo(w, CASE ~Sendable -> "release"
                 [] Sendable /\ pc[w] = "authorize" -> "attempted"
                 [] OTHER -> "ledger")
    /\ UNCHANGED <<records, queued, carrier, policy, answer, faults>>

WriteAttempted(w) ==
    /\ pc[w] = "attempted"
    /\ evidence' = [evidence EXCEPT ![job[w]] = Recorded(@, Attempted)]
    /\ GoTo(w, "reauthorize")
    /\ UNCHANGED <<exec, io, queued, carrier, policy, answer, faults>>

\* An authorization that cannot be read is a denial, and an announcement that
\* cannot be written ends the run.
GiveWay(w) ==
    /\ pc[w] \in {"authorize", "reauthorize", "attempted"} /\ AFault
    /\ GoTo(w, "release")
    /\ UNCHANGED <<records, queued, carrier, policy, answer>>

\* release deletes the lease that is still this worker's and not completed.
Release(w) ==
    /\ pc[w] = "release"
    /\ exec' = IF Owns(w) /\ exec[job[w]].done = NoAnswer
               THEN [exec EXCEPT ![job[w]] = NoExecution] ELSE exec
    /\ LetGo(w)
    /\ UNCHANGED <<io, evidence, queued, carrier, policy, faults>>

\* claimProviderIo inserts the attempt's only row.
Permit(n) == io[n] = NoRow

\* AwsEumSmsAdapter.send: the ledger gives the attempt's only permit, or says
\* what became of it.
ClaimSend(w) ==
    /\ pc[w] = "ledger"
    /\ LET n == job[w] IN
       IF Permit(n) THEN /\ io' = [io EXCEPT ![n] = ClaimedRow]
                         /\ GoTo(w, "gate") /\ UNCHANGED answer
                    ELSE With(w, Settled(io[n]), "complete") /\ UNCHANGED io
    /\ UNCHANGED <<exec, evidence, queued, carrier, policy, faults>>

\* AWS_EUM_LEDGER_UNAVAILABLE: the ledger may have acted or not.
ClaimSendFails(w) ==
    /\ pc[w] = "ledger" /\ AFault
    /\ \/ UNCHANGED io
       \/ Permit(job[w]) /\ io' = [io EXCEPT ![job[w]] = ClaimedRow]
    /\ With(w, Unknown, "complete")
    /\ UNCHANGED <<exec, evidence, queued, carrier, policy>>

\* Truth is read once more behind the ledger's fence.
Gate(w) ==
    /\ pc[w] = "gate"
    /\ IF Sendable THEN GoTo(w, "send") /\ UNCHANGED answer
                   ELSE With(w, Denied, "record")
    /\ UNCHANGED <<records, queued, carrier, policy, faults>>

\* AWS_EUM_AUTHORIZATION_UNAVAILABLE: nothing was sent, another attempt may.
GateFails(w) ==
    /\ pc[w] = "gate" /\ AFault
    /\ With(w, Unasked, "record")
    /\ UNCHANGED <<records, queued, carrier, policy>>

\* sendTextMessage: <<messages AWS accepts, what the worker learns>>.
SendResults ==
    {<<1, Accepted>>, <<1, Unknown>>, <<0, Unknown>>, <<0, Throttled>>,
     <<0, Rejected>>, <<0, OptedOut>>}

Send(w) ==
    /\ pc[w] = "send"
    /\ \E r \in SendResults :
          /\ texts' = [texts EXCEPT ![job[w]] = @ + r[1]]
          /\ With(w, r[2], "record")
    /\ UNCHANGED <<records, queued, reported, ignored, policy, faults>>

\* completeProviderIo keeps the outcome or the error.
RecordSend(w) ==
    /\ pc[w] = "record"
    /\ io' = [io EXCEPT ![job[w]] = IF @ = ClaimedRow THEN answer[w] ELSE @]
    /\ GoTo(w, "complete")
    /\ UNCHANGED <<exec, evidence, queued, carrier, policy, answer, faults>>

\* AWS_EUM_LEDGER_COMMIT_AMBIGUOUS, whether or not the ledger has the answer.
RecordSendFails(w) ==
    /\ pc[w] = "record" /\ AFault
    /\ \/ UNCHANGED io
       \/ io' = [io EXCEPT ![job[w]] = IF @ = ClaimedRow THEN answer[w] ELSE @]
    /\ With(w, Unknown, "complete")
    /\ UNCHANGED <<exec, evidence, queued, carrier, policy>>

\* AttemptExecutionStore.complete; ATTEMPT_LEASE_CONFLICT ends the run.
Complete(w) ==
    /\ pc[w] \in {"complete", "settle"}
    /\ LET n == job[w] IN
       IF Owns(w) /\ exec[n].done = NoAnswer
       THEN /\ exec' = [exec EXCEPT ![n].done = Decision(n, answer[w]),
                                    ![n].live = FALSE]
            /\ With(w, Decision(n, answer[w]),
                    IF pc[w] = "settle" THEN "replay" ELSE "outcome")
       ELSE LetGo(w) /\ UNCHANGED exec
    /\ UNCHANGED <<io, evidence, queued, carrier, policy, faults>>

\* writeCompletion of an attempt that was completed before.
Replay(w) ==
    /\ pc[w] = "replay"
    /\ evidence' = [evidence EXCEPT ![job[w]] = Recorded(@, Attempted)]
    /\ GoTo(w, "outcome")
    /\ UNCHANGED <<exec, io, queued, carrier, policy, answer, faults>>

\* What an outcome asks for besides its evidence.
AfterOutcome(a) ==
    CASE a.retry -> "schedule"
      [] a.outcome.detail = "OPTED_OUT" -> "optout"
      [] OTHER -> "ack"

\* The outcome becomes evidence; one the store refuses retires the message.
WriteOutcome(w) ==
    /\ pc[w] = "outcome"
    /\ LET n == job[w] IN
       IF Reply(evidence[n], answer[w].outcome) = "refuse"
       THEN GoTo(w, "ack") /\ UNCHANGED evidence
       ELSE /\ evidence' = [evidence EXCEPT ![n] = Recorded(@, answer[w].outcome)]
            /\ GoTo(w, AfterOutcome(answer[w]))
    /\ UNCHANGED <<exec, io, queued, carrier, policy, answer, faults>>

\* scheduleRetry and the publication of the next attempt's reference.
Schedule(w) ==
    /\ pc[w] = "schedule"
    /\ queued' = IF expired THEN queued ELSE queued \cup {job[w] + 1}
    /\ GoTo(w, "ack")
    /\ UNCHANGED <<records, carrier, policy, answer, faults>>

\* recordAwsManagedOptOutConflict.
RecordOptOut(w) ==
    /\ pc[w] = "optout"
    /\ listed' = FALSE
    /\ GoTo(w, "ack")
    /\ UNCHANGED <<records, queued, carrier, enabled, expired, answer, faults>>

\* DeleteMessage.
Acknowledge(w) ==
    /\ pc[w] = "ack"
    /\ queued' = queued \ {job[w]}
    /\ LetGo(w)
    /\ UNCHANGED <<records, carrier, policy, faults>>

Crash(w) ==
    /\ pc[w] # "idle" /\ AFault
    /\ LetGo(w)
    /\ UNCHANGED <<records, queued, carrier, policy>>
-----------------------------------------------------------------------------
WorksOn(w, n) == pc[w] # "idle" /\ job[w] = n

\* Between the claim of the lease and its completion or release.
Holds(w, n) == WorksOn(w, n) /\ pc[w] \in
    {"settle", "authorize", "attempted", "reauthorize", "release", "ledger",
     "gate", "send", "record", "complete"}

\* A lease ends, whatever its holder is doing unless HoldersBeatLease.
LeaseExpires(n) ==
    /\ exec[n].live
    /\ HoldersBeatLease => ~Holds(exec[n].holder, n)
    /\ exec' = [exec EXCEPT ![n].live = FALSE]
    /\ UNCHANGED <<io, evidence, queued, carrier, policy, work, faults>>

\* The carrier reports a status, in any order and any number of times.
Report(n, s) ==
    /\ texts[n] > 0 /\ s \notin reported[n]
    /\ reported' = [reported EXCEPT ![n] = @ \cup {s}]
    /\ UNCHANGED <<records, queued, texts, ignored, policy, work, faults>>

Named(n) == \E i \in DOMAIN evidence[n] : evidence[n][i].ref = "message"

\* loadUnknownAttempt: the latest fact is doubt without a message.
Doubtful(n) == evidence[n] # <<>> /\ Latest(evidence[n]) = Unknown.outcome

\* loadAttemptByProviderReference, or the receipt's own context.
Correlated(n, context) == Named(n) \/ (context /\ Doubtful(n))

\* SmsDeliveryEventProcessor.process; what the store refuses is set aside.
Hear(n, s, context) ==
    /\ s \in reported[n] \ ignored[n] /\ Correlated(n, context)
    /\ evidence' = [evidence EXCEPT ![n] = Recorded(@, Receipt(s))]
    /\ evidence' # evidence
    /\ UNCHANGED <<exec, io, queued, carrier, policy, work, faults>>

\* UNMATCHED_RECEIPT, once more than a redelivered attempt needs to be settled:
\* the receipt is taken for a message this system never sent.
GiveUpReceipt(n, s) ==
    /\ s \in reported[n] \ ignored[n] /\ ~Named(n) /\ FALSE \in Contexts
    /\ n \notin queued /\ \A w \in Workers : ~WorksOn(w, n)
    /\ ignored' = [ignored EXCEPT ![n] = @ \cup {s}]
    /\ UNCHANGED <<records, queued, texts, reported, policy, work, faults>>

\* The channel is switched off, or the event moves on.
Stop ==
    /\ enabled /\ enabled' = FALSE
    /\ UNCHANGED <<records, queued, carrier, listed, expired, work, faults>>

\* Consent is withdrawn elsewhere, or the number leaves the audience.
Withdraw ==
    /\ listed /\ listed' = FALSE
    /\ UNCHANGED <<records, queued, carrier, enabled, expired, work, faults>>

Expire ==
    /\ ~expired /\ expired' = TRUE
    /\ UNCHANGED <<records, queued, carrier, enabled, listed, work, faults>>

Step(w) == \/ Lookup(w) \/ Recover(w) \/ Claim(w) \/ Authorize(w)
           \/ WriteAttempted(w) \/ Release(w) \/ ClaimSend(w) \/ Gate(w)
           \/ Send(w) \/ RecordSend(w) \/ Complete(w) \/ Replay(w)
           \/ WriteOutcome(w) \/ Schedule(w) \/ RecordOptOut(w) \/ Acknowledge(w)

Fault(w) == \/ GiveWay(w) \/ ClaimSendFails(w) \/ GateFails(w)
            \/ RecordSendFails(w) \/ Crash(w)

Next == \/ \E w \in Workers : Step(w) \/ Fault(w)
        \/ \E w \in Workers, n \in Attempts : Fetch(w, n)
        \/ \E n \in Attempts : LeaseExpires(n)
        \/ \E n \in Attempts, s \in Statuses : Report(n, s) \/ GiveUpReceipt(n, s)
        \/ \E n \in Attempts, s \in Statuses, c \in Contexts : Hear(n, s, c)
        \/ Stop \/ Withdraw \/ Expire

Spec == Init /\ [][Next]_vars

\* Workers keep running, leases end, the queue hands over again what nobody
\* deleted, and receipts are read.
FairSpec ==
    /\ Spec
    /\ \A w \in Workers : WF_vars(Step(w))
    /\ \A n \in Attempts :
          /\ WF_vars(LeaseExpires(n))
          /\ SF_vars(\E w \in Workers : Fetch(w, n))
-----------------------------------------------------------------------------
(* Properties. *)

\* A recipient gets one text: whatever is lost, taken over or repeated, no two
\* sends are accepted, of one attempt or of successive ones.
OneTextPerRecipient ==
    \A m, n \in Attempts : texts[m] > 0 /\ texts[n] > 0 => m = n

\* A message AWS accepted is called failed by its carrier only, and nothing is
\* called accepted or delivered that AWS did not accept.
ReportsAreTrue ==
    \A n \in Attempts : \A i \in DOMAIN evidence[n] :
        LET f == evidence[n][i] IN
        /\ f.state = "failed" /\ f.ref = Null => texts[n] = 0
        /\ f.state \in {"provider-accepted", "delivered"} => texts[n] > 0

\* A text is sent once, and what the attempt reports of it is what happened,
\* whoever else worked on it and whatever AWS answered (SMS worker, send
\* ledger); and the rows are well-formed.
OneTextAsReported == TypeOK /\ OneTextPerRecipient /\ ReportsAreTrue

\* A receipt of our own message is given up as foreign only if the send was in
\* doubt for us too, or was dropped with its batch: nobody who knew that AWS
\* accepted it stopped before saying so.
ForeignReceiptsOnly ==
    \A n \in Attempts : ignored[n] # {} => exec[n].done = Unknown \/ ~listed \/ expired

\* A number AWS refuses because its owner opted out is marked so, unless the
\* batch expires first.
RefusalIsLearned ==
    \A n \in Attempts : exec[n].done = OptedOut => ~listed \/ expired
OptOutsAreLearned == <>[]RefusalIsLearned

Concluded == \E n \in Attempts :
    /\ exec[n].done # NoAnswer /\ ~exec[n].done.retry
    /\ Len(evidence[n]) > 1

\* The recipient's text comes to a conclusion, over all its attempts, unless it
\* may no longer be sent.
EveryRecipientConcludes == <>[](Concluded \/ ~Sendable)

\* What service.ts says of the receipts it gives up: they name no send that
\* this system retained.
GivenUpUnretained ==
    \A n \in Attempts : ignored[n] # {} => io[n] # Accepted

\* What service.ts says of late receipts: a terminal state is never changed.
TerminalTruthKept ==
    [][\A n \in Attempts : evidence[n] # <<>> /\ Latest(evidence[n]).state \in Terminal
          => Latest(evidence'[n]).state = Latest(evidence[n]).state]_vars
=============================================================================
