-------------------------- MODULE AttemptExecution --------------------------
(***************************************************************************)
(* One recipient's email, from the queue to SES                            *)
(* (workers/shared/processor.ts, workers/email/ses-adapter.ts,             *)
(* packages/server/lib/notify/attempt-execution-store.ts and               *)
(* email-runtime-store.ts, packages/server/app/api/webhooks/ses).          *)
(*                                                                         *)
(* SES has no idempotency key, so three durable records guard one send: an *)
(* execution lease that may be taken over, a send ledger whose row, once   *)
(* claimed, is never given out again, and the attempt's delivery evidence. *)
(* A send proven to have failed schedules the next attempt, which has      *)
(* records of its own.  A call to the server that fails ends a worker's    *)
(* run as a crash would (`Crash' before the call or after it), except the  *)
(* calls whose failure the code turns into an answer.                      *)
(***************************************************************************)
EXTENDS DeliveryTruth

CONSTANTS
    Workers,        \* poll loops of the email worker, in any process
    NoWorker,       \* model value: nobody
    MaxAttempts,    \* DEFAULT_RETRY_POLICY.maxAttempts
    LedgerMayFail,  \* TRUE: a call to the send ledger may fail
    MayResume,      \* TRUE: a stopped channel may be enabled again
    HoldersBeatLease, \* TRUE: a worker is done before its lease ends
    MaxFaults       \* bound on crashes and failed calls

ASSUME RetryPolicyAssumption == MaxAttempts \in Nat \ {0}
ASSUME NobodyAssumption == NoWorker \notin Workers
ASSUME SwitchesAssumption ==
    /\ LedgerMayFail \in BOOLEAN /\ MayResume \in BOOLEAN
    /\ HoldersBeatLease \in BOOLEAN /\ MaxFaults \in Nat

VARIABLES
    exec,       \* channel_attempt_executions of each attempt
    ledger,     \* ses_email_provider_io of each attempt
    evidence,   \* delivery_evidence of each attempt
    due,        \* attempts whose retry reference was published
    sent,       \* messages SES accepted for each attempt
    eligible,   \* the batch may still be sent: channel, lifecycle, horizon
    pc,         \* where each worker is
    job,        \* the attempt it works on
    answer,     \* what it will record
    faults      \* crashes and failed calls so far

records == <<exec, ledger, evidence, due>>
work    == <<pc, job, answer>>
vars    == <<records, sent, eligible, work, faults>>

Attempts == 1..MaxAttempts

\* An answer is a provider outcome and whether it schedules another attempt.
Answer(outcome, retry) == [outcome |-> outcome, retry |-> retry]

NoOutcome        == Fact("none", Null, Null, Null)
NoAnswer         == Answer(NoOutcome, FALSE)
AcceptedOutcome  == Fact("provider-accepted", "ses", "message", Null)
DeliveredOutcome == Fact("delivered", "ses", "message", "proof")
Failed(reason)   == Fact("failed", "ses", Null, reason)
Unknown(reason)  == Fact("unknown", "ses", Null, reason)

Outcomes == {AcceptedOutcome, Unknown("AMBIGUOUS"), Unknown("ALREADY_CLAIMED"),
             Failed("REJECTED"), Failed("THROTTLED"), Failed("DENIED"),
             Failed("LEDGER_UNAVAILABLE"), Failed("RETRY_EXHAUSTED")}
Answers  == {NoAnswer} \cup [outcome : Outcomes, retry : BOOLEAN]

Steps == {"idle", "authorize", "attempted", "reauthorize", "ledger", "send",
          "record", "complete", "release", "replay", "outcome", "publish"}

TypeOK ==
    /\ exec \in [Attempts -> [holder : Workers \cup {NoWorker}, live : BOOLEAN,
                              done : Answers]]
    /\ \A n \in Attempts : exec[n].holder = NoWorker =>
          ~exec[n].live /\ exec[n].done = NoAnswer
    /\ ledger \in [Attempts -> [claimant : Workers \cup {NoWorker},
                                outcome : Outcomes \cup {NoOutcome}]]
    /\ evidence \in [Attempts -> Seq(Outcomes \cup {Attempted, DeliveredOutcome})]
    /\ due \subseteq Attempts
    /\ sent \in [Attempts -> Nat]
    /\ eligible \in BOOLEAN
    /\ pc \in [Workers -> Steps]
    /\ job \in [Workers -> Attempts]
    /\ answer \in [Workers -> Answers]
    /\ faults \in 0..MaxFaults

NoExecution == [holder |-> NoWorker, live |-> FALSE, done |-> NoAnswer]
NoSend      == [claimant |-> NoWorker, outcome |-> NoOutcome]

Init ==
    /\ exec = [n \in Attempts |-> NoExecution]
    /\ ledger = [n \in Attempts |-> NoSend]
    /\ evidence = [n \in Attempts |-> <<>>]
    /\ due = {}
    /\ sent = [n \in Attempts |-> 0]
    /\ eligible = TRUE
    /\ pc = [w \in Workers |-> "idle"]
    /\ job = [w \in Workers |-> 1]
    /\ answer = [w \in Workers |-> NoAnswer]
    /\ faults = 0
-----------------------------------------------------------------------------
\* The queue holds the batch message (attempt 1) and the published retries, and
\* may deliver either any number of times.
Deliverable(n) == n = 1 \/ n \in due

\* AttemptExecutionStore.claim gives out a lease when none is live.
Free(n) == exec[n].done = NoAnswer /\ ~exec[n].live

\* expectedWorkItem: every earlier attempt was completed with a retry.
EligibleFor(n) == eligible /\ \A m \in 1..(n-1) : exec[m].done.retry

\* Variant: the token is not compared.
OwnsWithoutToken(w) == exec[job[w]].holder # NoWorker

\* The worker's lease token is still the attempt's.
Owns(w) == exec[job[w]].holder = w

\* Variant: an unfinished ledger row may be claimed again.
UnclaimedUntilFinished(n) == ledger[n].outcome = NoOutcome

\* claimProviderIo: the primary key of the ledger is still free.
Unclaimed(n) == ledger[n].claimant = NoWorker

\* Variant: a lost answer of SES may be tried again.
SendResultsRetryingDoubt ==
    {<<1, Answer(AcceptedOutcome, FALSE)>>,
     <<1, Answer(Unknown("AMBIGUOUS"), TRUE)>>,
     <<0, Answer(Failed("THROTTLED"), TRUE)>>}

\* SesV2Client.sendEmail: <<messages SES accepts, what the worker learns>>.
SendResults ==
    {<<1, Answer(AcceptedOutcome, FALSE)>>,
     <<1, Answer(Unknown("AMBIGUOUS"), FALSE)>>,
     <<0, Answer(Unknown("AMBIGUOUS"), FALSE)>>,
     <<0, Answer(Failed("REJECTED"), FALSE)>>,
     <<0, Answer(Failed("THROTTLED"), TRUE)>>}

\* decideProviderRetry: the last attempt schedules no other.
Decision(n, a) ==
    IF a.retry /\ n = MaxAttempts THEN Answer(Failed("RETRY_EXHAUSTED"), FALSE)
                                  ELSE a

\* The worker goes on, or lets go of the attempt.
GoTo(w, step) == pc' = [pc EXCEPT ![w] = step] /\ UNCHANGED job
LetGo(w) == GoTo(w, "idle") /\ answer' = [answer EXCEPT ![w] = NoAnswer]

AFault == faults < MaxFaults /\ faults' = faults + 1
-----------------------------------------------------------------------------
\* The queue delivers an attempt and the execution store decides: the lookup's
\* answers are those of the claim, which repeats its read under the row lock.
\* An attempt held by a live lease is in progress, and nothing changes.
Take(w, n) ==
    /\ pc[w] = "idle" /\ Deliverable(n)
    /\ job' = [job EXCEPT ![w] = n]
    /\ \/ /\ exec[n].done # NoAnswer
          /\ pc' = [pc EXCEPT ![w] = "replay"]
          /\ answer' = [answer EXCEPT ![w] = exec[n].done]
          /\ UNCHANGED exec
       \/ /\ Free(n)
          /\ exec' = [exec EXCEPT ![n] = [holder |-> w, live |-> TRUE,
                                          done |-> NoAnswer]]
          /\ pc' = [pc EXCEPT ![w] = "authorize"]
          /\ UNCHANGED answer
    /\ UNCHANGED <<ledger, evidence, due, sent, eligible, faults>>

\* providerSendIsAuthorized, before the attempt is recorded and after it.
Authorize(w) ==
    /\ \/ pc[w] = "authorize"   /\ EligibleFor(job[w]) /\ GoTo(w, "attempted")
       \/ pc[w] = "reauthorize" /\ EligibleFor(job[w]) /\ GoTo(w, "ledger")
       \/ pc[w] \in {"authorize", "reauthorize"} /\ ~EligibleFor(job[w])
            /\ GoTo(w, "release")
    /\ UNCHANGED <<records, sent, eligible, answer, faults>>

\* An authorization that cannot be read is a denial.
AuthorizeFails(w) ==
    /\ pc[w] \in {"authorize", "reauthorize"} /\ AFault
    /\ GoTo(w, "release")
    /\ UNCHANGED <<records, sent, eligible, answer>>

WriteAttempted(w) ==
    /\ pc[w] = "attempted"
    /\ evidence' = [evidence EXCEPT ![job[w]] = Recorded(@, Attempted)]
    /\ GoTo(w, "reauthorize")
    /\ UNCHANGED <<exec, ledger, due, sent, eligible, answer, faults>>

WriteAttemptedFails(w) ==
    /\ pc[w] = "attempted" /\ AFault
    /\ GoTo(w, "release")
    /\ UNCHANGED <<records, sent, eligible, answer>>

\* release deletes the lease that is still this worker's and not completed.
Release(w) ==
    /\ pc[w] = "release"
    /\ exec' = IF Owns(w) /\ exec[job[w]].done = NoAnswer
               THEN [exec EXCEPT ![job[w]] = NoExecution] ELSE exec
    /\ LetGo(w)
    /\ UNCHANGED <<ledger, evidence, due, sent, eligible, faults>>

\* Variant: a send somebody else claimed is taken for done.
RefusalTrustingClaimant(n) ==
    IF Unclaimed(n) THEN Answer(Failed("DENIED"), FALSE)
                    ELSE Answer(AcceptedOutcome, FALSE)

\* What the ledger's claim tells a worker that does not get the row.
Refusal(n) ==
    CASE ledger[n].outcome # NoOutcome -> Answer(ledger[n].outcome, FALSE)
      [] ledger[n].outcome = NoOutcome /\ ~Unclaimed(n) ->
            Answer(Unknown("ALREADY_CLAIMED"), FALSE)
      [] OTHER -> Answer(Failed("DENIED"), FALSE)

Learn(w, a) == answer' = [answer EXCEPT ![w] = a] /\ GoTo(w, "complete")

\* SesV2EmailAdapter.send asks the ledger for the attempt's only permit.
ClaimSend(w) ==
    /\ pc[w] = "ledger"
    /\ IF Unclaimed(job[w]) /\ EligibleFor(job[w])
       THEN /\ ledger' = [ledger EXCEPT ![job[w]].claimant = w]
            /\ GoTo(w, "send")
            /\ UNCHANGED answer
       ELSE Learn(w, Refusal(job[w])) /\ UNCHANGED ledger
    /\ UNCHANGED <<exec, evidence, due, sent, eligible, faults>>

\* The call fails before or after the ledger acts; the adapter cannot tell.
ClaimSendFails(w) ==
    /\ LedgerMayFail
    /\ pc[w] = "ledger" /\ AFault
    /\ \/ UNCHANGED ledger
       \/ /\ Unclaimed(job[w]) /\ EligibleFor(job[w])
          /\ ledger' = [ledger EXCEPT ![job[w]].claimant = w]
    /\ Learn(w, Answer(Failed("LEDGER_UNAVAILABLE"), TRUE))
    /\ UNCHANGED <<exec, evidence, due, sent, eligible>>

Send(w) ==
    /\ pc[w] = "send"
    /\ \E r \in SendResults :
          /\ sent' = [sent EXCEPT ![job[w]] = @ + r[1]]
          /\ answer' = [answer EXCEPT ![w] = r[2]]
    /\ GoTo(w, "record")
    /\ UNCHANGED <<records, eligible, faults>>

\* completeProviderIo; the adapter ignores a conflict.
RecordSend(w) ==
    /\ pc[w] = "record"
    /\ ledger' = IF ledger[job[w]] = [claimant |-> w, outcome |-> NoOutcome]
                 THEN [ledger EXCEPT ![job[w]].outcome = answer[w].outcome]
                 ELSE ledger
    /\ GoTo(w, "complete")
    /\ UNCHANGED <<exec, evidence, due, sent, eligible, answer, faults>>

\* The adapter ignores a failed call too.
RecordSendFails(w) ==
    /\ pc[w] = "record" /\ AFault
    /\ GoTo(w, "complete")
    /\ UNCHANGED <<records, sent, eligible, answer>>

\* AttemptExecutionStore.complete, or ATTEMPT_LEASE_CONFLICT.
Complete(w) ==
    /\ pc[w] = "complete"
    /\ LET n == job[w] IN
       IF Owns(w)
       THEN /\ exec' = [exec EXCEPT ![n].done = Decision(n, answer[w]),
                                    ![n].live = FALSE]
            /\ answer' = [answer EXCEPT ![w] = Decision(n, @)]
            /\ GoTo(w, "outcome")
       ELSE LetGo(w) /\ UNCHANGED exec
    /\ UNCHANGED <<ledger, evidence, due, sent, eligible, faults>>

\* writeCompletion of an attempt that was completed before.
Replay(w) ==
    /\ pc[w] = "replay"
    /\ evidence' = [evidence EXCEPT ![job[w]] = Recorded(@, Attempted)]
    /\ GoTo(w, "outcome")
    /\ UNCHANGED <<exec, ledger, due, sent, eligible, answer, faults>>

\* The outcome becomes evidence, unless the store refuses it.
WriteOutcome(w) ==
    /\ pc[w] = "outcome"
    /\ LET n == job[w] IN
       /\ evidence' = [evidence EXCEPT ![n] = Recorded(@, answer[w].outcome)]
       /\ IF answer[w].retry /\ Reply(evidence[n], answer[w].outcome) # "refuse"
          THEN GoTo(w, "publish") /\ UNCHANGED answer
          ELSE LetGo(w)
    /\ UNCHANGED <<exec, ledger, due, sent, eligible, faults>>

\* publishAttemptReference.
PublishRetry(w) ==
    /\ pc[w] = "publish"
    /\ due' = due \cup {job[w] + 1}
    /\ LetGo(w)
    /\ UNCHANGED <<exec, ledger, evidence, sent, eligible, faults>>

Crash(w) ==
    /\ pc[w] # "idle" /\ AFault
    /\ LetGo(w)
    /\ UNCHANGED <<records, sent, eligible>>

WorksOn(w, n) == pc[w] # "idle" /\ job[w] = n

\* A lease ends, whatever its holder is doing unless HoldersBeatLease.
LeaseExpires(n) ==
    /\ exec[n].live
    /\ HoldersBeatLease => ~WorksOn(exec[n].holder, n)
    /\ exec' = [exec EXCEPT ![n].live = FALSE]
    /\ UNCHANGED <<ledger, evidence, due, sent, eligible, work, faults>>

\* A signed SES event: reconcileProviderIo.
CallbackCompletesLedger(n) ==
    /\ sent[n] > 0 /\ ledger[n].outcome = NoOutcome
    /\ ledger' = [ledger EXCEPT ![n].outcome = AcceptedOutcome]
    /\ UNCHANGED <<exec, evidence, due, sent, eligible, work, faults>>

\* ... and, the ledger agreeing, its evidence.
CallbackWritesEvidence(n) ==
    /\ sent[n] > 0 /\ ledger[n].outcome.state \in {"provider-accepted", "unknown"}
    /\ evidence' = [evidence EXCEPT ![n] = Recorded(@, DeliveredOutcome)]
    /\ evidence' # evidence
    /\ UNCHANGED <<exec, ledger, due, sent, eligible, work, faults>>

\* The channel is disabled, the event moves on, or the send horizon passes.
Stop == /\ eligible
        /\ eligible' = FALSE
        /\ UNCHANGED <<records, sent, work, faults>>

Resume == /\ MayResume /\ ~eligible
          /\ eligible' = TRUE
          /\ UNCHANGED <<records, sent, work, faults>>

Step(w) == \/ Authorize(w) \/ WriteAttempted(w) \/ Release(w)
           \/ ClaimSend(w) \/ Send(w) \/ RecordSend(w) \/ Complete(w)
           \/ Replay(w) \/ WriteOutcome(w) \/ PublishRetry(w)

Fault(w) == \/ AuthorizeFails(w) \/ WriteAttemptedFails(w)
            \/ ClaimSendFails(w) \/ RecordSendFails(w) \/ Crash(w)

Callback(n) == CallbackCompletesLedger(n) \/ CallbackWritesEvidence(n)

Next == \/ \E w \in Workers : Step(w) \/ Fault(w)
        \/ \E w \in Workers, n \in Attempts : Take(w, n)
        \/ \E n \in Attempts : LeaseExpires(n) \/ Callback(n)
        \/ Stop \/ Resume

Spec == Init /\ [][Next]_vars

\* Workers keep running, leases end, and the queue redelivers every attempt it
\* still holds: its visibility timeout returns a message nobody deleted.
FairSpec ==
    /\ Spec
    /\ \A w \in Workers : WF_vars(Step(w))
    /\ \A n \in Attempts :
          /\ WF_vars(LeaseExpires(n))
          /\ SF_vars(\E w \in Workers : Take(w, n))
-----------------------------------------------------------------------------
(* Properties. *)

\* SES is called at most once for an attempt, although leases are taken over,
\* deliveries repeated and every answer may be lost.
AtMostOneSend == \A n \in Attempts : sent[n] <= 1

\* A recipient gets one email: an attempt that SES accepted has no successor
\* that SES accepts too.
OneEmailPerRecipient ==
    \A m, n \in Attempts : sent[m] > 0 /\ sent[n] > 0 => m = n

\* Whatever SES accepted can still be proven delivered: the ledger does not
\* contradict the callback, and the evidence store would not refuse its proof.
DeliveryProofHasAPlace ==
    \A n \in Attempts : sent[n] > 0 =>
        /\ ledger[n].outcome.state \in {"none", "provider-accepted", "unknown"}
        /\ Reply(evidence[n], DeliveredOutcome) # "refuse"

\* Acceptance and delivery are only reported of messages SES accepted.
NoFalseAcceptance ==
    \A n \in Attempts : \A i \in DOMAIN evidence[n] :
        evidence[n][i].state \in {"provider-accepted", "delivered"} => sent[n] > 0

\* A completion, once stored, is what every later delivery of the attempt
\* replays: no late worker replaces or removes it.
CompletionIsFinal ==
    [][\A n \in Attempts : exec[n].done # NoAnswer => exec'[n].done = exec[n].done]_vars

\* An attempt that was announced gets an outcome, unless the send was stopped:
\* a worker that died holding it does not strand the notification.
AllConcluded == \A n \in Attempts :
    eligible /\ evidence[n] # <<>> => Len(evidence[n]) > 1
EveryAttemptConcludes == <>[]AllConcluded
=============================================================================
