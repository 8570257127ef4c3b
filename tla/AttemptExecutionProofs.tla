----------------------- MODULE AttemptExecutionProofs -----------------------
(***************************************************************************)
(* Theorems about AttemptExecution, for any number of workers and any      *)
(* retry budget: types, one send per attempt, what may be reported as      *)
(* accepted, the finality of a completion, and one email per recipient     *)
(* while the send ledger answers.                                          *)
(***************************************************************************)
EXTENDS AttemptExecution, TLAPS

(* Answers. *)

LEMMA OutcomeMembers ==
    /\ AcceptedOutcome \in Outcomes
    /\ Unknown("AMBIGUOUS") \in Outcomes /\ Unknown("ALREADY_CLAIMED") \in Outcomes
    /\ Failed("REJECTED") \in Outcomes /\ Failed("THROTTLED") \in Outcomes
    /\ Failed("DENIED") \in Outcomes /\ Failed("LEDGER_UNAVAILABLE") \in Outcomes
    /\ Failed("RETRY_EXHAUSTED") \in Outcomes
BY DEF Outcomes

LEMMA NoOutcomeIsNone == NoOutcome \notin Outcomes
BY DEF NoOutcome, Outcomes, AcceptedOutcome, Unknown, Failed, Fact

LEMMA AnswerParts ==
    ASSUME NEW o \in Outcomes, NEW b \in BOOLEAN
    PROVE  /\ Answer(o, b) \in Answers
           /\ Answer(o, b).outcome = o /\ Answer(o, b).retry = b
           /\ Answer(o, b) # NoAnswer
<1>1. /\ Answer(o, b) \in Answers
      /\ Answer(o, b).outcome = o /\ Answer(o, b).retry = b
  BY DEF Answer, Answers
<1>2. NoAnswer.outcome = NoOutcome
  BY DEF NoAnswer, Answer
<1>. QED BY <1>1, <1>2, NoOutcomeIsNone

LEMMA AnswersParts ==
    ASSUME NEW a \in Answers
    PROVE  /\ a.retry \in BOOLEAN
           /\ a # NoAnswer => a.outcome \in Outcomes
           /\ a = NoAnswer => a.retry = FALSE /\ a.outcome = NoOutcome
           /\ a.outcome \in Outcomes => a # NoAnswer
<1>1. NoAnswer.outcome = NoOutcome /\ NoAnswer.retry = FALSE
  BY DEF NoAnswer, Answer
<1>. QED BY <1>1, NoOutcomeIsNone DEF Answers

\* The outcomes by their states: only one of them claims acceptance.
LEMMA OutcomeStates ==
    /\ \A o \in Outcomes : o.state \in {"provider-accepted", "delivered"}
                              => o = AcceptedOutcome
    /\ Attempted.state = "attempted"
    /\ NoOutcome.state = "none"
    /\ AcceptedOutcome.state = "provider-accepted"
    /\ \A r : Failed(r).state = "failed" /\ Unknown(r).state = "unknown"
BY DEF Outcomes, AcceptedOutcome, NoOutcome, Attempted, Unknown, Failed, Fact

\* A decision is an answer, and the last attempt's never asks for another.
LEMMA DecisionParts ==
    ASSUME NEW n \in Attempts, NEW a \in Answers, a.outcome \in Outcomes
    PROVE  /\ Decision(n, a) \in Answers /\ Decision(n, a) # NoAnswer
           /\ Decision(n, a).outcome \in Outcomes
           /\ Decision(n, a).retry \in BOOLEAN
           /\ Decision(n, a).retry => a.retry /\ n < MaxAttempts
           /\ Decision(n, a).outcome = AcceptedOutcome => a.outcome = AcceptedOutcome
<1>1. Failed("RETRY_EXHAUSTED") # AcceptedOutcome
  BY OutcomeStates
<1>2. n \in Nat /\ MaxAttempts \in Nat /\ n <= MaxAttempts
  BY RetryPolicyAssumption DEF Attempts
<1>3. CASE a.retry /\ n = MaxAttempts
  <2>1. Decision(n, a) = Answer(Failed("RETRY_EXHAUSTED"), FALSE)
    BY <1>3 DEF Decision
  <2>. QED BY <1>1, <2>1, AnswerParts, OutcomeMembers
<1>4. CASE ~(a.retry /\ n = MaxAttempts)
  <2>1. Decision(n, a) = a
    BY <1>4 DEF Decision
  <2>2. a.retry \in BOOLEAN /\ a # NoAnswer
    BY AnswersParts
  <2>3. a.retry => n < MaxAttempts
    BY <1>2, <1>4
  <2>. QED BY <2>1, <2>2, <2>3
<1>. QED BY <1>3, <1>4
-----------------------------------------------------------------------------
(* Types.  A worker past its send or its replay knows an outcome, and an     *)
(* answer that asks for another attempt leaves room for one.                 *)

Evidence == Outcomes \cup {Attempted, DeliveredOutcome}

Learned ==
    \A w \in Workers :
        pc[w] \in {"record", "complete", "replay", "outcome", "publish"}
            => answer[w].outcome \in Outcomes

RetriesFit ==
    /\ \A n \in Attempts : exec[n].done.retry => n < MaxAttempts
    /\ \A w \in Workers : pc[w] \in {"replay", "outcome"} /\ answer[w].retry
                             => job[w] < MaxAttempts
    /\ \A w \in Workers : pc[w] = "publish" => job[w] < MaxAttempts

Typed == TypeOK /\ Learned /\ RetriesFit

Executions == [holder : Workers \cup {NoWorker}, live : BOOLEAN, done : Answers]
LedgerRows == [claimant : Workers \cup {NoWorker}, outcome : Outcomes \cup {NoOutcome}]

\* The updates the records see keep their shape.
LEMMA RecordUpdates ==
    /\ \A e \in LedgerRows, w \in Workers : [e EXCEPT !.claimant = w] \in LedgerRows
    /\ \A e \in LedgerRows, o \in Outcomes : [e EXCEPT !.outcome = o] \in LedgerRows
    /\ \A e \in Executions, a \in Answers, b \in BOOLEAN :
          [e EXCEPT !.done = a, !.live = b] \in Executions
BY DEF LedgerRows, Executions

LEMMA RecordedType ==
    ASSUME NEW chain \in Seq(Evidence), NEW f \in Evidence
    PROVE  Recorded(chain, f) \in Seq(Evidence)
BY DEF Recorded

LEMMA RefusalType ==
    ASSUME Typed, NEW n \in Attempts
    PROVE  /\ Refusal(n) \in Answers /\ Refusal(n).outcome \in Outcomes
           /\ Refusal(n).retry = FALSE
           /\ Refusal(n).outcome = AcceptedOutcome => ledger[n].outcome = AcceptedOutcome
<1>1. ledger[n].outcome \in Outcomes \cup {NoOutcome}
  BY DEF Typed, TypeOK
<1>2. /\ Unknown("ALREADY_CLAIMED") # AcceptedOutcome
      /\ Failed("DENIED") # AcceptedOutcome
  BY OutcomeStates
<1>3. \A o \in Outcomes : Answer(o, FALSE) \in Answers
                          /\ Answer(o, FALSE).outcome = o /\ Answer(o, FALSE).retry = FALSE
  BY AnswerParts
<1>4. CASE ledger[n].outcome # NoOutcome
  BY <1>1, <1>3, <1>4 DEF Refusal
<1>5. CASE ledger[n].outcome = NoOutcome /\ ~Unclaimed(n)
  BY <1>2, <1>3, <1>5, OutcomeMembers DEF Refusal
<1>6. CASE ledger[n].outcome = NoOutcome /\ Unclaimed(n)
  BY <1>2, <1>3, <1>6, OutcomeMembers DEF Refusal
<1>. QED BY <1>4, <1>5, <1>6

\* What SES can answer: acceptance is only learned of an accepted message, and
\* a retry only of one that was not.
LEMMA SendResultParts ==
    ASSUME NEW r \in SendResults
    PROVE  /\ r[1] \in {0, 1} /\ r[2] \in Answers /\ r[2].outcome \in Outcomes
           /\ r[2].outcome = AcceptedOutcome => r[1] = 1
           /\ r[2].retry => r[1] = 0
<1>1. /\ Unknown("AMBIGUOUS") # AcceptedOutcome
      /\ Failed("REJECTED") # AcceptedOutcome /\ Failed("THROTTLED") # AcceptedOutcome
  BY OutcomeStates
<1>2. \A o \in Outcomes, b \in BOOLEAN :
        Answer(o, b) \in Answers /\ Answer(o, b).outcome = o /\ Answer(o, b).retry = b
  BY AnswerParts
<1>3. /\ AcceptedOutcome \in Outcomes /\ Unknown("AMBIGUOUS") \in Outcomes
      /\ Failed("REJECTED") \in Outcomes /\ Failed("THROTTLED") \in Outcomes
  BY OutcomeMembers
<1>4. PICK n \in {0, 1}, o \in Outcomes, b \in BOOLEAN :
        /\ r = <<n, Answer(o, b)>>
        /\ o = AcceptedOutcome => n = 1
        /\ b => n = 0
  BY <1>1, <1>3 DEF SendResults
<1>. QED BY <1>2, <1>4

LEMMA InitTyped == Init => Typed
<1>. SUFFICES ASSUME Init PROVE Typed
  OBVIOUS
<1>1. NoAnswer \in Answers /\ NoAnswer.retry = FALSE
  BY DEF Answers, NoAnswer, Answer
<1>2. 1 \in Attempts /\ MaxFaults \in Nat
  BY RetryPolicyAssumption, SwitchesAssumption DEF Attempts
<1>3. TypeOK
  BY <1>1, <1>2 DEF Init, TypeOK, NoExecution, NoSend, Steps
<1>4. Learned /\ RetriesFit
  BY <1>1 DEF Init, Learned, RetriesFit, NoExecution
<1>. QED BY <1>3, <1>4 DEF Typed

\* A worker's own bookkeeping: where it goes and what it takes along.
LEMMA MoveTyped ==
    ASSUME Typed, NEW w \in Workers, NEW step \in Steps, NEW a \in Answers,
           GoTo(w, step), answer' = [answer EXCEPT ![w] = a] \/ answer' = answer,
           exec' = exec,
           step \in {"record", "complete", "replay", "outcome", "publish"}
              => answer'[w].outcome \in Outcomes,
           step \in {"replay", "outcome"} /\ answer'[w].retry => job[w] < MaxAttempts,
           step = "publish" => job[w] < MaxAttempts
    PROVE  /\ pc' \in [Workers -> Steps] /\ job' \in [Workers -> Attempts]
           /\ answer' \in [Workers -> Answers]
           /\ Learned' /\ RetriesFit'
<1>1. /\ pc' = [pc EXCEPT ![w] = step] /\ job' = job
      /\ \A v \in Workers : v # w => answer'[v] = answer[v]
  BY DEF GoTo, Typed, TypeOK
<1>2. /\ pc' \in [Workers -> Steps] /\ job' \in [Workers -> Attempts]
      /\ answer' \in [Workers -> Answers]
  BY <1>1 DEF Typed, TypeOK
<1>3. Learned'
  BY <1>1 DEF Learned, Typed, TypeOK
<1>4. RetriesFit'
  BY <1>1 DEF RetriesFit, Typed, TypeOK
<1>. QED BY <1>2, <1>3, <1>4

\* Letting go of an attempt keeps everything typed.
LEMMA LetGoTyped ==
    ASSUME Typed, NEW w \in Workers, LetGo(w), exec' = exec
    PROVE  /\ pc' \in [Workers -> Steps] /\ job' \in [Workers -> Attempts]
           /\ answer' \in [Workers -> Answers]
           /\ Learned' /\ RetriesFit'
<1>1. NoAnswer \in Answers /\ "idle" \in Steps
  BY DEF Answers, Steps
<1>2. GoTo(w, "idle") /\ answer' = [answer EXCEPT ![w] = NoAnswer]
  BY DEF LetGo
<1>. QED BY <1>1, <1>2, MoveTyped

LEMMA StepTyped == Typed /\ [Next]_vars => Typed'
<1>. SUFFICES ASSUME Typed, [Next]_vars PROVE Typed'
  OBVIOUS
<1>0. /\ NoAnswer \in Answers /\ NoAnswer.retry = FALSE
      /\ MaxAttempts \in Nat /\ MaxFaults \in Nat
      /\ Attempts \subseteq Nat
      /\ AFault => faults' \in 0..MaxFaults
      /\ Attempted \in Evidence /\ DeliveredOutcome \in Evidence
      /\ Outcomes \subseteq Evidence
  BY RetryPolicyAssumption, SwitchesAssumption
     DEF Answers, NoAnswer, Answer, Attempts, AFault, Typed, TypeOK, Evidence
<1>1. ASSUME NEW w \in Workers, NEW n \in Attempts, Take(w, n) PROVE Typed'
  <2>1. /\ job' = [job EXCEPT ![w] = n] /\ pc[w] = "idle"
        /\ UNCHANGED <<ledger, evidence, due, sent, eligible, faults>>
    BY <1>1 DEF Take
  <2>2. CASE /\ exec[n].done # NoAnswer
             /\ pc' = [pc EXCEPT ![w] = "replay"]
             /\ answer' = [answer EXCEPT ![w] = exec[n].done]
             /\ UNCHANGED exec
    <3>1. exec[n].done \in Answers /\ exec[n].done.outcome \in Outcomes
      BY <2>2, AnswersParts DEF Typed, TypeOK
    <3>2. TypeOK'
      BY <2>1, <2>2, <3>1 DEF Typed, TypeOK, Steps
    <3>3. Learned'
      BY <2>1, <2>2, <3>1 DEF Typed, TypeOK, Learned
    <3>4. RetriesFit'
      BY <2>1, <2>2 DEF Typed, TypeOK, RetriesFit
    <3>. QED BY <3>2, <3>3, <3>4 DEF Typed
  <2>3. CASE /\ Free(n)
             /\ exec' = [exec EXCEPT ![n] = [holder |-> w, live |-> TRUE,
                                             done |-> NoAnswer]]
             /\ pc' = [pc EXCEPT ![w] = "authorize"]
             /\ UNCHANGED answer
    <3>1. TypeOK'
      BY <1>0, <2>1, <2>3, NobodyAssumption DEF Typed, TypeOK, Steps
    <3>2. Learned'
      BY <2>1, <2>3 DEF Typed, TypeOK, Learned
    <3>3. RetriesFit'
      BY <1>0, <2>1, <2>3 DEF Typed, TypeOK, RetriesFit
    <3>. QED BY <3>1, <3>2, <3>3 DEF Typed
  <2>. QED BY <1>1, <2>2, <2>3 DEF Take
<1>2. ASSUME NEW w \in Workers,
             \/ Authorize(w) \/ AuthorizeFails(w) \/ WriteAttemptedFails(w)
             \/ RecordSendFails(w)
      PROVE  Typed'
  <2>1. PICK step \in {"attempted", "ledger", "release", "complete"} :
          /\ GoTo(w, step) /\ UNCHANGED <<records, sent, eligible, answer>>
          /\ step = "complete" => pc[w] = "record"
          /\ faults' = faults \/ AFault
    BY <1>2 DEF Authorize, AuthorizeFails, WriteAttemptedFails, RecordSendFails
  <2>2. step \in Steps /\ exec' = exec /\ answer' = answer
    BY <2>1 DEF Steps, records
  <2>3. step = "complete" => answer'[w].outcome \in Outcomes
    BY <2>1, <2>2 DEF Typed, Learned
  <2>4. /\ pc' \in [Workers -> Steps] /\ job' \in [Workers -> Attempts]
        /\ answer' \in [Workers -> Answers]
        /\ Learned' /\ RetriesFit'
    BY <1>0, <2>1, <2>2, <2>3, MoveTyped
  <2>. QED BY <1>0, <2>1, <2>4 DEF Typed, TypeOK, records
<1>3. ASSUME NEW w \in Workers, WriteAttempted(w) PROVE Typed'
  <2>1. /\ GoTo(w, "reauthorize") /\ answer' = answer /\ exec' = exec
        /\ "reauthorize" \in Steps /\ job[w] \in Attempts
    BY <1>3 DEF WriteAttempted, Steps, Typed, TypeOK
  <2>2. /\ pc' \in [Workers -> Steps] /\ job' \in [Workers -> Attempts]
        /\ answer' \in [Workers -> Answers]
        /\ Learned' /\ RetriesFit'
    BY <1>0, <2>1, MoveTyped
  <2>3. evidence' \in [Attempts -> Seq(Evidence)]
    BY <1>0, <1>3, <2>1, RecordedType DEF WriteAttempted, Typed, TypeOK, Evidence
  <2>. QED BY <1>3, <2>2, <2>3 DEF WriteAttempted, Typed, TypeOK, Evidence
<1>4. ASSUME NEW w \in Workers, Release(w) PROVE Typed'
  <2>1. LetGo(w) /\ UNCHANGED <<ledger, evidence, due, sent, eligible, faults>>
    BY <1>4 DEF Release
  <2>2. exec' = [exec EXCEPT ![job[w]] = NoExecution] \/ exec' = exec
    BY <1>4 DEF Release
  <2>3. TypeOK'
    <3>1. /\ pc' = [pc EXCEPT ![w] = "idle"] /\ job' = job
          /\ answer' = [answer EXCEPT ![w] = NoAnswer]
          /\ UNCHANGED <<ledger, evidence, due, sent, eligible, faults>>
      BY <2>1 DEF LetGo, GoTo
    <3>2. /\ NoExecution \in Executions /\ NoExecution.holder = NoWorker
          /\ ~NoExecution.live /\ NoExecution.done = NoAnswer
      BY <1>0 DEF NoExecution, Executions
    <3>3. /\ exec' \in [Attempts -> Executions]
          /\ \A n \in Attempts : exec'[n].holder = NoWorker =>
                ~exec'[n].live /\ exec'[n].done = NoAnswer
      <4>1. CASE exec' = exec
        BY <4>1 DEF Typed, TypeOK, Executions
      <4>2. CASE exec' = [exec EXCEPT ![job[w]] = NoExecution]
        <5>1. exec' \in [Attempts -> Executions]
          BY <3>2, <4>2 DEF Typed, TypeOK, Executions
        <5>2. \A n \in Attempts : exec'[n] = NoExecution \/ exec'[n] = exec[n]
          BY <4>2 DEF Typed, TypeOK
        <5>3. \A n \in Attempts : exec'[n].holder = NoWorker =>
                 ~exec'[n].live /\ exec'[n].done = NoAnswer
          BY <3>2, <5>2 DEF Typed, TypeOK
        <5>. QED BY <5>1, <5>3
      <4>. QED BY <2>2, <4>1, <4>2
    <3>. QED BY <1>0, <3>1, <3>3 DEF Typed, TypeOK, Steps, Executions
  <2>4. Learned'
    BY <2>1 DEF LetGo, GoTo, Typed, TypeOK, Learned
  <2>5. RetriesFit'
    BY <1>0, <2>1, <2>2 DEF LetGo, GoTo, Typed, TypeOK, RetriesFit, NoExecution
  <2>. QED BY <2>3, <2>4, <2>5 DEF Typed
<1>5. ASSUME NEW w \in Workers, ClaimSend(w) \/ ClaimSendFails(w) PROVE Typed'
  <2>1. /\ job[w] \in Attempts /\ exec' = exec
        /\ UNCHANGED <<evidence, due, sent, eligible>>
        /\ faults' = faults \/ AFault
        /\ ledger' = ledger \/ ledger' = [ledger EXCEPT ![job[w]].claimant = w]
    BY <1>5 DEF ClaimSend, ClaimSendFails, Typed, TypeOK
  <2>2. ledger' \in [Attempts -> LedgerRows]
    <3>1. ledger \in [Attempts -> LedgerRows]
      BY DEF Typed, TypeOK, LedgerRows
    <3>2. [ledger[job[w]] EXCEPT !.claimant = w] \in LedgerRows
      BY <2>1, <3>1, RecordUpdates
    <3>. QED BY <2>1, <3>1, <3>2
  <2>3. PICK a \in Answers, step \in {"send", "complete"} :
          /\ GoTo(w, step) /\ (answer' = answer \/ answer' = [answer EXCEPT ![w] = a])
          /\ step = "complete" => a.outcome \in Outcomes
                                  /\ answer' = [answer EXCEPT ![w] = a]
    <3>1. /\ Answer(Failed("LEDGER_UNAVAILABLE"), TRUE) \in Answers
          /\ Answer(Failed("LEDGER_UNAVAILABLE"), TRUE).outcome \in Outcomes
      BY OutcomeMembers, AnswerParts
    <3>2. Refusal(job[w]) \in Answers /\ Refusal(job[w]).outcome \in Outcomes
      BY <2>1, RefusalType
    <3>3. CASE ClaimSendFails(w)
      BY <3>1, <3>3 DEF ClaimSendFails, Learn
    <3>4. CASE ClaimSend(w)
      BY <3>2, <3>4 DEF ClaimSend, Learn
    <3>. QED BY <1>5, <3>3, <3>4
  <2>4. /\ step \in Steps
        /\ step = "complete" => answer'[w].outcome \in Outcomes
    BY <2>3 DEF Steps, Typed, TypeOK
  <2>5. /\ pc' \in [Workers -> Steps] /\ job' \in [Workers -> Attempts]
        /\ answer' \in [Workers -> Answers]
        /\ Learned' /\ RetriesFit'
    BY <1>0, <2>1, <2>3, <2>4, MoveTyped
  <2>. QED BY <1>0, <2>1, <2>2, <2>5 DEF Typed, TypeOK, LedgerRows
<1>6. ASSUME NEW w \in Workers, Send(w) PROVE Typed'
  <2>1. PICK r \in SendResults :
          /\ sent' = [sent EXCEPT ![job[w]] = @ + r[1]]
          /\ answer' = [answer EXCEPT ![w] = r[2]]
    BY <1>6 DEF Send
  <2>2. r[1] \in Nat /\ r[2] \in Answers /\ r[2].outcome \in Outcomes
    BY SendResultParts
  <2>3. /\ GoTo(w, "record") /\ "record" \in Steps
        /\ exec' = exec /\ UNCHANGED <<ledger, evidence, due, eligible, faults>>
    BY <1>6 DEF Send, Steps, records
  <2>4. answer'[w].outcome \in Outcomes
    BY <2>1, <2>2 DEF Typed, TypeOK
  <2>5. /\ pc' \in [Workers -> Steps] /\ job' \in [Workers -> Attempts]
        /\ answer' \in [Workers -> Answers]
        /\ Learned' /\ RetriesFit'
    BY <2>1, <2>2, <2>3, <2>4, MoveTyped
  <2>6. sent' \in [Attempts -> Nat]
    BY <2>1, <2>2 DEF Typed, TypeOK
  <2>. QED BY <2>3, <2>5, <2>6 DEF Typed, TypeOK
<1>7. ASSUME NEW w \in Workers, RecordSend(w) PROVE Typed'
  <2>1. /\ GoTo(w, "complete") /\ "complete" \in Steps /\ pc[w] = "record"
        /\ exec' = exec /\ answer' = answer
        /\ UNCHANGED <<evidence, due, sent, eligible, faults>>
    BY <1>7 DEF RecordSend, Steps
  <2>2. answer[w].outcome \in Outcomes
    BY <2>1 DEF Typed, Learned
  <2>3. ledger' \in [Attempts -> [claimant : Workers \cup {NoWorker},
                                  outcome : Outcomes \cup {NoOutcome}]]
    BY <1>7, <2>2 DEF RecordSend, Typed, TypeOK
  <2>4. /\ pc' \in [Workers -> Steps] /\ job' \in [Workers -> Attempts]
        /\ answer' \in [Workers -> Answers]
        /\ Learned' /\ RetriesFit'
    BY <1>0, <2>1, <2>2, MoveTyped
  <2>. QED BY <2>1, <2>3, <2>4 DEF Typed, TypeOK
<1>8. ASSUME NEW w \in Workers, Complete(w) PROVE Typed'
  <2>. DEFINE n == job[w]
              a == Decision(n, answer[w])
  <2>1. /\ n \in Attempts /\ answer[w] \in Answers /\ answer[w].outcome \in Outcomes
        /\ UNCHANGED <<ledger, evidence, due, sent, eligible, faults>>
    BY <1>8 DEF Complete, Typed, TypeOK, Learned
  <2>2. CASE ~Owns(w)
    <3>1. LetGo(w) /\ exec' = exec
      BY <1>8, <2>2 DEF Complete
    <3>2. /\ pc' \in [Workers -> Steps] /\ job' \in [Workers -> Attempts]
          /\ answer' \in [Workers -> Answers]
          /\ Learned' /\ RetriesFit'
      BY <3>1, LetGoTyped
    <3>. QED BY <2>1, <3>1, <3>2 DEF Typed, TypeOK
  <2>3. CASE Owns(w)
    <3>1. /\ exec' = [exec EXCEPT ![n].done = a, ![n].live = FALSE]
          /\ answer' = [answer EXCEPT ![w] = a]
          /\ pc' = [pc EXCEPT ![w] = "outcome"] /\ job' = job
      BY <1>8, <2>3 DEF Complete, GoTo
    <3>2. a \in Answers /\ a.outcome \in Outcomes /\ (a.retry => n < MaxAttempts)
      BY <2>1, DecisionParts
    <3>3. exec[n].holder = w
      BY <2>3 DEF Owns
    <3>4. /\ exec' \in [Attempts -> Executions]
          /\ \A m \in Attempts : exec'[m].holder = NoWorker =>
                ~exec'[m].live /\ exec'[m].done = NoAnswer
      <4>1. exec \in [Attempts -> Executions]
        BY DEF Typed, TypeOK, Executions
      <4>2. /\ [exec[n] EXCEPT !.done = a, !.live = FALSE] \in Executions
            /\ [exec[n] EXCEPT !.done = a, !.live = FALSE].holder = w
        BY <2>1, <3>2, <3>3, <4>1, RecordUpdates DEF Executions
      <4>3. exec' = [exec EXCEPT ![n] = [exec[n] EXCEPT !.done = a, !.live = FALSE]]
        BY <3>1
      <4>4. exec' \in [Attempts -> Executions]
        BY <2>1, <4>1, <4>2, <4>3
      <4>5. ASSUME NEW m \in Attempts, exec'[m].holder = NoWorker
            PROVE  ~exec'[m].live /\ exec'[m].done = NoAnswer
        <5>1. m # n
          BY <4>1, <4>2, <4>3, <4>5, NobodyAssumption
        <5>. QED BY <4>1, <4>3, <4>5, <5>1 DEF Typed, TypeOK
      <4>. QED BY <4>4, <4>5
    <3>7. TypeOK'
      BY <2>1, <3>1, <3>2, <3>4 DEF Typed, TypeOK, Steps, Executions
    <3>5. Learned'
      BY <3>1, <3>2 DEF Typed, TypeOK, Learned
    <3>6. RetriesFit'
      BY <2>1, <3>1, <3>2 DEF Typed, TypeOK, RetriesFit
    <3>. QED BY <3>5, <3>6, <3>7 DEF Typed
  <2>. QED BY <2>2, <2>3
<1>9. ASSUME NEW w \in Workers, Replay(w) PROVE Typed'
  <2>1. /\ GoTo(w, "outcome") /\ "outcome" \in Steps /\ pc[w] = "replay"
        /\ exec' = exec /\ answer' = answer /\ job[w] \in Attempts
    BY <1>9 DEF Replay, Steps, Typed, TypeOK
  <2>2. answer[w].outcome \in Outcomes /\ (answer[w].retry => job[w] < MaxAttempts)
    BY <2>1 DEF Typed, Learned, RetriesFit
  <2>3. /\ pc' \in [Workers -> Steps] /\ job' \in [Workers -> Attempts]
        /\ answer' \in [Workers -> Answers]
        /\ Learned' /\ RetriesFit'
    BY <1>0, <2>1, <2>2, MoveTyped
  <2>4. evidence' \in [Attempts -> Seq(Evidence)]
    BY <1>0, <1>9, <2>1, RecordedType DEF Replay, Typed, TypeOK, Evidence
  <2>. QED BY <1>9, <2>3, <2>4 DEF Replay, Typed, TypeOK, Evidence
<1>10. ASSUME NEW w \in Workers, WriteOutcome(w) PROVE Typed'
  <2>1. /\ pc[w] = "outcome" /\ job[w] \in Attempts
        /\ evidence' = [evidence EXCEPT ![job[w]] = Recorded(@, answer[w].outcome)]
        /\ UNCHANGED <<exec, ledger, due, sent, eligible, faults>>
    BY <1>10 DEF WriteOutcome, Typed, TypeOK
  <2>2. answer[w].outcome \in Evidence
    BY <1>0, <2>1 DEF Typed, Learned
  <2>3. evidence' \in [Attempts -> Seq(Evidence)]
    BY <2>1, <2>2, RecordedType DEF Typed, TypeOK, Evidence
  <2>4. /\ pc' \in [Workers -> Steps] /\ job' \in [Workers -> Attempts]
        /\ answer' \in [Workers -> Answers]
        /\ Learned' /\ RetriesFit'
    <3>1. CASE LetGo(w)
      BY <2>1, <3>1, LetGoTyped
    <3>2. CASE answer[w].retry /\ GoTo(w, "publish") /\ answer' = answer
      <4>1. job[w] < MaxAttempts /\ answer[w].outcome \in Outcomes /\ "publish" \in Steps
        BY <2>1, <3>2 DEF Typed, Learned, RetriesFit, Steps
      <4>. QED BY <1>0, <2>1, <3>2, <4>1, MoveTyped
    <3>. QED BY <1>10, <3>1, <3>2 DEF WriteOutcome
  <2>. QED BY <2>1, <2>3, <2>4 DEF Typed, TypeOK, Evidence
<1>11. ASSUME NEW w \in Workers, PublishRetry(w) PROVE Typed'
  <2>1. /\ LetGo(w) /\ due' = due \cup {job[w] + 1}
        /\ UNCHANGED <<exec, ledger, evidence, sent, eligible, faults>>
        /\ job[w] \in Attempts /\ job[w] < MaxAttempts
    BY <1>11 DEF PublishRetry, Typed, TypeOK, RetriesFit
  <2>2. job[w] + 1 \in Attempts
    BY <1>0, <2>1 DEF Attempts
  <2>3. /\ pc' \in [Workers -> Steps] /\ job' \in [Workers -> Attempts]
        /\ answer' \in [Workers -> Answers]
        /\ Learned' /\ RetriesFit'
    BY <2>1, LetGoTyped
  <2>. QED BY <2>1, <2>2, <2>3 DEF Typed, TypeOK
<1>12. ASSUME NEW w \in Workers, Crash(w) PROVE Typed'
  <2>1. /\ LetGo(w) /\ AFault /\ UNCHANGED <<exec, ledger, evidence, due, sent, eligible>>
    BY <1>12 DEF Crash, records
  <2>2. /\ pc' \in [Workers -> Steps] /\ job' \in [Workers -> Attempts]
        /\ answer' \in [Workers -> Answers]
        /\ Learned' /\ RetriesFit'
    BY <2>1, LetGoTyped
  <2>. QED BY <1>0, <2>1, <2>2 DEF Typed, TypeOK
<1>13. ASSUME NEW n \in Attempts, LeaseExpires(n) PROVE Typed'
  <2>1. /\ exec' = [exec EXCEPT ![n].live = FALSE]
        /\ UNCHANGED <<ledger, evidence, due, sent, eligible, pc, job, answer, faults>>
    BY <1>13 DEF LeaseExpires, work
  <2>2. TypeOK'
    BY <2>1 DEF Typed, TypeOK
  <2>3. Learned' /\ RetriesFit'
    BY <2>1 DEF Typed, TypeOK, Learned, RetriesFit
  <2>. QED BY <2>2, <2>3 DEF Typed
<1>14. ASSUME NEW n \in Attempts, Callback(n) PROVE Typed'
  <2>1. /\ UNCHANGED <<exec, due, sent, eligible, pc, job, answer, faults>>
        /\ \/ /\ ledger' = [ledger EXCEPT ![n].outcome = AcceptedOutcome]
              /\ evidence' = evidence
           \/ /\ evidence' = [evidence EXCEPT ![n] = Recorded(@, DeliveredOutcome)]
              /\ ledger' = ledger
    BY <1>14 DEF Callback, CallbackCompletesLedger, CallbackWritesEvidence, work
  <2>2. ledger' \in [Attempts -> LedgerRows]
    <3>1. ledger \in [Attempts -> LedgerRows]
      BY DEF Typed, TypeOK, LedgerRows
    <3>2. [ledger[n] EXCEPT !.outcome = AcceptedOutcome] \in LedgerRows
      BY <3>1, RecordUpdates, OutcomeMembers
    <3>. QED BY <2>1, <3>1, <3>2
  <2>3. evidence' \in [Attempts -> Seq(Evidence)]
    <3>1. evidence \in [Attempts -> Seq(Evidence)]
      BY DEF Typed, TypeOK, Evidence
    <3>2. Recorded(evidence[n], DeliveredOutcome) \in Seq(Evidence)
      BY <1>0, <3>1, RecordedType
    <3>. QED BY <2>1, <3>1, <3>2
  <2>4. TypeOK'
    BY <2>1, <2>2, <2>3 DEF Typed, TypeOK, Evidence, LedgerRows
  <2>5. Learned' /\ RetriesFit'
    BY <2>1 DEF Typed, Learned, RetriesFit
  <2>. QED BY <2>4, <2>5 DEF Typed
<1>15. CASE Stop \/ Resume
  <2>1. eligible' \in BOOLEAN
        /\ UNCHANGED <<exec, ledger, evidence, due, sent, pc, job, answer, faults>>
    BY <1>15 DEF Stop, Resume, records, work
  <2>. QED BY <2>1 DEF Typed, TypeOK, Learned, RetriesFit
<1>16. CASE UNCHANGED vars
  BY <1>16 DEF vars, records, work, Typed, TypeOK, Learned, RetriesFit
<1>. QED
  <2>1. ASSUME NEW w \in Workers, Step(w) \/ Fault(w) PROVE Typed'
    BY <2>1, <1>2, <1>3, <1>4, <1>5, <1>6, <1>7, <1>8, <1>9, <1>10, <1>11, <1>12
       DEF Step, Fault
  <2>. QED BY <2>1, <1>1, <1>13, <1>14, <1>15, <1>16 DEF Next

\* Every reachable state is well typed: in particular nobody holds a completed
\* or a live execution without being its holder, and a published retry is
\* within the budget.
THEOREM TypeCorrect == Spec => []TypeOK
<1>1. Spec => []Typed
  BY InitTyped, StepTyped, PTL DEF Spec
<1>2. Typed => TypeOK
  BY DEF Typed
<1>. QED BY <1>1, <1>2, PTL
-----------------------------------------------------------------------------
(* One send.  The ledger's claim is a permit: it is given once per attempt,  *)
(* it is never given back, and only its holder sends, once.                  *)

Sending(w, n) == pc[w] = "send" /\ job[w] = n

PermitHeld ==
    \A w \in Workers : pc[w] = "send" =>
        ledger[job[w]].claimant = w /\ sent[job[w]] = 0

SentUnderPermit == \A n \in Attempts : sent[n] > 0 => ~Unclaimed(n)

SendInv == Typed /\ PermitHeld /\ SentUnderPermit /\ AtMostOneSend

\* A step that neither gives out a permit to send nor uses one.
NoSending ==
    /\ sent' = sent
    /\ \A w \in Workers, n \in Attempts : Sending(w, n)' => Sending(w, n)
    /\ \A n \in Attempts : ~Unclaimed(n) => ledger'[n].claimant = ledger[n].claimant

\* The ledger gives w the permit of its attempt.
Grants(w) ==
    /\ pc[w] = "ledger" /\ Unclaimed(job[w]) /\ EligibleFor(job[w])
    /\ ledger' = [ledger EXCEPT ![job[w]].claimant = w]
    /\ pc' = [pc EXCEPT ![w] = "send"]
    /\ UNCHANGED <<exec, sent, job, answer>>

\* Every step is of one of these kinds, or a send.
LEMMA StepSending ==
    ASSUME Typed, [Next]_vars
    PROVE  NoSending \/ (\E w \in Workers : Grants(w)) \/ (\E w \in Workers : Send(w))
<1>. USE DEF Typed, TypeOK
<1>1. ASSUME NEW w \in Workers,
             \/ Authorize(w) \/ WriteAttempted(w) \/ Release(w) \/ Complete(w)
             \/ Replay(w) \/ WriteOutcome(w) \/ PublishRetry(w)
             \/ AuthorizeFails(w) \/ WriteAttemptedFails(w) \/ RecordSendFails(w) \/ Crash(w)
      PROVE  NoSending
  <2>1. sent' = sent /\ ledger' = ledger /\ job' = job
    BY <1>1 DEF Authorize, WriteAttempted, Release, Complete, Replay, WriteOutcome,
                PublishRetry, AuthorizeFails, WriteAttemptedFails, RecordSendFails, Crash,
                records, GoTo, LetGo
  <2>2. \E step \in Steps \ {"send"} : pc' = [pc EXCEPT ![w] = step]
    BY <1>1 DEF Authorize, WriteAttempted, Release, Complete, Replay, WriteOutcome,
                PublishRetry, AuthorizeFails, WriteAttemptedFails, RecordSendFails, Crash,
                GoTo, LetGo, Steps
  <2>. QED BY <2>1, <2>2 DEF NoSending, Sending
<1>2. ASSUME NEW w \in Workers, NEW n \in Attempts, Take(w, n) PROVE NoSending
  <2>1. /\ sent' = sent /\ ledger' = ledger /\ job' = [job EXCEPT ![w] = n]
        /\ \E step \in {"replay", "authorize"} : pc' = [pc EXCEPT ![w] = step]
    BY <1>2 DEF Take
  <2>. QED BY <2>1 DEF NoSending, Sending
<1>3. ASSUME NEW w \in Workers, ClaimSend(w) PROVE NoSending \/ Grants(w)
  <2>1. CASE Unclaimed(job[w]) /\ EligibleFor(job[w])
    BY <1>3, <2>1 DEF ClaimSend, Grants, GoTo
  <2>2. CASE ~(Unclaimed(job[w]) /\ EligibleFor(job[w]))
    BY <1>3, <2>2 DEF ClaimSend, Learn, GoTo, NoSending, Sending
  <2>. QED BY <2>1, <2>2
<1>4. ASSUME NEW w \in Workers, ClaimSendFails(w) PROVE NoSending
  BY <1>4 DEF ClaimSendFails, Learn, GoTo, NoSending, Sending, Unclaimed
<1>5. ASSUME NEW w \in Workers, RecordSend(w) PROVE NoSending
  <2>1. \A n \in Attempts : ledger'[n].claimant = ledger[n].claimant
    BY <1>5 DEF RecordSend
  <2>. QED BY <1>5, <2>1 DEF RecordSend, GoTo, NoSending, Sending
<1>6. ASSUME NEW n \in Attempts, LeaseExpires(n) \/ Callback(n) PROVE NoSending
  <2>1. sent' = sent /\ pc' = pc /\ job' = job
    BY <1>6 DEF LeaseExpires, Callback, CallbackCompletesLedger, CallbackWritesEvidence, work
  <2>2. \A m \in Attempts : ledger'[m].claimant = ledger[m].claimant
    BY <1>6 DEF LeaseExpires, Callback, CallbackCompletesLedger, CallbackWritesEvidence
  <2>. QED BY <2>1, <2>2 DEF NoSending, Sending
<1>7. CASE Stop \/ Resume \/ UNCHANGED vars
  BY <1>7 DEF Stop, Resume, vars, records, work, NoSending, Sending
<1>. QED
  <2>1. ASSUME NEW w \in Workers, Step(w) \/ Fault(w)
        PROVE  NoSending \/ Grants(w) \/ Send(w)
    BY <2>1, <1>1, <1>3, <1>4, <1>5 DEF Step, Fault
  <2>. QED BY <2>1, <1>2, <1>6, <1>7 DEF Next

LEMMA StepSend == SendInv /\ [Next]_vars => SendInv'
<1>. SUFFICES ASSUME SendInv, [Next]_vars
              PROVE  PermitHeld' /\ SentUnderPermit' /\ AtMostOneSend'
  BY StepTyped DEF SendInv
<1>. USE DEF SendInv
<1>0. Typed /\ Typed'
  BY StepTyped
<1>1. CASE NoSending
  <2>1. ASSUME NEW w \in Workers, pc'[w] = "send"
        PROVE  ledger'[job'[w]].claimant = w /\ sent'[job'[w]] = 0
    <3>1. job'[w] \in Attempts
      BY <1>0 DEF Typed, TypeOK
    <3>2. pc[w] = "send" /\ job[w] = job'[w]
      BY <1>1, <2>1, <3>1 DEF NoSending, Sending
    <3>3. ledger[job[w]].claimant = w /\ sent[job[w]] = 0
      BY <3>2 DEF PermitHeld
    <3>. QED BY <1>1, <3>1, <3>2, <3>3, NobodyAssumption DEF NoSending, Unclaimed
  <2>2. SentUnderPermit'
    BY <1>1 DEF NoSending, SentUnderPermit, Unclaimed
  <2>. QED BY <1>1, <2>1, <2>2 DEF NoSending, PermitHeld, AtMostOneSend
<1>2. ASSUME NEW w \in Workers, Grants(w)
      PROVE  PermitHeld' /\ SentUnderPermit' /\ AtMostOneSend'
  <2>1. /\ job[w] \in Attempts /\ job' = job /\ sent' = sent
        /\ ledger'[job[w]].claimant = w
        /\ \A n \in Attempts : n # job[w] => ledger'[n] = ledger[n]
    BY <1>0, <1>2 DEF Grants, Typed, TypeOK
  <2>2. sent[job[w]] = 0
    BY <1>0, <1>2, <2>1 DEF Grants, SentUnderPermit, Typed, TypeOK
  <2>3. ASSUME NEW v \in Workers, v # w, pc'[v] = "send"
        PROVE  job[v] # job[w] /\ ledger'[job[v]].claimant = v /\ sent[job[v]] = 0
    <3>1. ledger[job[v]].claimant = v /\ sent[job[v]] = 0 /\ job[v] \in Attempts
      BY <1>0, <1>2, <2>3 DEF Grants, PermitHeld, Typed, TypeOK
    <3>2. ledger[job[w]].claimant = NoWorker
      BY <1>2 DEF Grants, Unclaimed
    <3>. QED BY <2>1, <3>1, <3>2, NobodyAssumption
  <2>4. PermitHeld'
    BY <2>1, <2>2, <2>3 DEF PermitHeld
  <2>5. SentUnderPermit'
    BY <2>1, NobodyAssumption DEF SentUnderPermit, Unclaimed
  <2>. QED BY <2>1, <2>4, <2>5 DEF AtMostOneSend
<1>3. ASSUME NEW w \in Workers, Send(w)
      PROVE  PermitHeld' /\ SentUnderPermit' /\ AtMostOneSend'
  <2>1. PICK k \in {0, 1} : sent' = [sent EXCEPT ![job[w]] = @ + k]
    BY <1>3, SendResultParts DEF Send
  <2>2. /\ pc[w] = "send" /\ pc' = [pc EXCEPT ![w] = "record"]
        /\ ledger' = ledger /\ job' = job /\ job[w] \in Attempts
    BY <1>0, <1>3 DEF Send, GoTo, records, Typed, TypeOK
  <2>3. ledger[job[w]].claimant = w /\ sent[job[w]] = 0
    BY <2>2 DEF PermitHeld
  <2>4. /\ sent'[job[w]] = k
        /\ \A n \in Attempts : n # job[w] => sent'[n] = sent[n]
    BY <1>0, <2>1, <2>2, <2>3 DEF Typed, TypeOK
  <2>5. \A v \in Workers : pc'[v] = "send" => v # w /\ pc[v] = "send"
    BY <1>0, <2>2 DEF Typed, TypeOK
  <2>6. PermitHeld'
    BY <1>0, <2>2, <2>3, <2>4, <2>5 DEF PermitHeld, Typed, TypeOK
  <2>7. SentUnderPermit'
    BY <2>2, <2>3, <2>4, NobodyAssumption DEF SentUnderPermit, Unclaimed
  <2>8. AtMostOneSend'
    BY <2>4 DEF AtMostOneSend
  <2>. QED BY <2>6, <2>7, <2>8
<1>. QED BY <1>0, <1>1, <1>2, <1>3, StepSending

LEMMA InitSend == Init => SendInv
BY InitTyped DEF Init, SendInv, PermitHeld, SentUnderPermit, AtMostOneSend

\* SES is called at most once for an attempt, however many workers take it over
\* and however often it is delivered.
THEOREM OneSendPerAttempt == Spec => []AtMostOneSend
<1>1. Spec => []SendInv
  BY InitSend, StepSend, PTL DEF Spec
<1>2. SendInv => AtMostOneSend
  BY DEF SendInv
<1>. QED BY <1>1, <1>2, PTL
-----------------------------------------------------------------------------
(* Completion.  A worker that still owns its attempt's lease is the one that *)
(* opened it, so nobody has completed it; a worker that was overtaken fails  *)
(* the token comparison.                                                     *)

BeforeCompletion == {"authorize", "attempted", "reauthorize", "ledger", "send",
                     "record", "complete", "release"}

OpenHolder(w) == pc[w] \in BeforeCompletion /\ Owns(w)

OwnersAreOpen == \A w \in Workers : OpenHolder(w) => exec[job[w]].done = NoAnswer

\* A step that changes no execution but the end of a lease.
ExecutionsRest ==
    /\ \A n \in Attempts : exec'[n].done = exec[n].done /\ exec'[n].holder = exec[n].holder
    /\ \A w \in Workers : pc'[w] \in BeforeCompletion =>
          pc[w] \in BeforeCompletion /\ job'[w] = job[w]

\* A step that opens an attempt nobody has completed.
Opens(w, n) ==
    /\ exec[n].done = NoAnswer
    /\ exec' = [exec EXCEPT ![n] = [holder |-> w, live |-> TRUE, done |-> NoAnswer]]
    /\ job' = [job EXCEPT ![w] = n]
    /\ \A v \in Workers : v # w => pc'[v] = pc[v]

\* A step by which the owner of an attempt ends its hold on it.
Closes(w) ==
    /\ OpenHolder(w) /\ job' = job
    /\ exec' = [exec EXCEPT ![job[w]] = NoExecution]
         \/ \E a \in Answers \ {NoAnswer} :
               exec' = [exec EXCEPT ![job[w]].done = a, ![job[w]].live = FALSE]
    /\ pc'[w] \notin BeforeCompletion
    /\ \A v \in Workers : v # w => pc'[v] = pc[v]

LEMMA StepExecutions ==
    ASSUME Typed, OwnersAreOpen, [Next]_vars
    PROVE  \/ ExecutionsRest
           \/ \E w \in Workers, n \in Attempts : Opens(w, n)
           \/ \E w \in Workers : Closes(w)
<1>. USE DEF Typed, TypeOK
<1>1. ASSUME NEW w \in Workers,
             \/ Authorize(w) \/ WriteAttempted(w) \/ ClaimSend(w) \/ Send(w)
             \/ RecordSend(w) \/ Replay(w) \/ WriteOutcome(w) \/ PublishRetry(w)
             \/ AuthorizeFails(w) \/ WriteAttemptedFails(w) \/ ClaimSendFails(w)
             \/ RecordSendFails(w) \/ Crash(w)
      PROVE  ExecutionsRest
  <2>1. exec' = exec /\ job' = job
    BY <1>1 DEF Authorize, WriteAttempted, ClaimSend, Send, RecordSend, Replay,
                WriteOutcome, PublishRetry, AuthorizeFails, WriteAttemptedFails,
                ClaimSendFails, RecordSendFails, Crash, records, GoTo, LetGo, Learn
  <2>2. \E step \in Steps :
          /\ pc' = [pc EXCEPT ![w] = step]
          /\ step \in BeforeCompletion => pc[w] \in BeforeCompletion
    BY <1>1 DEF Authorize, WriteAttempted, ClaimSend, Send, RecordSend, Replay,
                WriteOutcome, PublishRetry, AuthorizeFails, WriteAttemptedFails,
                ClaimSendFails, RecordSendFails, Crash, GoTo, LetGo, Learn, Steps,
                BeforeCompletion
  <2>. QED BY <2>1, <2>2 DEF ExecutionsRest
<1>2. ASSUME NEW w \in Workers, NEW n \in Attempts, Take(w, n)
      PROVE  ExecutionsRest \/ Opens(w, n)
  <2>1. CASE exec' = exec /\ pc' = [pc EXCEPT ![w] = "replay"]
    BY <1>2, <2>1 DEF Take, ExecutionsRest, BeforeCompletion
  <2>2. CASE Free(n) /\ pc' = [pc EXCEPT ![w] = "authorize"]
    BY <1>2, <2>2 DEF Take, Free, Opens
  <2>. QED BY <1>2, <2>1, <2>2 DEF Take
<1>3. ASSUME NEW w \in Workers, Release(w) PROVE ExecutionsRest \/ Closes(w)
  <2>1. /\ pc[w] = "release" /\ pc' = [pc EXCEPT ![w] = "idle"] /\ job' = job
    BY <1>3 DEF Release, LetGo, GoTo
  <2>2. CASE exec' = exec
    BY <2>1, <2>2 DEF ExecutionsRest, BeforeCompletion
  <2>3. CASE Owns(w) /\ exec' = [exec EXCEPT ![job[w]] = NoExecution]
    BY <2>1, <2>3 DEF Closes, OpenHolder, BeforeCompletion
  <2>. QED BY <1>3, <2>2, <2>3 DEF Release
<1>4. ASSUME NEW w \in Workers, Complete(w) PROVE ExecutionsRest \/ Closes(w)
  <2>1. pc[w] = "complete"
    BY <1>4 DEF Complete
  <2>2. CASE ~Owns(w)
    BY <1>4, <2>2 DEF Complete, LetGo, GoTo, ExecutionsRest, BeforeCompletion
  <2>3. CASE Owns(w)
    <3>1. Decision(job[w], answer[w]) \in Answers \ {NoAnswer}
      BY <2>1, DecisionParts DEF Learned
    <3>2. /\ exec' = [exec EXCEPT ![job[w]].done = Decision(job[w], answer[w]),
                                  ![job[w]].live = FALSE]
          /\ pc' = [pc EXCEPT ![w] = "outcome"] /\ job' = job
      BY <1>4, <2>3 DEF Complete, GoTo
    <3>. QED BY <2>1, <2>3, <3>1, <3>2 DEF Closes, OpenHolder, BeforeCompletion
  <2>. QED BY <2>2, <2>3
<1>5. ASSUME NEW n \in Attempts, LeaseExpires(n) \/ Callback(n) PROVE ExecutionsRest
  <2>1. CASE LeaseExpires(n)
    <3>1. /\ exec' = [exec EXCEPT ![n].live = FALSE]
          /\ pc' = pc /\ job' = job
      BY <2>1 DEF LeaseExpires, work
    <3>. QED BY <3>1 DEF ExecutionsRest
  <2>2. CASE Callback(n)
    BY <2>2 DEF Callback, CallbackCompletesLedger, CallbackWritesEvidence, work,
                ExecutionsRest
  <2>. QED BY <1>5, <2>1, <2>2
<1>6. CASE Stop \/ Resume \/ UNCHANGED vars
  BY <1>6 DEF Stop, Resume, vars, records, work, ExecutionsRest
<1>. QED
  <2>1. ASSUME NEW w \in Workers, Step(w) \/ Fault(w)
        PROVE  ExecutionsRest \/ Closes(w)
    BY <2>1, <1>1, <1>3, <1>4 DEF Step, Fault
  <2>. QED BY <2>1, <1>2, <1>5, <1>6 DEF Next

DoneInv == Typed /\ OwnersAreOpen

LEMMA StepDone == DoneInv /\ [Next]_vars => DoneInv'
<1>. SUFFICES ASSUME DoneInv, [Next]_vars PROVE OwnersAreOpen'
  BY StepTyped DEF DoneInv
<1>. USE DEF DoneInv, Typed, TypeOK
<1>1. CASE ExecutionsRest
  BY <1>1 DEF ExecutionsRest, OwnersAreOpen, OpenHolder, Owns
<1>2. ASSUME NEW w \in Workers, NEW n \in Attempts, Opens(w, n) PROVE OwnersAreOpen'
  <2>1. /\ exec'[n].holder = w /\ exec'[n].done = NoAnswer /\ job'[w] = n
        /\ \A m \in Attempts : m # n => exec'[m] = exec[m]
        /\ \A v \in Workers : v # w => job'[v] = job[v] /\ pc'[v] = pc[v]
    BY <1>2 DEF Opens
  <2>2. ASSUME NEW v \in Workers, OpenHolder(v)'
        PROVE  exec'[job'[v]].done = NoAnswer
    <3>1. CASE job'[v] = n
      BY <2>1, <3>1
    <3>2. CASE job'[v] # n
      <4>1. v # w /\ job'[v] = job[v] /\ pc'[v] = pc[v] /\ job[v] \in Attempts
        BY <2>1, <3>2
      <4>2. exec'[job[v]] = exec[job[v]]
        BY <2>1, <3>2, <4>1
      <4>. QED BY <2>2, <4>1, <4>2 DEF OwnersAreOpen, OpenHolder, Owns
    <3>. QED BY <3>1, <3>2
  <2>. QED BY <2>2 DEF OwnersAreOpen
<1>3. ASSUME NEW w \in Workers, Closes(w) PROVE OwnersAreOpen'
  <2>1. /\ exec[job[w]].holder = w /\ job' = job
        /\ \A v \in Workers : v # w => pc'[v] = pc[v]
        /\ pc'[w] \notin BeforeCompletion
    BY <1>3 DEF Closes, OpenHolder, Owns
  <2>2. \A m \in Attempts : m # job[w] => exec'[m] = exec[m]
    BY <1>3 DEF Closes
  <2>3. exec'[job[w]].holder \in {w, NoWorker}
    <3>1. CASE exec' = [exec EXCEPT ![job[w]] = NoExecution]
      BY <3>1 DEF NoExecution
    <3>2. ASSUME NEW a \in Answers,
                 exec' = [exec EXCEPT ![job[w]].done = a, ![job[w]].live = FALSE]
          PROVE  exec'[job[w]].holder = w
      BY <2>1, <3>2
    <3>. QED BY <1>3, <3>1, <3>2 DEF Closes
  <2>4. ASSUME NEW v \in Workers, OpenHolder(v)'
        PROVE  exec'[job'[v]].done = NoAnswer
    <3>1. v # w /\ pc[v] \in BeforeCompletion /\ job'[v] = job[v]
          /\ exec'[job[v]].holder = v /\ job[v] \in Attempts
      BY <2>1, <2>4 DEF OpenHolder, Owns
    <3>2. job[v] # job[w]
      BY <2>3, <3>1, NobodyAssumption
    <3>. QED BY <2>2, <3>1, <3>2 DEF OwnersAreOpen, OpenHolder, Owns
  <2>. QED BY <2>4 DEF OwnersAreOpen
<1>. QED BY <1>1, <1>2, <1>3, StepExecutions

LEMMA StepKeepsDone ==
    ASSUME DoneInv, [Next]_vars, NEW n \in Attempts, exec[n].done # NoAnswer
    PROVE  exec'[n].done = exec[n].done
<1>. USE DEF DoneInv, Typed, TypeOK
<1>1. CASE ExecutionsRest
  BY <1>1 DEF ExecutionsRest
<1>2. CASE \E w \in Workers, m \in Attempts : Opens(w, m)
  BY <1>2 DEF Opens
<1>3. CASE \E w \in Workers : Closes(w)
  BY <1>3 DEF Closes, OwnersAreOpen
<1>. QED BY <1>1, <1>2, <1>3, StepExecutions

LEMMA InitDone == Init => DoneInv
BY InitTyped DEF Init, DoneInv, OwnersAreOpen, OpenHolder, BeforeCompletion

\* A completion, once stored, is never replaced or removed by a worker whose
\* lease was taken over.
THEOREM CompletionStands == Spec => CompletionIsFinal
<1>1. DoneInv /\ [Next]_vars
        => [\A n \in Attempts : exec[n].done # NoAnswer => exec'[n].done = exec[n].done]_vars
  BY StepKeepsDone
<1>2. Spec => []DoneInv
  BY InitDone, StepDone, PTL DEF Spec
<1>. QED BY <1>1, <1>2, PTL DEF Spec, CompletionIsFinal
-----------------------------------------------------------------------------
(* One email.  An attempt that asks for a successor was claimed in the       *)
(* ledger and sent nothing, so nobody can send it any more; and an attempt   *)
(* is only sent when every earlier one asked for a successor.  The first     *)
(* half fails when a ledger call may fail: see the run outage.               *)

Closed(n) == ~Unclaimed(n) /\ sent[n] = 0 /\ \A w \in Workers : ~Sending(w, n)

DoneRetriesClosed == \A n \in Attempts : exec[n].done.retry => Closed(n)

LearnedRetriesClosed ==
    \A w \in Workers : pc[w] \in {"record", "complete"} /\ answer[w].retry
                          => Closed(job[w])

\* Every earlier attempt asked for a successor.
Reached(n) == \A m \in Attempts : m < n => exec[m].done.retry

SentInOrder ==
    /\ \A w \in Workers, n \in Attempts : Sending(w, n) => Reached(n)
    /\ \A n \in Attempts : sent[n] > 0 => Reached(n)

OneEmailInv == /\ SendInv /\ DoneInv
               /\ DoneRetriesClosed /\ LearnedRetriesClosed /\ SentInOrder

LEMMA ClosedStays ==
    ASSUME SendInv, [Next]_vars, NEW n \in Attempts, Closed(n)
    PROVE  Closed(n)'
<1>. USE DEF SendInv
<1>0. Typed /\ Typed'
  BY StepTyped
<1>1. CASE NoSending
  BY <1>1 DEF NoSending, Closed, Unclaimed
<1>2. ASSUME NEW w \in Workers, Grants(w) PROVE Closed(n)'
  <2>1. job[w] # n
    BY <1>2 DEF Grants, Closed
  <2>. QED BY <1>0, <1>2, <2>1 DEF Grants, Closed, Unclaimed, Sending, Typed, TypeOK
<1>3. ASSUME NEW w \in Workers, Send(w) PROVE Closed(n)'
  <2>1. job[w] # n
    BY <1>3 DEF Send, Closed, Sending
  <2>2. \E k \in Nat : sent' = [sent EXCEPT ![job[w]] = @ + k]
    BY <1>3, SendResultParts DEF Send
  <2>3. sent'[n] = sent[n]
    BY <1>0, <2>1, <2>2 DEF Typed, TypeOK
  <2>. QED
    BY <1>0, <1>3, <2>3 DEF Send, GoTo, records, Closed, Unclaimed, Sending, Typed, TypeOK
<1>. QED BY <1>0, <1>1, <1>2, <1>3, StepSending

\* A completion that asks for a successor comes from an answer that does.
LEMMA RetryIsDecided ==
    ASSUME Typed, [Next]_vars, NEW n \in Attempts, exec'[n].done.retry
    PROVE  \/ exec[n].done.retry
           \/ \E w \in Workers : pc[w] = "complete" /\ job[w] = n /\ answer[w].retry
<1>. USE DEF Typed, TypeOK
<1>0. NoAnswer.retry = FALSE
  BY DEF NoAnswer, Answer
<1>1. CASE exec' = exec
  BY <1>1
<1>2. ASSUME NEW w \in Workers, Complete(w), Owns(w)
      PROVE  \/ exec[n].done.retry
             \/ pc[w] = "complete" /\ job[w] = n /\ answer[w].retry
  <2>1. /\ pc[w] = "complete" /\ job[w] \in Attempts
        /\ answer[w] \in Answers /\ answer[w].outcome \in Outcomes
        /\ exec' = [exec EXCEPT ![job[w]].done = Decision(job[w], answer[w]),
                                ![job[w]].live = FALSE]
    BY <1>2 DEF Complete, Learned
  <2>2. CASE n = job[w]
    <3>1. exec'[n].done = Decision(n, answer[w])
      BY <2>1, <2>2
    <3>. QED BY <2>1, <2>2, <3>1, DecisionParts
  <2>3. CASE n # job[w]
    BY <2>1, <2>3
  <2>. QED BY <2>2, <2>3
<1>3. ASSUME NEW w \in Workers, NEW m \in Attempts, Take(w, m), Free(m), exec' # exec
      PROVE  exec[n].done.retry
  <2>1. exec' = [exec EXCEPT ![m] = [holder |-> w, live |-> TRUE, done |-> NoAnswer]]
    BY <1>3 DEF Take
  <2>2. n # m
    BY <1>0, <2>1
  <2>. QED BY <2>1, <2>2
<1>4. ASSUME NEW w \in Workers, Release(w) PROVE exec[n].done.retry
  BY <1>0, <1>4 DEF Release, NoExecution
<1>5. ASSUME NEW m \in Attempts, LeaseExpires(m) PROVE exec[n].done.retry
  <2>1. exec'[n].done = exec[n].done
    BY <1>5 DEF LeaseExpires
  <2>. QED BY <2>1
<1>6. ASSUME NEW w \in Workers, NEW m \in Attempts, Take(w, m)
      PROVE  exec' = exec \/ Free(m)
  BY <1>6 DEF Take
<1>7. ASSUME NEW w \in Workers, Step(w) \/ Fault(w)
      PROVE  exec' = exec \/ (Complete(w) /\ Owns(w)) \/ Release(w)
  BY <1>7 DEF Step, Fault, Authorize, WriteAttempted, ClaimSend, Send, RecordSend,
              Complete, Replay, WriteOutcome, PublishRetry, AuthorizeFails,
              WriteAttemptedFails, ClaimSendFails, RecordSendFails, Crash, records
<1>8. ASSUME NEW m \in Attempts, Callback(m) PROVE exec' = exec
  BY <1>8 DEF Callback, CallbackCompletesLedger, CallbackWritesEvidence
<1>9. CASE Stop \/ Resume \/ UNCHANGED vars
  BY <1>1, <1>9 DEF Stop, Resume, vars, records
<1>. QED BY <1>1, <1>2, <1>3, <1>4, <1>5, <1>6, <1>7, <1>8, <1>9 DEF Next

\* While the ledger answers, only a send that SES refused may be tried again.
LEMMA RetryIsLearned ==
    ASSUME LedgerMayFail = FALSE, SendInv, [Next]_vars, NEW w \in Workers,
           pc'[w] \in {"record", "complete"}, answer'[w].retry
    PROVE  \/ pc[w] \in {"record", "complete"} /\ job'[w] = job[w]
                /\ answer[w].retry
           \/ \E n \in Attempts : job'[w] = n /\ Closed(n)'
<1>. USE DEF SendInv, Typed, TypeOK
<1>1. ASSUME NEW v \in Workers, v # w, Step(v) \/ Fault(v)
      PROVE  pc'[w] = pc[w] /\ job'[w] = job[w] /\ answer'[w] = answer[w]
  BY <1>1 DEF Step, Fault, Authorize, WriteAttempted, Release, ClaimSend, Send,
              RecordSend, Complete, Replay, WriteOutcome, PublishRetry, AuthorizeFails,
              WriteAttemptedFails, ClaimSendFails, RecordSendFails, Crash, GoTo, LetGo,
              Learn
<1>2. CASE \/ Authorize(w) \/ WriteAttempted(w) \/ Release(w) \/ Complete(w)
           \/ Replay(w) \/ WriteOutcome(w) \/ PublishRetry(w)
           \/ AuthorizeFails(w) \/ WriteAttemptedFails(w) \/ Crash(w)
  <2>1. pc'[w] \notin {"record", "complete"}
    BY <1>2 DEF Authorize, WriteAttempted, Release, Complete, Replay, WriteOutcome,
                PublishRetry, AuthorizeFails, WriteAttemptedFails, Crash, GoTo, LetGo
  <2>. QED BY <2>1
<1>3. CASE RecordSend(w) \/ RecordSendFails(w)
  BY <1>3 DEF RecordSend, RecordSendFails, GoTo
<1>4. CASE ClaimSend(w)
  <2>1. CASE Unclaimed(job[w]) /\ EligibleFor(job[w])
    BY <1>4, <2>1 DEF ClaimSend, GoTo
  <2>2. CASE ~(Unclaimed(job[w]) /\ EligibleFor(job[w]))
    <3>1. answer'[w] = Refusal(job[w])
      BY <1>4, <2>2 DEF ClaimSend, Learn
    <3>. QED BY <3>1, RefusalType
  <2>. QED BY <2>1, <2>2
<1>5. CASE Send(w)
  <2>1. PICK r \in SendResults :
          /\ sent' = [sent EXCEPT ![job[w]] = @ + r[1]]
          /\ answer' = [answer EXCEPT ![w] = r[2]]
    BY <1>5 DEF Send
  <2>2. r[1] = 0
    BY <2>1, SendResultParts
  <2>3. /\ pc[w] = "send" /\ pc' = [pc EXCEPT ![w] = "record"]
        /\ ledger' = ledger /\ job' = job
        /\ ledger[job[w]].claimant = w /\ sent[job[w]] = 0
    BY <1>5 DEF Send, GoTo, records, PermitHeld
  <2>4. PICK n \in Attempts : n = job[w]
    OBVIOUS
  <2>5. sent'[n] = 0 /\ ledger'[n].claimant = w
    BY <2>1, <2>2, <2>3, <2>4
  <2>6. ASSUME NEW v \in Workers PROVE ~(pc'[v] = "send" /\ job'[v] = n)
    BY <2>3, <2>4 DEF PermitHeld
  <2>7. Closed(n)'
    BY <2>5, <2>6, NobodyAssumption DEF Closed, Sending, Unclaimed
  <2>8. job'[w] = n
    BY <2>3, <2>4
  <2>. QED BY <2>7, <2>8
<1>6. CASE ClaimSendFails(w)
  BY <1>6 DEF ClaimSendFails
<1>7. ASSUME NEW v \in Workers, NEW n \in Attempts, Take(v, n)
      PROVE  v # w /\ pc'[w] = pc[w] /\ job'[w] = job[w] /\ answer'[w] = answer[w]
  BY <1>7 DEF Take
<1>8. CASE Stop \/ Resume \/ UNCHANGED vars \/ \E n \in Attempts : LeaseExpires(n) \/ Callback(n)
  BY <1>8 DEF Stop, Resume, vars, work, LeaseExpires, Callback, CallbackCompletesLedger,
              CallbackWritesEvidence
<1>9. CASE Step(w) \/ Fault(w)
  BY <1>9, <1>2, <1>3, <1>4, <1>5, <1>6 DEF Step, Fault
<1>. QED BY <1>1, <1>7, <1>8, <1>9 DEF Next

LEMMA StepOneEmail ==
    LedgerMayFail = FALSE => (OneEmailInv /\ [Next]_vars => OneEmailInv')
<1>. SUFFICES ASSUME LedgerMayFail = FALSE, OneEmailInv, [Next]_vars
              PROVE  DoneRetriesClosed' /\ LearnedRetriesClosed' /\ SentInOrder'
  BY StepSend, StepDone DEF OneEmailInv
<1>. USE DEF OneEmailInv
<1>0. Typed /\ Typed' /\ SendInv /\ DoneInv
  BY StepTyped DEF SendInv
<1>1. ASSUME NEW n \in Attempts, exec'[n].done.retry PROVE Closed(n)'
  <2>1. Closed(n)
    BY <1>0, <1>1, RetryIsDecided DEF DoneRetriesClosed, LearnedRetriesClosed
  <2>. QED BY <1>0, <2>1, ClosedStays
<1>2. ASSUME NEW w \in Workers, pc'[w] \in {"record", "complete"}, answer'[w].retry
      PROVE  \E n \in Attempts : job'[w] = n /\ Closed(n)'
  <2>1. CASE pc[w] \in {"record", "complete"} /\ job'[w] = job[w] /\ answer[w].retry
    <3>1. PICK n \in Attempts : n = job[w]
      BY <1>0 DEF Typed, TypeOK
    <3>2. Closed(n)
      BY <2>1, <3>1 DEF LearnedRetriesClosed
    <3>3. Closed(n)'
      BY <1>0, <3>2, ClosedStays
    <3>4. job'[w] = n
      BY <2>1, <3>1
    <3>. QED BY <3>3, <3>4
  <2>. QED BY <1>0, <1>2, <2>1, RetryIsLearned
<1>3. ASSUME NEW n \in Attempts, Reached(n) PROVE Reached(n)'
  <2>1. ASSUME NEW m \in Attempts, m < n PROVE exec'[m].done.retry
    <3>1. exec[m].done.retry /\ exec[m].done # NoAnswer
      BY <1>3, <2>1 DEF Reached, NoAnswer, Answer
    <3>. QED BY <1>0, <3>1, StepKeepsDone
  <2>. QED BY <2>1 DEF Reached
<1>4. SentInOrder'
  <2>1. CASE NoSending
    BY <2>1, <1>3 DEF NoSending, SentInOrder
  <2>2. ASSUME NEW w \in Workers, Grants(w) PROVE SentInOrder'
    <3>1. PICK n \in Attempts : n = job[w]
      BY <1>0 DEF Typed, TypeOK
    <3>2. Reached(n)
      BY <2>2, <3>1 DEF Grants, EligibleFor, Reached, Attempts
    <3>3. \A v \in Workers, m \in Attempts : Sending(v, m)' => Sending(v, m) \/ m = n
      BY <1>0, <2>2, <3>1 DEF Grants, Sending, Typed, TypeOK
    <3>. QED BY <2>2, <3>2, <3>3, <1>3 DEF Grants, SentInOrder
  <2>3. ASSUME NEW w \in Workers, Send(w) PROVE SentInOrder'
    <3>1. PICK n \in Attempts : n = job[w]
      BY <1>0 DEF Typed, TypeOK
    <3>2. Reached(n)
      BY <2>3, <3>1 DEF Send, SentInOrder, Sending
    <3>3. \A v \in Workers, m \in Attempts : Sending(v, m)' => Sending(v, m)
      BY <1>0, <2>3 DEF Send, GoTo, Sending, Typed, TypeOK
    <3>4. \A m \in Attempts : m # n => sent'[m] = sent[m]
      BY <1>0, <2>3, <3>1 DEF Send, Typed, TypeOK
    <3>5. \A v \in Workers, m \in Attempts : Sending(v, m)' => Reached(m)'
      BY <3>3, <1>3 DEF SentInOrder
    <3>6. ASSUME NEW m \in Attempts, sent'[m] > 0 PROVE Reached(m)'
      <4>1. CASE m = n
        BY <3>2, <4>1, <1>3
      <4>2. CASE m # n
        <5>1. sent[m] > 0
          BY <3>4, <3>6, <4>2
        <5>. QED BY <5>1, <1>3 DEF SentInOrder
      <4>. QED BY <4>1, <4>2
    <3>. QED BY <3>5, <3>6 DEF SentInOrder
  <2>. QED BY <1>0, <2>1, <2>2, <2>3, StepSending
<1>5. LearnedRetriesClosed'
  <2>1. ASSUME NEW w \in Workers, pc'[w] \in {"record", "complete"}, answer'[w].retry
        PROVE  Closed(job[w])'
    BY <2>1, <1>2 DEF Closed, Sending, Unclaimed
  <2>. QED BY <2>1 DEF LearnedRetriesClosed
<1>. QED BY <1>1, <1>4, <1>5 DEF DoneRetriesClosed

LEMMA InitOneEmail == Init => OneEmailInv
<1>. SUFFICES ASSUME Init PROVE OneEmailInv
  OBVIOUS
<1>1. NoAnswer.retry = FALSE
  BY DEF NoAnswer, Answer
<1>. QED
  BY <1>1, InitSend, InitDone DEF Init, OneEmailInv, DoneRetriesClosed,
     LearnedRetriesClosed, SentInOrder, Sending, NoExecution

\* While the send ledger answers, a recipient gets one email: whatever is
\* redelivered, taken over or retried, no two attempts are both accepted.
THEOREM OneEmailWhileLedgerAnswers ==
    LedgerMayFail = FALSE => (Spec => []OneEmailPerRecipient)
<1>. SUFFICES ASSUME LedgerMayFail = FALSE PROVE Spec => []OneEmailPerRecipient
  OBVIOUS
<1>1. OneEmailInv /\ [Next]_vars => OneEmailInv'
  BY StepOneEmail
<1>2. OneEmailInv => OneEmailPerRecipient
  <2>. SUFFICES ASSUME OneEmailInv, NEW m \in Attempts, NEW n \in Attempts,
                       sent[m] > 0, sent[n] > 0, m < n
                PROVE  FALSE
    BY RetryPolicyAssumption DEF OneEmailPerRecipient, Attempts
  <2>1. exec[m].done.retry
    BY DEF OneEmailInv, SentInOrder, Reached
  <2>. QED BY <2>1 DEF OneEmailInv, DoneRetriesClosed, Closed
<1>. QED BY <1>1, <1>2, InitOneEmail, PTL DEF Spec
-----------------------------------------------------------------------------
(* Acceptance.  It is learned from SES's answer to an accepted message, or   *)
(* from a callback about one, and only copied from there: into the ledger,   *)
(* the completion, a later worker's answer and the evidence.                 *)

Late == {"record", "complete", "replay", "outcome", "publish"}

AcceptanceIsTrue ==
    /\ \A n \in Attempts : exec[n].done.outcome = AcceptedOutcome => sent[n] > 0
    /\ \A n \in Attempts : ledger[n].outcome = AcceptedOutcome => sent[n] > 0
    /\ \A w \in Workers : pc[w] \in Late /\ answer[w].outcome = AcceptedOutcome
                             => sent[job[w]] > 0

AcceptanceInv == Typed /\ AcceptanceIsTrue /\ NoFalseAcceptance

\* One more fact is not a false acceptance if it is none itself.
LEMMA RecordedAcceptance ==
    ASSUME NEW chain \in Seq(Evidence), NEW f \in Evidence, NEW truth \in BOOLEAN,
           \A i \in DOMAIN chain :
              chain[i].state \in {"provider-accepted", "delivered"} => truth,
           f.state \in {"provider-accepted", "delivered"} => truth,
           NEW i \in DOMAIN Recorded(chain, f),
           Recorded(chain, f)[i].state \in {"provider-accepted", "delivered"}
    PROVE  truth
<1>1. CASE Recorded(chain, f) = chain
  BY <1>1
<1>2. CASE Recorded(chain, f) = Append(chain, f)
  BY <1>2
<1>. QED BY <1>1, <1>2 DEF Recorded

\* The step that copies nothing and records nothing new.
NothingLearned ==
    /\ \A n \in Attempts : sent'[n] >= sent[n]
    /\ \A n \in Attempts : exec'[n].done = exec[n].done \/ exec'[n].done = NoAnswer
    /\ \A n \in Attempts : ledger'[n].outcome = ledger[n].outcome
    /\ evidence' = evidence
    /\ \A w \in Workers : pc'[w] \in Late =>
          pc[w] \in Late /\ answer'[w] = answer[w] /\ job'[w] = job[w]

LEMMA NothingLearnedKeeps ==
    ASSUME AcceptanceInv, Typed', NothingLearned
    PROVE  AcceptanceIsTrue' /\ NoFalseAcceptance'
<1>. USE DEF AcceptanceInv, NothingLearned
<1>1. /\ \A n \in Attempts : sent[n] \in Nat /\ sent'[n] \in Nat
      /\ \A w \in Workers : job[w] \in Attempts
      /\ NoAnswer.outcome # AcceptedOutcome
  BY OutcomeStates DEF Typed, TypeOK, NoAnswer, Answer
<1>2. \A n \in Attempts : sent[n] > 0 => sent'[n] > 0
  BY <1>1
<1>3. AcceptanceIsTrue'
  BY <1>1, <1>2 DEF AcceptanceIsTrue
<1>4. NoFalseAcceptance'
  BY <1>2 DEF NoFalseAcceptance
<1>. QED BY <1>3, <1>4

LEMMA StepAcceptance == AcceptanceInv /\ [Next]_vars => AcceptanceInv'
<1>. SUFFICES ASSUME AcceptanceInv, [Next]_vars
              PROVE  AcceptanceIsTrue' /\ NoFalseAcceptance'
  BY StepTyped DEF AcceptanceInv
<1>. USE DEF AcceptanceInv, Typed, TypeOK
<1>0. /\ Typed' /\ Typed
      /\ evidence \in [Attempts -> Seq(Evidence)]
      /\ Attempted \in Evidence /\ DeliveredOutcome \in Evidence /\ Outcomes \subseteq Evidence
      /\ NoAnswer.outcome # AcceptedOutcome
  BY StepTyped, OutcomeStates DEF Evidence, NoAnswer, Answer
<1>1. ASSUME NEW w \in Workers,
             \/ Authorize(w) \/ Release(w) \/ PublishRetry(w) \/ AuthorizeFails(w)
             \/ WriteAttemptedFails(w) \/ RecordSendFails(w) \/ Crash(w)
      PROVE  NothingLearned
  <2>1. /\ sent' = sent /\ ledger' = ledger /\ evidence' = evidence /\ job' = job
        /\ exec' = exec \/ exec' = [exec EXCEPT ![job[w]] = NoExecution]
    BY <1>1 DEF Authorize, Release, PublishRetry, AuthorizeFails, WriteAttemptedFails,
                RecordSendFails, Crash, records, GoTo, LetGo
  <2>2. \E step \in Steps :
          /\ pc' = [pc EXCEPT ![w] = step]
          /\ step \in Late => pc[w] \in Late /\ answer' = answer
          /\ \A v \in Workers \ {w} : answer'[v] = answer[v]
    BY <1>1 DEF Authorize, Release, PublishRetry, AuthorizeFails, WriteAttemptedFails,
                RecordSendFails, Crash, GoTo, LetGo, Steps, Late
  <2>3. \A n \in Attempts : exec'[n].done = exec[n].done \/ exec'[n].done = NoAnswer
    <3>1. NoExecution.done = NoAnswer
      BY DEF NoExecution
    <3>2. CASE exec' = [exec EXCEPT ![job[w]] = NoExecution]
      BY <3>1, <3>2
    <3>. QED BY <2>1, <3>2
  <2>. QED BY <2>1, <2>2, <2>3 DEF NothingLearned
<1>2. ASSUME NEW w \in Workers, NEW n \in Attempts, Take(w, n)
      PROVE  AcceptanceIsTrue' /\ NoFalseAcceptance'
  <2>1. /\ UNCHANGED <<ledger, evidence, sent>> /\ job' = [job EXCEPT ![w] = n]
        /\ \A v \in Workers : v # w => pc'[v] = pc[v] /\ answer'[v] = answer[v]
        /\ exec' = exec \/ exec' = [exec EXCEPT ![n] =
                                       [holder |-> w, live |-> TRUE, done |-> NoAnswer]]
    BY <1>2 DEF Take
  <2>. \A m \in Attempts : exec'[m].done = exec[m].done \/ exec'[m].done = NoAnswer
    <3>1. CASE exec' = [exec EXCEPT ![n] = [holder |-> w, live |-> TRUE, done |-> NoAnswer]]
      BY <3>1
    <3>. QED BY <2>1, <3>1
  <2>2. pc'[w] \in Late => answer'[w] = exec[n].done
    BY <1>2 DEF Take, Late
  <2>3. AcceptanceIsTrue'
    BY <1>0, <2>1, <2>2 DEF AcceptanceIsTrue
  <2>4. NoFalseAcceptance'
    BY <2>1 DEF NoFalseAcceptance
  <2>. QED BY <2>3, <2>4
<1>3. ASSUME NEW f \in Evidence, NEW n \in Attempts,
             evidence' = [evidence EXCEPT ![n] = Recorded(@, f)],
             sent' = sent, f.state \in {"provider-accepted", "delivered"} => sent[n] > 0
      PROVE  NoFalseAcceptance'
  <2>1. ASSUME NEW m \in Attempts, NEW i \in DOMAIN evidence'[m],
               evidence'[m][i].state \in {"provider-accepted", "delivered"}
        PROVE  sent[m] > 0
    <3>1. CASE m # n
      BY <1>3, <2>1, <3>1 DEF NoFalseAcceptance
    <3>2. CASE m = n
      <4>1. evidence'[n] = Recorded(evidence[n], f) /\ evidence[n] \in Seq(Evidence)
        BY <1>0, <1>3
      <4>2. \A j \in DOMAIN evidence[n] :
               evidence[n][j].state \in {"provider-accepted", "delivered"} => sent[n] > 0
        BY DEF NoFalseAcceptance
      <4>. QED BY <1>3, <2>1, <3>2, <4>1, <4>2, RecordedAcceptance
    <3>. QED BY <3>1, <3>2
  <2>. QED BY <1>3, <2>1 DEF NoFalseAcceptance
<1>4. ASSUME NEW w \in Workers, WriteAttempted(w) \/ Replay(w) \/ WriteOutcome(w)
      PROVE  AcceptanceIsTrue' /\ NoFalseAcceptance'
  <2>1. /\ UNCHANGED <<exec, ledger, sent, job>>
        /\ \A v \in Workers : pc'[v] \in Late => pc[v] \in Late /\ answer'[v] = answer[v]
    BY <1>4 DEF WriteAttempted, Replay, WriteOutcome, GoTo, LetGo, Late
  <2>2. AcceptanceIsTrue'
    BY <2>1 DEF AcceptanceIsTrue
  <2>3. PICK n \in Attempts : n = job[w]
    OBVIOUS
  <2>4. \E f \in Evidence :
          /\ evidence' = [evidence EXCEPT ![n] = Recorded(@, f)]
          /\ f.state \in {"provider-accepted", "delivered"} => sent[n] > 0
    <3>1. CASE WriteAttempted(w) \/ Replay(w)
      BY <1>0, <2>3, <3>1, OutcomeStates DEF WriteAttempted, Replay
    <3>2. CASE WriteOutcome(w)
      <4>1. /\ pc[w] = "outcome" /\ answer[w].outcome \in Outcomes
            /\ evidence' = [evidence EXCEPT ![n] = Recorded(@, answer[w].outcome)]
        BY <2>3, <3>2 DEF WriteOutcome, Learned
      <4>. QED BY <1>0, <2>3, <4>1, OutcomeStates DEF AcceptanceIsTrue, Late
    <3>. QED BY <1>4, <3>1, <3>2
  <2>. QED BY <1>3, <2>1, <2>2, <2>4
<1>5. ASSUME NEW w \in Workers, ClaimSend(w) \/ ClaimSendFails(w)
      PROVE  AcceptanceIsTrue' /\ NoFalseAcceptance'
  <2>1. /\ UNCHANGED <<exec, evidence, sent, job>> /\ job[w] \in Attempts
        /\ ledger' = ledger \/ ledger' = [ledger EXCEPT ![job[w]].claimant = w]
        /\ \A v \in Workers : v # w => pc'[v] = pc[v] /\ answer'[v] = answer[v]
    BY <1>5 DEF ClaimSend, ClaimSendFails, Learn, GoTo
  <2>. \A n \in Attempts : ledger'[n].outcome = ledger[n].outcome
    <3>1. CASE ledger' = [ledger EXCEPT ![job[w]].claimant = w]
      BY <3>1
    <3>. QED BY <2>1, <3>1
  <2>2. pc'[w] \in Late /\ answer'[w].outcome = AcceptedOutcome
          => ledger[job[w]].outcome = AcceptedOutcome
    <3>1. Failed("LEDGER_UNAVAILABLE") # AcceptedOutcome
          /\ Answer(Failed("LEDGER_UNAVAILABLE"), TRUE).outcome = Failed("LEDGER_UNAVAILABLE")
      BY OutcomeStates, OutcomeMembers, AnswerParts
    <3>. QED BY <1>5, <3>1, RefusalType DEF ClaimSend, ClaimSendFails, Learn, GoTo, Late
  <2>3. AcceptanceIsTrue'
    BY <2>1, <2>2 DEF AcceptanceIsTrue
  <2>. QED BY <2>1, <2>3 DEF NoFalseAcceptance
<1>6. ASSUME NEW w \in Workers, Send(w)
      PROVE  AcceptanceIsTrue' /\ NoFalseAcceptance'
  <2>1. PICK r \in SendResults :
          /\ sent' = [sent EXCEPT ![job[w]] = @ + r[1]]
          /\ answer' = [answer EXCEPT ![w] = r[2]]
    BY <1>6 DEF Send
  <2>2. r[1] \in {0, 1} /\ (r[2].outcome = AcceptedOutcome => r[1] = 1)
    BY SendResultParts
  <2>3. /\ UNCHANGED <<exec, ledger, evidence, job>> /\ job[w] \in Attempts
        /\ \A v \in Workers : v # w => pc'[v] = pc[v] /\ answer'[v] = answer[v]
    BY <1>6, <2>1 DEF Send, GoTo, records
  <2>4. /\ \A n \in Attempts : sent[n] > 0 => sent'[n] > 0
        /\ answer'[w].outcome = AcceptedOutcome => sent'[job[w]] > 0
    BY <2>1, <2>2, <2>3
  <2>5. AcceptanceIsTrue'
    BY <2>3, <2>4 DEF AcceptanceIsTrue
  <2>6. NoFalseAcceptance'
    BY <2>3, <2>4 DEF NoFalseAcceptance
  <2>. QED BY <2>5, <2>6
<1>7. ASSUME NEW w \in Workers, RecordSend(w)
      PROVE  AcceptanceIsTrue' /\ NoFalseAcceptance'
  <2>1. /\ UNCHANGED <<exec, evidence, sent, job, answer>> /\ pc[w] = "record"
        /\ \A v \in Workers : pc'[v] \in Late => pc[v] \in Late
    BY <1>7 DEF RecordSend, GoTo, Late
  <2>2. \A n \in Attempts :
          \/ ledger'[n].outcome = ledger[n].outcome
          \/ n = job[w] /\ ledger'[n].outcome = answer[w].outcome
    <3>1. CASE ledger' = [ledger EXCEPT ![job[w]].outcome = answer[w].outcome]
      <4>1. job[w] \in Attempts /\ ledger \in [Attempts -> LedgerRows]
        BY DEF LedgerRows
      <4>2. \A n \in Attempts : n # job[w] => ledger'[n] = ledger[n]
        BY <3>1, <4>1
      <4>3. ledger'[job[w]].outcome = answer[w].outcome
        BY <3>1, <4>1 DEF LedgerRows
      <4>. QED BY <4>2, <4>3
    <3>2. ledger' = ledger \/ ledger' = [ledger EXCEPT ![job[w]].outcome = answer[w].outcome]
      BY <1>7 DEF RecordSend
    <3>. QED BY <3>1, <3>2
  <2>3. AcceptanceIsTrue'
    BY <2>1, <2>2 DEF AcceptanceIsTrue, Late
  <2>. QED BY <2>1, <2>3 DEF NoFalseAcceptance
<1>8. ASSUME NEW w \in Workers, Complete(w)
      PROVE  AcceptanceIsTrue' /\ NoFalseAcceptance'
  <2>1. /\ UNCHANGED <<ledger, evidence, sent, job>> /\ pc[w] = "complete"
        /\ \A v \in Workers : v # w => pc'[v] = pc[v] /\ answer'[v] = answer[v]
        /\ job[w] \in Attempts /\ answer[w] \in Answers /\ answer[w].outcome \in Outcomes
    BY <1>8 DEF Complete, GoTo, LetGo, Learned
  <2>2. CASE ~Owns(w)
    <3>1. exec' = exec /\ pc'[w] = "idle"
      BY <1>8, <2>2 DEF Complete, LetGo, GoTo
    <3>2. AcceptanceIsTrue'
      BY <2>1, <3>1 DEF AcceptanceIsTrue, Late
    <3>. QED BY <2>1, <3>2 DEF NoFalseAcceptance
  <2>3. CASE Owns(w)
    <3>. DEFINE a == Decision(job[w], answer[w])
    <3>1. /\ exec' = [exec EXCEPT ![job[w]].done = a, ![job[w]].live = FALSE]
          /\ answer' = [answer EXCEPT ![w] = a]
      BY <1>8, <2>3 DEF Complete
    <3>2. a.outcome = AcceptedOutcome => sent[job[w]] > 0
      BY <2>1, DecisionParts DEF AcceptanceIsTrue, Late
    <3>3. \A n \in Attempts : exec'[n].done = IF n = job[w] THEN a ELSE exec[n].done
      BY <3>1
    <3>4. AcceptanceIsTrue'
      BY <2>1, <3>1, <3>2, <3>3 DEF AcceptanceIsTrue
    <3>. QED BY <2>1, <3>4 DEF NoFalseAcceptance
  <2>. QED BY <2>2, <2>3
<1>9. ASSUME NEW n \in Attempts, LeaseExpires(n) \/ CallbackCompletesLedger(n)
      PROVE  AcceptanceIsTrue' /\ NoFalseAcceptance'
  <2>1. /\ UNCHANGED <<evidence, sent, pc, job, answer>>
        /\ \A m \in Attempts : exec'[m].done = exec[m].done
        /\ \A m \in Attempts : ledger'[m].outcome = ledger[m].outcome \/ sent[m] > 0
    <3>1. CASE LeaseExpires(n)
      BY <3>1 DEF LeaseExpires, work
    <3>2. CASE CallbackCompletesLedger(n)
      BY <3>2 DEF CallbackCompletesLedger, work
    <3>. QED BY <1>9, <3>1, <3>2
  <2>2. AcceptanceIsTrue'
    BY <2>1 DEF AcceptanceIsTrue
  <2>. QED BY <2>1, <2>2 DEF NoFalseAcceptance
<1>10. ASSUME NEW n \in Attempts, CallbackWritesEvidence(n)
       PROVE  AcceptanceIsTrue' /\ NoFalseAcceptance'
  <2>1. /\ UNCHANGED <<exec, ledger, sent, pc, job, answer>> /\ sent[n] > 0
        /\ evidence' = [evidence EXCEPT ![n] = Recorded(@, DeliveredOutcome)]
    BY <1>10 DEF CallbackWritesEvidence, work
  <2>2. AcceptanceIsTrue'
    BY <2>1 DEF AcceptanceIsTrue
  <2>. QED BY <1>0, <1>3, <2>1, <2>2
<1>11. CASE Stop \/ Resume \/ UNCHANGED vars
  BY <1>11 DEF Stop, Resume, vars, records, work, AcceptanceIsTrue, NoFalseAcceptance
<1>. QED
  <2>1. ASSUME NEW w \in Workers, Step(w) \/ Fault(w)
        PROVE  AcceptanceIsTrue' /\ NoFalseAcceptance'
    BY <1>0, <2>1, <1>1, <1>4, <1>5, <1>6, <1>7, <1>8, NothingLearnedKeeps
       DEF Step, Fault
  <2>. QED BY <2>1, <1>2, <1>9, <1>10, <1>11 DEF Next, Callback

LEMMA InitAcceptance == Init => AcceptanceInv
<1>. SUFFICES ASSUME Init PROVE AcceptanceInv
  OBVIOUS
<1>1. NoAnswer.outcome # AcceptedOutcome /\ NoOutcome # AcceptedOutcome
  BY OutcomeStates DEF NoAnswer, Answer
<1>. QED
  BY <1>1, InitTyped DEF Init, AcceptanceInv, AcceptanceIsTrue, NoFalseAcceptance,
     NoExecution, NoSend, Late

\* Evidence of acceptance or delivery exists only for attempts SES accepted,
\* whichever worker, replay or callback wrote it.
THEOREM AcceptanceIsNeverFalse == Spec => []NoFalseAcceptance
<1>1. Spec => []AcceptanceInv
  BY InitAcceptance, StepAcceptance, PTL DEF Spec
<1>2. AcceptanceInv => NoFalseAcceptance
  BY DEF AcceptanceInv
<1>. QED BY <1>1, <1>2, PTL
=============================================================================
