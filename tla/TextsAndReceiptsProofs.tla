----------------------- MODULE TextsAndReceiptsProofs -----------------------
(***************************************************************************)
(* Theorems about a text message and about the receipts of pushes.         *)
(*                                                                         *)
(* First SmsAttempt, for any number of workers, any retry budget, any      *)
(* statuses a carrier reports, whether or not leases outlast their         *)
(* holders, and any number of crashes and failed calls.  Then              *)
(* PushReceipts, for any devices, pollers and receipt ids, any number of   *)
(* sends, and any answers, crashes and overrun leases.                     *)
(***************************************************************************)
EXTENDS TextsAndReceipts, TLAPS

Outcomes == {a.outcome : a \in Answers \ {NoAnswer}}
Facts == {Attempted} \cup Outcomes \cup {Receipt(s) : s \in Statuses}
Rows == {NoRow, ClaimedRow} \cup Answers
Executions == [holder : Workers \cup {NoWorker}, live : BOOLEAN, done : Answers]

\* Whoever has something to record knows it, and whoever schedules another
\* attempt has room for one.
Carrying == {"record", "complete", "adopt", "settle", "replay", "outcome", "schedule"}
Concluding == {"replay", "outcome", "schedule", "optout", "ack"}
Learned ==
    /\ \A w \in Workers : pc[w] \in Carrying => answer[w] # NoAnswer
    /\ \A w \in Workers : pc[w] = "schedule" => answer[w].retry
    /\ \A w \in Workers : pc[w] \in {"replay", "outcome", "schedule"} =>
          answer[w] = exec[job[w]].done
    /\ \A w \in Workers : pc[w] \in Concluding => exec[job[w]].done # NoAnswer
    /\ \A n \in Attempts : exec[n].done.retry => n < MaxAttempts

\* The ledger's permit is one worker's: nobody sends without it, and nothing was
\* sent before it was given or while it is not used.
Sending == {"gate", "send", "record"}
Fenced ==
    /\ \A w \in Workers : pc[w] \in Sending => io[job[w]] = ClaimedRow
    /\ \A v \in Workers, w \in Workers :
          pc[v] \in Sending /\ pc[w] \in Sending /\ job[v] = job[w] => v = w
    /\ \A w \in Workers : pc[w] \in {"gate", "send"} => texts[job[w]] = 0
    /\ \A n \in Attempts : io[n] = NoRow => texts[n] = 0

Typed == TypeOK /\ Learned /\ Fenced

\* What is known of an attempt, by a worker, the execution or the ledger, is
\* what happened.
Failed(a) == a.outcome.state = "failed"
Happened(n, a) ==
    /\ Failed(a) => Failed(io[n])
    /\ a = Accepted => texts[n] > 0
    /\ a.retry => io[n].retry
KnownIsTrue ==
    /\ \A w \in Workers : pc[w] \in Carrying \ {"record"} => Happened(job[w], answer[w])
    /\ \A w \in Workers : pc[w] = "record" =>
          /\ Failed(answer[w]) => texts[job[w]] = 0
          /\ answer[w] = Accepted => texts[job[w]] > 0
    /\ \A n \in Attempts : /\ Happened(n, exec[n].done)
                           /\ Failed(io[n]) => texts[n] = 0
                           /\ io[n] = Accepted => texts[n] > 0
                           /\ reported[n] # {} => texts[n] > 0

\* So is what the evidence says, and a receipt has a message.
EvidenceIsTrue ==
    \A n \in Attempts : \A i \in DOMAIN evidence[n] :
        LET f == evidence[n][i] IN
        /\ f.state = "failed" /\ f.ref = Null => Failed(io[n])
        /\ f.state \in {"provider-accepted", "delivered"} => texts[n] > 0

\* An attempt is worked on when the ones before it failed for good.
Reached(n) == \A m \in Attempts : m < n => io[m].retry
InTurn ==
    /\ \A n \in queued : Reached(n)
    /\ \A w \in Workers : pc[w] # "idle" => Reached(job[w])
    /\ \A n \in Attempts : io[n] # NoRow => Reached(n)

\* Whoever is told of an acceptance named the message before it let go; and a
\* message stays on the queue until then.
Announced == {"reauthorize", "ledger", "gate", "send", "record", "complete", "outcome"}
Finished(n) == exec[n].done # NoAnswer /\ (exec[n].done = Accepted => Named(n))
SaidBeforeLeaving ==
    /\ \A w \in Workers : pc[w] \in Announced => evidence[job[w]] # <<>>
    /\ \A w \in Workers : pc[w] \in {"schedule", "optout", "ack"} => Finished(job[w])
    /\ listed /\ ~expired =>
          /\ \A n \in Attempts : io[n] # NoRow => n \in queued \/ Finished(n)
          /\ \A w \in Workers : pc[w] # "idle" => job[w] \in queued \/ Finished(job[w])

IInv == /\ Typed /\ KnownIsTrue /\ EvidenceIsTrue /\ InTurn /\ SaidBeforeLeaving
        /\ ForeignReceiptsOnly
-----------------------------------------------------------------------------
(* Answers and facts. *)

LEMMA AnswerParts ==
    /\ \A a \in Answers : a.retry \in BOOLEAN
    /\ \A a \in Answers \ {NoAnswer} :
          /\ a = Accepted \/ a = Unknown \/ Failed(a)
          /\ a.outcome.ref = IF a = Accepted THEN "message" ELSE Null
          /\ a.outcome.state \in {"provider-accepted", "unknown", "failed"}
          /\ a.outcome.state = "provider-accepted" => a = Accepted
          /\ a.retry => Failed(a)
    /\ NoAnswer \in Answers /\ Accepted \in Answers /\ Unknown \in Answers
    /\ Denied \in Answers /\ Unasked \in Answers /\ Exhausted \in Answers
    /\ Throttled \in Answers /\ Rejected \in Answers /\ OptedOut \in Answers
BY DEF Answers, NoAnswer, Accepted, Unknown, OptedOut, Rejected, Denied, Exhausted,
       Throttled, Unasked, Final, Answer, Fact, Failed, Null

LEMMA Distinct ==
    /\ NoAnswer # Accepted /\ NoAnswer # Unknown /\ Accepted # Unknown
    /\ ~Failed(NoAnswer) /\ ~Failed(Accepted) /\ ~Failed(Unknown)
    /\ Failed(Exhausted) /\ Failed(Throttled) /\ Failed(Unasked) /\ Failed(Denied)
    /\ Failed(Rejected) /\ Failed(OptedOut)
    /\ ~NoAnswer.retry /\ ~Accepted.retry /\ ~Unknown.retry /\ ~Denied.retry
    /\ ~Exhausted.retry /\ Throttled.retry /\ Unasked.retry
    /\ ~Rejected.retry /\ ~OptedOut.retry
BY DEF NoAnswer, Accepted, Unknown, OptedOut, Rejected, Denied, Exhausted,
       Throttled, Unasked, Final, Answer, Fact, Failed

LEMMA ClaimedParts ==
    /\ ClaimedRow \notin Answers /\ ClaimedRow # NoRow
    /\ ~Failed(ClaimedRow) /\ ~ClaimedRow.retry /\ ClaimedRow # Accepted
<1>1. ClaimedRow.outcome.state = "claimed" /\ ~ClaimedRow.retry
  BY DEF ClaimedRow, Answer, Fact
<1>2. NoAnswer.outcome.state = "none"
  BY DEF NoAnswer, Answer, Fact
<1>3. \A a \in Answers : a.outcome.state # "claimed"
  BY <1>2, AnswerParts
<1>. QED BY <1>1, <1>2, <1>3, AnswerParts DEF Failed, NoRow

\* The last attempt's decision asks for no other, and is a failure as the
\* answer was.
LEMMA DecisionParts ==
    ASSUME NEW n \in Attempts, NEW a \in Answers \ {NoAnswer}
    PROVE  /\ Decision(n, a) \in Answers \ {NoAnswer}
           /\ Decision(n, a).retry => a.retry /\ n < MaxAttempts
           /\ Failed(Decision(n, a)) => Failed(a)
           /\ Decision(n, a) = Accepted => a = Accepted
<1>. n \in Nat /\ MaxAttempts \in Nat /\ n =< MaxAttempts
  BY RetryPolicyAssumption DEF Attempts
<1>. QED BY AnswerParts, Distinct DEF Decision

LEMMA SettledParts ==
    ASSUME NEW row \in Rows, row # NoRow
    PROVE  /\ Settled(row) \in Answers \ {NoAnswer}
           /\ Failed(Settled(row)) => Failed(row)
           /\ Settled(row) = Accepted => row = Accepted
           /\ Settled(row).retry => row.retry
BY AnswerParts, Distinct DEF Settled, Rows, NoRow

LEMMA FactParts ==
    /\ Attempted.state = "attempted" /\ Attempted.ref = Null
    /\ \A s \in Statuses :
          /\ Receipt(s).state = s /\ Receipt(s).ref = "message"
          /\ Receipt(s).provider = "eum"
    /\ Accepted.outcome.state = "provider-accepted"
    /\ Accepted.outcome.ref = "message" /\ Accepted.outcome.provider = "eum"
    /\ "message" # Null
BY DEF Attempted, Receipt, Accepted, Final, Answer, Fact, Null
-----------------------------------------------------------------------------
(* What a worker's step does to the attempt it works on. *)

Frame(w) ==
    /\ pc' \in [Workers -> Steps] /\ job' = job /\ answer' \in [Workers -> Answers]
    /\ \A v \in Workers \ {w} : pc'[v] = pc[v] /\ answer'[v] = answer[v]
    /\ exec' \in [Attempts -> Executions] /\ io' \in [Attempts -> Rows]
    /\ DOMAIN texts' = Attempts /\ DOMAIN evidence' = Attempts
    /\ texts' = [n \in Attempts |-> texts'[n]]
    /\ evidence' = [n \in Attempts |-> evidence'[n]]
    /\ \A m \in Attempts \ {job[w]} :
          /\ exec'[m] = exec[m] /\ io'[m] = io[m]
          /\ evidence'[m] = evidence[m] /\ texts'[m] = texts[m]
    /\ UNCHANGED <<reported, ignored, enabled, expired>>
    /\ listed' \in {listed, FALSE} /\ faults' \in 0..MaxFaults

IoMove(w, n) ==
    \/ io'[n] = io[n] /\ pc'[w] # "gate"
    \/ /\ pc[w] = "ledger" /\ io[n] = NoRow /\ io'[n] = ClaimedRow
       /\ pc'[w] \in {"gate", "complete"}
    \/ /\ pc[w] = "record" /\ io[n] = ClaimedRow /\ io'[n] = answer[w]
       /\ pc'[w] = "complete"

ExecMove(w, n) ==
    /\ exec'[n].live \/ exec'[n].done # NoAnswer => exec'[n].holder # NoWorker
    /\ \/ exec'[n] = exec[n]
       \/ exec[n].done = NoAnswer /\ exec'[n].done = NoAnswer
       \/ /\ exec[n].done = NoAnswer /\ pc[w] \in {"complete", "settle"}
          /\ exec'[n].done = Decision(n, answer[w])

TextMove(w, n) ==
    \/ texts'[n] = texts[n]
    \/ pc[w] = "send" /\ pc'[w] = "record" /\ texts'[n] = texts[n] + 1

EvidenceMove(w, n) ==
    \/ evidence'[n] = evidence[n] /\ pc[w] \notin {"attempted", "replay", "outcome"}
    \/ evidence'[n] = evidence[n] /\ pc'[w] \in {"idle", "release"}
    \/ /\ pc[w] \in {"attempted", "replay"}
       /\ evidence'[n] = Recorded(evidence[n], Attempted)
    \/ /\ pc[w] = "outcome"
       /\ evidence'[n] = Recorded(evidence[n], answer[w].outcome)

QueueMove(w, n) ==
    \/ queued' = queued
    \/ pc[w] = "schedule" /\ queued' = queued \cup {n + 1}
    \/ pc[w] = "ack" /\ pc'[w] = "idle" /\ queued' = queued \ {n}

\* Where the worker goes, where it comes from and what it takes along.
PcMove(w, n) ==
    \/ pc'[w] \in {"idle", "recover", "claim", "authorize", "attempted", "release"}
    \/ pc'[w] = "reauthorize" /\ pc[w] = "attempted"
    \/ pc'[w] = "ledger" /\ pc[w] = "reauthorize"
    \/ pc'[w] = "gate" /\ pc[w] = "ledger"
    \/ pc'[w] = "send" /\ pc[w] = "gate"
    \/ /\ pc'[w] = "adopt" /\ pc[w] = "recover" /\ io[n] # NoRow
       /\ answer'[w] = Decision(n, Settled(io[n]))
    \/ pc'[w] = "settle" /\ pc[w] = "adopt" /\ answer'[w] = answer[w]
    \/ /\ pc'[w] = "record" /\ pc[w] \in {"gate", "send"} /\ answer'[w] # NoAnswer
       /\ Failed(answer'[w]) => texts'[n] = texts[n]
       /\ answer'[w] = Accepted => texts'[n] = texts[n] + 1
    \/ /\ pc'[w] = "complete" /\ pc[w] = "ledger"
       /\ \/ answer'[w] = Unknown
          \/ io[n] # NoRow /\ answer'[w] = Settled(io[n])
    \/ /\ pc'[w] = "complete" /\ pc[w] = "record"
       /\ answer'[w] = Unknown \/ (answer'[w] = answer[w] /\ io'[n] = answer[w])
    \/ pc'[w] = "replay" /\ answer'[w] = exec'[n].done /\ answer'[w] # NoAnswer
    \/ pc'[w] = "outcome" /\ pc[w] = "replay" /\ answer'[w] = answer[w]
    \/ /\ pc'[w] = "outcome" /\ pc[w] = "complete"
       /\ answer'[w] = exec'[n].done /\ answer'[w] # NoAnswer
    \/ /\ pc'[w] = "schedule" /\ pc[w] = "outcome" /\ answer'[w] = answer[w]
       /\ answer[w].retry
    \/ pc'[w] = "optout" /\ pc[w] = "outcome"
    \/ pc'[w] = "ack" /\ pc[w] \in {"outcome", "schedule", "optout"}

Works(w) == /\ pc[w] # "idle" /\ Frame(w) /\ IoMove(w, job[w]) /\ ExecMove(w, job[w])
            /\ TextMove(w, job[w]) /\ EvidenceMove(w, job[w])
            /\ QueueMove(w, job[w]) /\ PcMove(w, job[w])

\* Most steps touch one record, or none.
Still(w) == /\ UNCHANGED <<records, queued, carrier, policy>>
            /\ faults' \in 0..MaxFaults

LEMMA Typing ==
    ASSUME TypeOK
    PROVE  /\ pc \in [Workers -> Steps] /\ job \in [Workers -> Attempts]
           /\ answer \in [Workers -> Answers]
           /\ exec \in [Attempts -> Executions] /\ io \in [Attempts -> Rows]
           /\ evidence \in [Attempts -> Seq(Facts)]
           /\ texts \in [Attempts -> 0..1]
           /\ \A n \in Attempts : exec[n].live \/ exec[n].done # NoAnswer =>
                 exec[n].holder # NoWorker
           /\ faults \in 0..MaxFaults /\ MaxFaults \in Nat
           /\ AFault => faults' \in 0..MaxFaults
<1>1. MaxFaults \in Nat
  BY SwitchesAssumption
<1>. QED BY <1>1 DEF TypeOK, Executions, Rows, Facts, Outcomes, AFault

LEMMA Went ==
    ASSUME TypeOK, NEW w \in Workers, NEW step \in Steps, GoTo(w, step), UNCHANGED answer
    PROVE  /\ pc' \in [Workers -> Steps] /\ job' = job /\ answer' \in [Workers -> Answers]
           /\ \A v \in Workers \ {w} : pc'[v] = pc[v] /\ answer'[v] = answer[v]
           /\ pc'[w] = step /\ answer'[w] = answer[w]
BY DEF GoTo, TypeOK

LEMMA WentWith ==
    ASSUME TypeOK, NEW w \in Workers, NEW step \in Steps, NEW a \in Answers,
           With(w, a, step)
    PROVE  /\ pc' \in [Workers -> Steps] /\ job' = job /\ answer' \in [Workers -> Answers]
           /\ \A v \in Workers \ {w} : pc'[v] = pc[v] /\ answer'[v] = answer[v]
           /\ pc'[w] = step /\ answer'[w] = a
BY DEF With, GoTo, TypeOK

LEMMA WentHome ==
    ASSUME TypeOK, NEW w \in Workers, LetGo(w)
    PROVE  /\ pc' \in [Workers -> Steps] /\ job' = job /\ answer' \in [Workers -> Answers]
           /\ \A v \in Workers \ {w} : pc'[v] = pc[v] /\ answer'[v] = answer[v]
           /\ pc'[w] = "idle"
BY AnswerParts DEF LetGo, GoTo, TypeOK, Steps

\* A step that moves the worker only.
LEMMA MovedOnly ==
    ASSUME Typed, NEW w \in Workers, pc[w] # "idle", Still(w),
           pc' \in [Workers -> Steps], job' = job, answer' \in [Workers -> Answers],
           \A v \in Workers \ {w} : pc'[v] = pc[v] /\ answer'[v] = answer[v],
           PcMove(w, job[w]), pc'[w] # "gate",
           pc[w] \notin {"attempted", "replay", "outcome"}
              \/ pc'[w] \in {"idle", "release"}
    PROVE  Works(w)
<1>1. /\ exec' = exec /\ io' = io /\ evidence' = evidence /\ texts' = texts
      /\ queued' = queued /\ UNCHANGED <<reported, ignored, enabled, listed, expired>>
  BY DEF Still, records, carrier, policy
<1>2. Frame(w)
  BY <1>1, Typing DEF Frame, Still, Typed
<1>3. /\ IoMove(w, job[w]) /\ ExecMove(w, job[w]) /\ TextMove(w, job[w])
      /\ EvidenceMove(w, job[w]) /\ QueueMove(w, job[w])
  BY <1>1, Typing DEF IoMove, ExecMove, TextMove, EvidenceMove, QueueMove, Typed
<1>. QED BY <1>2, <1>3 DEF Works

LEMMA WorkerWorks ==
    ASSUME Typed, NEW w \in Workers, Step(w) \/ Fault(w)
    PROVE  Works(w)
<1>. PICK n \in Attempts : n = job[w]
  BY Typing DEF Typed
<1>0. /\ TypeOK /\ faults \in 0..MaxFaults /\ (AFault => faults' \in 0..MaxFaults)
      /\ NoAnswer \in Answers /\ Unknown \in Answers /\ Denied \in Answers
      /\ Unasked \in Answers
      /\ io[n] \in Rows /\ exec[n].done \in Answers /\ answer[w] \in Answers
  BY Typing, AnswerParts DEF Typed, Executions
<1>t. /\ exec \in [Attempts -> Executions] /\ io \in [Attempts -> Rows]
      /\ texts \in [Attempts -> 0..1]
  BY Typing DEF Typed
<1>1. CASE Lookup(w)
  <2>1. Still(w) /\ pc[w] = "lookup"
    BY <1>0, <1>1 DEF Lookup, Still
  <2>2. CASE exec[n].done # NoAnswer /\ With(w, exec[n].done, "replay")
    <3>1. PcMove(w, n)
      BY <1>0, <2>1, <2>2, WentWith DEF PcMove, Still, records, Steps
    <3>. QED BY <1>0, <2>1, <2>2, <3>1, WentWith, MovedOnly DEF Steps
  <2>3. CASE GoTo(w, "recover") /\ UNCHANGED answer
    <3>1. PcMove(w, n)
      BY <1>0, <2>3, Went DEF PcMove, Steps
    <3>. QED BY <1>0, <2>1, <2>3, <3>1, Went, MovedOnly DEF Steps
  <2>4. CASE LetGo(w)
    <3>1. PcMove(w, n)
      BY <1>0, <2>4, WentHome DEF PcMove
    <3>. QED BY <1>0, <2>1, <2>4, <3>1, WentHome, MovedOnly
  <2>. QED BY <1>1, <2>2, <2>3, <2>4 DEF Lookup
<1>2. CASE Recover(w)
  <2>1. Still(w) /\ pc[w] = "recover"
    BY <1>0, <1>2 DEF Recover, Still
  <2>2. CASE io[n] = NoRow /\ GoTo(w, "claim") /\ UNCHANGED answer
    <3>1. PcMove(w, n)
      BY <1>0, <2>2, Went DEF PcMove, Steps
    <3>. QED BY <1>0, <2>1, <2>2, <3>1, Went, MovedOnly DEF Steps
  <2>3. CASE io[n] # NoRow /\ With(w, Decision(n, Settled(io[n])), "adopt")
    <3>1. Decision(n, Settled(io[n])) \in Answers
      BY <1>0, <2>3, SettledParts, DecisionParts
    <3>2. PcMove(w, n)
      BY <1>0, <2>1, <2>3, <3>1, WentWith DEF PcMove, Steps
    <3>. QED BY <1>0, <2>1, <2>3, <3>1, <3>2, WentWith, MovedOnly DEF Steps
  <2>. QED BY <1>2, <2>2, <2>3 DEF Recover
<1>3. CASE Claim(w)
  <2>1. /\ pc[w] \in {"claim", "adopt"}
        /\ UNCHANGED <<io, evidence, queued, carrier, policy, faults>>
    BY <1>3 DEF Claim
  <2>2. CASE exec[n].done # NoAnswer /\ With(w, exec[n].done, "replay") /\ UNCHANGED exec
    <3>1. Still(w)
      BY <1>0, <2>1, <2>2 DEF Still, records
    <3>2. PcMove(w, n)
      BY <1>0, <2>2, WentWith DEF PcMove, Steps
    <3>. QED BY <1>0, <2>1, <2>2, <3>1, <3>2, WentWith, MovedOnly DEF Steps
  <2>3. CASE LetGo(w) /\ UNCHANGED exec
    <3>1. Still(w)
      BY <1>0, <2>1, <2>3 DEF Still, records
    <3>2. PcMove(w, n)
      BY <1>0, <2>3, WentHome DEF PcMove
    <3>. QED BY <1>0, <2>1, <2>3, <3>1, <3>2, WentHome, MovedOnly
  <2>4. CASE /\ Free(n) /\ exec' = Hold(w, n) /\ UNCHANGED answer
             /\ GoTo(w, IF pc[w] = "adopt" THEN "settle" ELSE "authorize")
    <3>. PICK step \in {"settle", "authorize"} :
            /\ GoTo(w, step) /\ (step = "settle" => pc[w] = "adopt")
      BY <2>4
    <3>. PICK e : e = [holder |-> w, live |-> TRUE, done |-> NoAnswer]
      OBVIOUS
    <3>1. exec' = [exec EXCEPT ![n] = e]
      BY <2>4 DEF Hold
    <3>2. e \in Executions /\ e.done = NoAnswer /\ e.holder # NoWorker
      BY <1>0, NobodyAssumption DEF Executions
    <3>3. /\ pc' \in [Workers -> Steps] /\ job' = job /\ answer' \in [Workers -> Answers]
          /\ \A v \in Workers \ {w} : pc'[v] = pc[v] /\ answer'[v] = answer[v]
          /\ pc'[w] = step /\ answer'[w] = answer[w]
      BY <1>0, <2>4, Went DEF Steps
    <3>4. exec' \in [Attempts -> Executions] /\ \A m \in Attempts \ {n} : exec'[m] = exec[m]
      BY <1>0, <3>1, <3>2, Typing
    <3>5. UNCHANGED <<io, evidence, texts, reported, ignored, queued, enabled, listed,
                      expired, faults>>
      BY <2>1 DEF carrier, policy
    <3>6. Frame(w)
      BY <1>0, <3>3, <3>4, <3>5, Typing DEF Frame
    <3>7. ExecMove(w, n)
      BY <1>0, <2>4, <3>1, <3>2, Typing DEF ExecMove, Free
    <3>8. IoMove(w, n) /\ TextMove(w, n) /\ EvidenceMove(w, n) /\ QueueMove(w, n)
      BY <2>1, <3>3, <3>5 DEF IoMove, TextMove, EvidenceMove, QueueMove
    <3>9. PcMove(w, n)
      BY <3>3 DEF PcMove
    <3>. QED BY <2>1, <3>6, <3>7, <3>8, <3>9 DEF Works
  <2>. QED BY <1>3, <2>2, <2>3, <2>4 DEF Claim
<1>4. CASE Authorize(w) \/ GiveWay(w)
  <2>. PICK step \in {"release", "attempted", "ledger"} :
          /\ GoTo(w, step) /\ pc[w] \in {"authorize", "reauthorize", "attempted"}
          /\ step = "ledger" => pc[w] = "reauthorize"
          /\ pc[w] = "attempted" => step = "release"
    BY <1>4 DEF Authorize, GiveWay
  <2>1. Still(w) /\ UNCHANGED answer
    BY <1>0, <1>4 DEF Authorize, GiveWay, Still
  <2>2. /\ pc' \in [Workers -> Steps] /\ job' = job /\ answer' \in [Workers -> Answers]
        /\ \A v \in Workers \ {w} : pc'[v] = pc[v] /\ answer'[v] = answer[v]
        /\ pc'[w] = step /\ answer'[w] = answer[w]
    BY <1>0, <2>1, Went DEF Steps
  <2>3. PcMove(w, n)
    BY <2>2 DEF PcMove
  <2>. QED BY <2>1, <2>2, <2>3, MovedOnly
<1>5. CASE WriteAttempted(w) \/ Replay(w)
  <2>. PICK step \in {"reauthorize", "outcome"} :
          /\ GoTo(w, step) /\ pc[w] \in {"attempted", "replay"}
          /\ step = "reauthorize" <=> pc[w] = "attempted"
    BY <1>5 DEF WriteAttempted, Replay
  <2>1. /\ UNCHANGED <<exec, io, queued, carrier, policy, answer, faults>>
        /\ evidence' = [evidence EXCEPT ![n] = Recorded(evidence[n], Attempted)]
    BY <1>0, <1>5, Typing DEF WriteAttempted, Replay
  <2>2. /\ pc' \in [Workers -> Steps] /\ job' = job /\ answer' \in [Workers -> Answers]
        /\ \A v \in Workers \ {w} : pc'[v] = pc[v] /\ answer'[v] = answer[v]
        /\ pc'[w] = step /\ answer'[w] = answer[w]
    BY <1>0, <2>1, Went DEF Steps
  <2>3. /\ exec' = exec /\ io' = io /\ texts' = texts
        /\ queued' = queued /\ UNCHANGED <<reported, ignored, enabled, listed, expired>>
    BY <2>1 DEF carrier, policy
  <2>4. /\ evidence'[n] = Recorded(evidence[n], Attempted)
        /\ evidence' = [m \in Attempts |-> evidence'[m]]
        /\ \A m \in Attempts \ {n} : evidence'[m] = evidence[m]
    BY <1>0, <2>1, Typing
  <2>5. Frame(w)
    BY <1>0, <2>1, <2>2, <2>3, <2>4, Typing DEF Frame
  <2>6. /\ IoMove(w, n) /\ ExecMove(w, n) /\ TextMove(w, n)
        /\ EvidenceMove(w, n) /\ QueueMove(w, n) /\ PcMove(w, n)
    BY <1>0, <2>2, <2>3, <2>4, Typing
       DEF IoMove, ExecMove, TextMove, EvidenceMove, QueueMove, PcMove
  <2>. QED BY <2>5, <2>6 DEF Works
<1>6. CASE Release(w)
  <2>1. /\ pc[w] = "release" /\ LetGo(w)
        /\ UNCHANGED <<io, evidence, queued, carrier, policy, faults>>
    BY <1>6 DEF Release
  <2>2. \/ exec' = exec
        \/ exec[n].done = NoAnswer /\ exec' = [exec EXCEPT ![n] = NoExecution]
    BY <1>6 DEF Release
  <2>3. /\ NoExecution \in Executions /\ NoExecution.done = NoAnswer /\ ~NoExecution.live
    BY <1>0 DEF NoExecution, Executions
  <2>4. /\ exec' \in [Attempts -> Executions]
        /\ \A m \in Attempts \ {n} : exec'[m] = exec[m]
        /\ exec'[n] = exec[n] \/ (exec[n].done = NoAnswer /\ exec'[n] = NoExecution)
    BY <1>t, <2>2, <2>3
  <2>5. /\ io' = io /\ texts' = texts /\ evidence' = evidence /\ faults' = faults
        /\ queued' = queued /\ UNCHANGED <<reported, ignored, enabled, listed, expired>>
    BY <2>1 DEF carrier, policy
  <2>6. /\ pc' \in [Workers -> Steps] /\ job' = job /\ answer' \in [Workers -> Answers]
        /\ \A v \in Workers \ {w} : pc'[v] = pc[v] /\ answer'[v] = answer[v]
        /\ pc'[w] = "idle"
    BY <1>0, <2>1, WentHome
  <2>7. Frame(w)
    BY <1>0, <2>4, <2>5, <2>6, Typing DEF Frame
  <2>8. /\ IoMove(w, n) /\ TextMove(w, n) /\ EvidenceMove(w, n) /\ QueueMove(w, n)
        /\ PcMove(w, n)
    BY <2>5, <2>6 DEF IoMove, TextMove, EvidenceMove, QueueMove, PcMove
  <2>9. ExecMove(w, n)
    BY <1>0, <2>3, <2>4, Typing DEF ExecMove
  <2>. QED BY <2>1, <2>7, <2>8, <2>9 DEF Works
\* The ledger's row is inserted or found.
<1>7. CASE ClaimSend(w) \/ ClaimSendFails(w)
  <2>1. /\ pc[w] = "ledger" /\ UNCHANGED <<exec, evidence, queued, carrier, policy>>
        /\ faults' \in 0..MaxFaults
    BY <1>0, <1>7 DEF ClaimSend, ClaimSendFails
  <2>2. PICK a \in Answers, step \in {"gate", "complete"} :
          /\ \/ step = "gate" /\ GoTo(w, step) /\ UNCHANGED answer
                /\ io[n] = NoRow /\ io' = [io EXCEPT ![n] = ClaimedRow]
             \/ /\ step = "complete" /\ With(w, a, step)
                /\ a = Unknown \/ (io[n] # NoRow /\ a = Settled(io[n]))
                /\ io' = io \/ (io[n] = NoRow /\ io' = [io EXCEPT ![n] = ClaimedRow])
    <3>1. CASE ClaimSend(w)
      BY <1>0, <3>1, SettledParts DEF ClaimSend, Permit
    <3>2. CASE ClaimSendFails(w)
      BY <1>0, <3>2 DEF ClaimSendFails, Permit
    <3>. QED BY <1>7, <3>1, <3>2
  <2>3. /\ exec' = exec /\ texts' = texts /\ evidence' = evidence
        /\ queued' = queued /\ UNCHANGED <<reported, ignored, enabled, listed, expired>>
    BY <2>1 DEF carrier, policy
  <2>4. /\ pc' \in [Workers -> Steps] /\ job' = job /\ answer' \in [Workers -> Answers]
        /\ \A v \in Workers \ {w} : pc'[v] = pc[v] /\ answer'[v] = answer[v]
        /\ pc'[w] = step /\ (step = "complete" => answer'[w] = a)
    BY <1>0, <2>2, Went, WentWith DEF Steps
  <2>5. /\ io' \in [Attempts -> Rows] /\ \A m \in Attempts \ {n} : io'[m] = io[m]
        /\ \/ io'[n] = io[n] /\ step = "complete"
           \/ io[n] = NoRow /\ io'[n] = ClaimedRow
    BY <1>0, <2>2, Typing DEF Rows
  <2>6. Frame(w)
    BY <1>0, <2>1, <2>3, <2>4, <2>5, Typing DEF Frame
  <2>7. /\ ExecMove(w, n) /\ TextMove(w, n) /\ EvidenceMove(w, n) /\ QueueMove(w, n)
        /\ IoMove(w, n)
    BY <1>0, <2>1, <2>3, <2>4, <2>5, Typing
       DEF IoMove, ExecMove, TextMove, EvidenceMove, QueueMove
  <2>8. PcMove(w, n)
    BY <2>1, <2>2, <2>4 DEF PcMove
  <2>. QED BY <2>1, <2>6, <2>7, <2>8 DEF Works
<1>8. CASE Gate(w) \/ GateFails(w)
  <2>1. /\ pc[w] = "gate" /\ Still(w)
    BY <1>0, <1>8 DEF Gate, GateFails, Still
  <2>2. CASE GoTo(w, "send") /\ UNCHANGED answer
    <3>1. PcMove(w, n)
      BY <1>0, <2>1, <2>2, Went DEF PcMove, Steps
    <3>. QED BY <1>0, <2>1, <2>2, <3>1, Went, MovedOnly DEF Steps
  <2>3. ASSUME NEW a \in {Denied, Unasked}, With(w, a, "record") PROVE Works(w)
    <3>1. /\ pc' \in [Workers -> Steps] /\ job' = job /\ answer' \in [Workers -> Answers]
          /\ \A v \in Workers \ {w} : pc'[v] = pc[v] /\ answer'[v] = answer[v]
          /\ pc'[w] = "record" /\ answer'[w] = a
      BY <1>0, <2>3, WentWith DEF Steps
    <3>2. PcMove(w, n)
      BY <2>1, <3>1, Distinct DEF PcMove, Still, carrier
    <3>. QED BY <2>1, <3>1, <3>2, MovedOnly
  <2>. QED BY <1>8, <2>2, <2>3 DEF Gate, GateFails
<1>9. CASE Send(w)
  <2>1. PICK r \in SendResults :
           /\ texts' = [texts EXCEPT ![n] = texts[n] + r[1]]
           /\ With(w, r[2], "record")
    BY <1>9, <1>0, Typing DEF Send
  <2>2. /\ r[1] \in {0, 1} /\ r[2] \in Answers /\ r[2] # NoAnswer
        /\ Failed(r[2]) => r[1] = 0
        /\ r[2] = Accepted => r[1] = 1
    BY AnswerParts, Distinct DEF SendResults
  <2>3. /\ pc[w] = "send" /\ UNCHANGED <<records, queued, reported, ignored, policy, faults>>
    BY <1>9 DEF Send
  <2>4. /\ exec' = exec /\ io' = io /\ evidence' = evidence
        /\ queued' = queued /\ UNCHANGED <<reported, ignored, enabled, listed, expired, faults>>
    BY <2>3 DEF records, policy
  <2>5. /\ texts' = [m \in Attempts |-> texts'[m]] /\ texts[n] \in Nat
        /\ texts'[n] = texts[n] + r[1] /\ \A m \in Attempts \ {n} : texts'[m] = texts[m]
    <3>. PICK k : k = texts[n] + r[1]
      OBVIOUS
    <3>1. texts' = [texts EXCEPT ![n] = k] /\ texts[n] \in 0..1
      BY <1>t, <2>1
    <3>2. texts' = [m \in Attempts |-> texts'[m]]
      BY <1>t, <3>1
    <3>3. texts'[n] = k /\ \A m \in Attempts \ {n} : texts'[m] = texts[m]
      BY <1>t, <3>1
    <3>4. texts[n] \in Nat
      BY <3>1
    <3>. QED BY <3>2, <3>3, <3>4
  <2>6. /\ pc' \in [Workers -> Steps] /\ job' = job /\ answer' \in [Workers -> Answers]
        /\ \A v \in Workers \ {w} : pc'[v] = pc[v] /\ answer'[v] = answer[v]
        /\ pc'[w] = "record" /\ answer'[w] = r[2]
    BY <1>0, <2>1, <2>2, WentWith DEF Steps
  <2>7. Frame(w)
    BY <1>0, <2>4, <2>5, <2>6, Typing DEF Frame
  <2>8. /\ IoMove(w, n) /\ ExecMove(w, n) /\ EvidenceMove(w, n) /\ QueueMove(w, n)
    BY <1>0, <2>3, <2>4, <2>6, Typing DEF IoMove, ExecMove, EvidenceMove, QueueMove
  <2>9. TextMove(w, n) /\ PcMove(w, n)
    BY <2>2, <2>3, <2>5, <2>6 DEF TextMove, PcMove
  <2>. QED BY <2>3, <2>7, <2>8, <2>9 DEF Works
<1>10. CASE RecordSend(w) \/ RecordSendFails(w)
  <2>1. /\ pc[w] = "record" /\ UNCHANGED <<exec, evidence, queued, carrier, policy>>
        /\ faults' \in 0..MaxFaults
    BY <1>0, <1>10 DEF RecordSend, RecordSendFails
  <2>2. io[n] = ClaimedRow
    BY <2>1 DEF Typed, Fenced, Sending
  <2>3. \/ /\ io' = [io EXCEPT ![n] = answer[w]]
           /\ GoTo(w, "complete") /\ UNCHANGED answer
        \/ /\ io' = [io EXCEPT ![n] = answer[w]] \/ io' = io
           /\ With(w, Unknown, "complete")
    BY <1>0, <1>10, <2>2, Typing DEF RecordSend, RecordSendFails
  <2>4. /\ exec' = exec /\ texts' = texts /\ evidence' = evidence
        /\ queued' = queued /\ UNCHANGED <<reported, ignored, enabled, listed, expired>>
    BY <2>1 DEF carrier, policy
  <2>5. /\ io' \in [Attempts -> Rows] /\ \A m \in Attempts \ {n} : io'[m] = io[m]
        /\ io'[n] = io[n] \/ io'[n] = answer[w]
    <3>1. answer[w] \in Rows
      BY <1>0 DEF Rows
    <3>. QED BY <1>t, <2>3, <3>1
  <2>6. /\ pc' \in [Workers -> Steps] /\ job' = job /\ answer' \in [Workers -> Answers]
        /\ \A v \in Workers \ {w} : pc'[v] = pc[v] /\ answer'[v] = answer[v]
        /\ pc'[w] = "complete"
        /\ answer'[w] = Unknown \/ (answer'[w] = answer[w] /\ io'[n] = answer[w])
    BY <1>0, <2>3, Typing, Went, WentWith DEF Steps
  <2>7. Frame(w)
    BY <1>0, <2>1, <2>4, <2>5, <2>6, Typing DEF Frame
  <2>8. /\ ExecMove(w, n) /\ TextMove(w, n) /\ EvidenceMove(w, n) /\ QueueMove(w, n)
    BY <1>0, <2>1, <2>4, <2>6, Typing DEF ExecMove, TextMove, EvidenceMove, QueueMove
  <2>9. IoMove(w, n) /\ PcMove(w, n)
    BY <2>1, <2>2, <2>5, <2>6 DEF IoMove, PcMove
  <2>. QED BY <2>1, <2>7, <2>8, <2>9 DEF Works
<1>11. CASE Complete(w)
  <2>1. /\ pc[w] \in {"complete", "settle"}
        /\ UNCHANGED <<io, evidence, queued, carrier, policy, faults>>
    BY <1>11 DEF Complete
  <2>2. answer[w] # NoAnswer
    BY <2>1 DEF Typed, Learned, Carrying
  <2>3. CASE LetGo(w) /\ UNCHANGED exec
    <3>1. Still(w)
      BY <1>0, <2>1, <2>3 DEF Still, records
    <3>2. PcMove(w, n)
      BY <1>0, <2>3, WentHome DEF PcMove
    <3>. QED BY <1>0, <2>1, <2>3, <3>1, <3>2, WentHome, MovedOnly
  <2>4. CASE /\ Owns(w) /\ exec[n].done = NoAnswer
             /\ exec' = [exec EXCEPT ![n].done = Decision(n, answer[w]), ![n].live = FALSE]
             /\ With(w, Decision(n, answer[w]),
                     IF pc[w] = "settle" THEN "replay" ELSE "outcome")
    <3>. PICK step \in {"replay", "outcome"} :
            /\ With(w, Decision(n, answer[w]), step)
            /\ step = "outcome" => pc[w] = "complete"
      BY <2>1, <2>4
    <3>. PICK a \in Answers \ {NoAnswer} : a = Decision(n, answer[w])
      BY <1>0, <2>2, DecisionParts
    <3>. PICK x \in Executions : x = exec[n]
      BY <1>0, Typing
    <3>. PICK e : e = [x EXCEPT !.done = a, !.live = FALSE]
      OBVIOUS
    <3>1. e \in Executions /\ e.done = a /\ e.holder = x.holder
      BY DEF Executions
    <3>2. exec' = [exec EXCEPT ![n] = e]
      BY <1>0, <2>4, Typing
    <3>3. x.holder # NoWorker
      BY <2>4, NobodyAssumption DEF Owns
    <3>4. /\ pc' \in [Workers -> Steps] /\ job' = job /\ answer' \in [Workers -> Answers]
          /\ \A v \in Workers \ {w} : pc'[v] = pc[v] /\ answer'[v] = answer[v]
          /\ pc'[w] = step /\ answer'[w] = a
      BY <1>0, WentWith DEF Steps
    <3>5. /\ exec' \in [Attempts -> Executions] /\ exec'[n] = e
          /\ \A m \in Attempts \ {n} : exec'[m] = exec[m]
      BY <1>0, <3>1, <3>2, Typing
    <3>6. UNCHANGED <<io, evidence, texts, reported, ignored, queued, enabled, listed,
                      expired, faults>>
      BY <2>1 DEF carrier, policy
    <3>7. Frame(w)
      BY <1>0, <3>4, <3>5, <3>6, Typing DEF Frame
    <3>8. ExecMove(w, n) /\ PcMove(w, n)
      BY <2>1, <2>4, <3>1, <3>3, <3>4, <3>5 DEF ExecMove, PcMove
    <3>9. IoMove(w, n) /\ TextMove(w, n) /\ EvidenceMove(w, n) /\ QueueMove(w, n)
      BY <2>1, <3>4, <3>6 DEF IoMove, TextMove, EvidenceMove, QueueMove
    <3>. QED BY <2>1, <3>7, <3>8, <3>9 DEF Works
  <2>. QED BY <1>11, <2>3, <2>4 DEF Complete
<1>12. CASE WriteOutcome(w)
  <2>1. pc[w] = "outcome" /\ UNCHANGED <<exec, io, queued, carrier, policy, answer, faults>>
    BY <1>12 DEF WriteOutcome
  <2>2. evidence' = [evidence EXCEPT ![n] = Recorded(evidence[n], answer[w].outcome)]
    BY <1>0, <1>12, Typing DEF WriteOutcome, Recorded
  <2>3. PICK step \in {"schedule", "optout", "ack"} :
          GoTo(w, step) /\ (step = "schedule" => answer[w].retry)
    BY <1>12 DEF WriteOutcome, AfterOutcome
  <2>4. /\ pc' \in [Workers -> Steps] /\ job' = job /\ answer' \in [Workers -> Answers]
        /\ \A v \in Workers \ {w} : pc'[v] = pc[v] /\ answer'[v] = answer[v]
        /\ pc'[w] = step /\ answer'[w] = answer[w]
    BY <1>0, <2>1, <2>3, Went DEF Steps
  <2>5. /\ exec' = exec /\ io' = io /\ texts' = texts
        /\ queued' = queued /\ UNCHANGED <<reported, ignored, enabled, listed, expired>>
    BY <2>1 DEF carrier, policy
  <2>6. /\ evidence'[n] = Recorded(evidence[n], answer[w].outcome)
        /\ evidence' = [m \in Attempts |-> evidence'[m]]
        /\ \A m \in Attempts \ {n} : evidence'[m] = evidence[m]
    BY <1>0, <2>2, Typing
  <2>7. Frame(w)
    BY <1>0, <2>1, <2>4, <2>5, <2>6, Typing DEF Frame
  <2>8. /\ IoMove(w, n) /\ ExecMove(w, n) /\ TextMove(w, n)
        /\ EvidenceMove(w, n) /\ QueueMove(w, n) /\ PcMove(w, n)
    BY <1>0, <2>1, <2>3, <2>4, <2>5, <2>6, Typing
       DEF IoMove, ExecMove, TextMove, EvidenceMove, QueueMove, PcMove
  <2>. QED BY <2>1, <2>7, <2>8 DEF Works
<1>13. CASE Schedule(w) \/ RecordOptOut(w) \/ Acknowledge(w)
  <2>1. /\ UNCHANGED <<records, carrier, enabled, expired, faults>>
        /\ listed' \in {listed, FALSE}
        /\ \/ /\ pc[w] = "schedule" /\ GoTo(w, "ack") /\ UNCHANGED answer
              /\ queued' = queued \/ queued' = queued \cup {n + 1}
           \/ /\ pc[w] = "optout" /\ GoTo(w, "ack") /\ UNCHANGED answer
              /\ queued' = queued
           \/ pc[w] = "ack" /\ LetGo(w) /\ queued' = queued \ {n}
    BY <1>13 DEF Schedule, RecordOptOut, Acknowledge, policy
  <2>2. /\ pc' \in [Workers -> Steps] /\ job' = job /\ answer' \in [Workers -> Answers]
        /\ \A v \in Workers \ {w} : pc'[v] = pc[v] /\ answer'[v] = answer[v]
        /\ \/ pc[w] \in {"schedule", "optout"} /\ pc'[w] = "ack"
           \/ pc[w] = "ack" /\ pc'[w] = "idle"
    BY <1>0, <2>1, Went, WentHome DEF Steps
  <2>3. /\ exec' = exec /\ io' = io /\ evidence' = evidence /\ texts' = texts
        /\ UNCHANGED <<reported, ignored>>
    BY <2>1 DEF records, carrier
  <2>4. Frame(w)
    BY <1>0, <2>1, <2>2, <2>3, Typing DEF Frame
  <2>5. /\ IoMove(w, n) /\ ExecMove(w, n) /\ TextMove(w, n)
        /\ EvidenceMove(w, n) /\ PcMove(w, n)
    BY <1>0, <2>2, <2>3, Typing
       DEF IoMove, ExecMove, TextMove, EvidenceMove, PcMove
  <2>6. QueueMove(w, n)
    BY <2>1, <2>2 DEF QueueMove
  <2>. QED BY <2>2, <2>4, <2>5, <2>6 DEF Works
<1>14. CASE Crash(w)
  <2>1. Still(w) /\ pc[w] # "idle" /\ LetGo(w)
    BY <1>0, <1>14 DEF Crash, Still
  <2>2. PcMove(w, n)
    BY <1>0, <2>1, WentHome DEF PcMove
  <2>. QED BY <1>0, <2>1, <2>2, WentHome, MovedOnly
<1>. QED BY <1>1, <1>2, <1>3, <1>4, <1>5, <1>6, <1>7, <1>8, <1>9, <1>10, <1>11, <1>12,
            <1>13, <1>14 DEF Step, Fault
-----------------------------------------------------------------------------
(* Evidence. *)

\* A fact is added at the end, or not at all.
LEMMA RecordedParts ==
    ASSUME NEW chain \in Seq(Facts), NEW f \in Facts
    PROVE  /\ Recorded(chain, f) \in Seq(Facts)
           /\ \A i \in DOMAIN chain :
                 i \in DOMAIN Recorded(chain, f) /\ Recorded(chain, f)[i] = chain[i]
           /\ \A i \in DOMAIN Recorded(chain, f) :
                 Recorded(chain, f)[i] = f \/ i \in DOMAIN chain
           /\ chain # <<>> => Recorded(chain, f) # <<>>
<1>1. CASE Recorded(chain, f) = chain
  BY <1>1
<1>2. CASE Recorded(chain, f) = Append(chain, f)
  <2>. PICK r : r = Append(chain, f)
    OBVIOUS
  <2>1. /\ r \in Seq(Facts) /\ Len(r) = Len(chain) + 1 /\ r[Len(chain) + 1] = f
        /\ \A i \in 1..Len(chain) : r[i] = chain[i]
    OBVIOUS
  <2>2. DOMAIN r = 1..Len(r) /\ DOMAIN chain = 1..Len(chain) /\ Len(chain) \in Nat
    BY <2>1
  <2>3. r # <<>>
    BY <2>1, <2>2
  <2>. QED BY <1>2, <2>1, <2>2, <2>3
<1>. QED BY <1>1, <1>2 DEF Recorded

LEMMA Members ==
    /\ Attempted \in Facts
    /\ \A a \in Answers \ {NoAnswer} : a.outcome \in Facts
    /\ \A s \in Statuses : Receipt(s) \in Facts
BY DEF Facts, Outcomes

\* The announcement opens a chain.
LEMMA AttemptedOpens ==
    ASSUME NEW chain \in Seq(Facts)
    PROVE  Recorded(chain, Attempted) # <<>>
<1>1. CASE chain = <<>>
  BY <1>1, FactParts DEF Recorded, Reply
<1>2. CASE chain # <<>>
  BY <1>2, RecordedParts, Members
<1>. QED BY <1>1, <1>2

\* A fact with no message is no proof of anything but failure, and those with a
\* message are of one lineage.
LEMMA FactLineage ==
    ASSUME NEW f \in Facts
    PROVE  /\ f.ref = "message" => f.provider = "eum"
           /\ f.state \in Terminal /\ f.ref # "message" => f.state = "failed" /\ f.ref = Null
           /\ f.state = "provider-accepted" => f = Accepted.outcome
           /\ f.state \in States
<1>1. CASE f = Attempted
  BY <1>1, FactParts DEF Terminal, States
<1>2. ASSUME NEW s \in Statuses, f = Receipt(s)
      PROVE  /\ f.state \in {"delivered", "failed", "expired", "unknown"}
             /\ f.ref = "message" /\ f.provider = "eum"
  BY <1>2, FactParts, SwitchesAssumption
<1>3. ASSUME NEW a \in Answers \ {NoAnswer}, f = a.outcome
      PROVE  /\ f.state \in {"provider-accepted", "unknown", "failed"}
             /\ f.ref = IF a = Accepted THEN "message" ELSE Null
             /\ f.state = "provider-accepted" => f = Accepted.outcome
             /\ f.ref = "message" => f.provider = "eum"
  BY <1>3, AnswerParts, FactParts
<1>. QED BY <1>1, <1>2, <1>3, FactParts DEF Facts, Outcomes, Terminal, States

\* An acceptance is recorded, unless the chain says already what it would say.
LEMMA AcceptanceNamed ==
    ASSUME NEW chain \in Seq(Facts), chain # <<>>,
           \A i \in DOMAIN chain : ~(chain[i].state = "failed" /\ chain[i].ref = Null)
    PROVE  LET r == Recorded(chain, Accepted.outcome)
           IN  \E i \in DOMAIN r : r[i].ref = "message"
<1>. PICK f : f = Accepted.outcome
  OBVIOUS
<1>. PICK l \in DOMAIN chain : l = Len(chain)
  OBVIOUS
<1>. PICK g \in Facts : g = chain[l] /\ g = Latest(chain)
  BY DEF Latest
<1>0. /\ f.state = "provider-accepted" /\ f.ref = "message" /\ f.provider = "eum"
      /\ f \in Facts
  BY FactParts, Members, AnswerParts, Distinct
<1>1. CASE g.ref = "message"
  <2>1. l \in DOMAIN Recorded(chain, f) /\ Recorded(chain, f)[l] = chain[l]
    BY <1>0, RecordedParts
  <2>. QED BY <1>1, <2>1
<1>2. CASE \E i \in DOMAIN chain : chain[i] = f
  <2>. PICK i \in DOMAIN chain : chain[i] = f
    BY <1>2
  <2>1. i \in DOMAIN Recorded(chain, f) /\ Recorded(chain, f)[i] = chain[i]
    BY <1>0, RecordedParts
  <2>. QED BY <1>0, <2>1
<1>3. CASE g.ref # "message" /\ ~\E i \in DOMAIN chain : chain[i] = f
  <2>1. g.state \notin Terminal
    BY <1>3, FactLineage
  <2>2. g # f /\ g.state # "provider-accepted"
    BY <1>3, FactLineage
  <2>3. g.state \in {"attempted", "unknown"}
    BY <2>1, <2>2, FactLineage DEF States, Terminal
  <2>4. <<g.state, f.state>> \in Allowed
    BY <1>0, <2>3 DEF Allowed
  <2>5. Disposition(g, f) = "open"
    <3>1. f.state # "unknown"
      BY <1>0
    <3>. QED BY <2>1, <3>1 DEF Disposition
  <2>6. ~Retained(chain, f)
    BY <1>3 DEF Retained
  <2>7. Reply(chain, f) = "append"
    BY <1>0, <2>2, <2>4, <2>5, <2>6 DEF Reply
  <2>8. Recorded(chain, f) = Append(chain, f)
    BY <2>7 DEF Recorded
  <2>9. /\ Len(chain) + 1 \in DOMAIN Append(chain, f)
        /\ Append(chain, f)[Len(chain) + 1] = f
    BY <1>0
  <2>. QED BY <1>0, <2>8, <2>9
<1>. QED BY <1>1, <1>2, <1>3
-----------------------------------------------------------------------------
(* What a worker's step keeps. *)

\* Nothing that is known of an attempt is forgotten or changed: messages stay
\* accepted, answers and completions final, and evidence on file.
Keeps(m) ==
    /\ texts'[m] \in 0..1 /\ (texts[m] > 0 => texts'[m] > 0)
    /\ io[m] # NoRow => io'[m] # NoRow
    /\ io[m] \notin {NoRow, ClaimedRow} => io'[m] = io[m]
    /\ exec[m].done # NoAnswer => exec'[m].done = exec[m].done
    /\ evidence'[m] \in Seq(Facts)
    /\ \A i \in DOMAIN evidence[m] :
          i \in DOMAIN evidence'[m] /\ evidence'[m][i] = evidence[m][i]
    /\ evidence[m] # <<>> => evidence'[m] # <<>>

LEMMA WorkKeeps ==
    ASSUME Typed, NEW w \in Workers, Works(w)
    PROVE  /\ \A m \in Attempts : Keeps(m)
           /\ texts'[job[w]] # texts[job[w]] =>
                 /\ pc[w] = "send" /\ pc'[w] = "record"
                 /\ io[job[w]] = ClaimedRow /\ io'[job[w]] = ClaimedRow
                 /\ texts[job[w]] = 0 /\ texts'[job[w]] = 1
<1>. PICK n \in Attempts : n = job[w]
  BY Typing DEF Typed
<1>0. TypeOK /\ Learned /\ Fenced /\ Frame(w) /\ pc[w] \in Steps
  BY Typing DEF Typed, Works
<1>1. \A m \in Attempts \ {n} : Keeps(m)
  <2>. SUFFICES ASSUME NEW m \in Attempts \ {n} PROVE Keeps(m)
    OBVIOUS
  <2>1. /\ exec'[m] = exec[m] /\ io'[m] = io[m] /\ evidence'[m] = evidence[m]
        /\ texts'[m] = texts[m]
    BY <1>0 DEF Frame
  <2>2. texts[m] \in 0..1 /\ evidence[m] \in Seq(Facts)
    BY <1>0, Typing
  <2>. QED BY <2>1, <2>2 DEF Keeps
<1>2. texts'[n] # texts[n] =>
         /\ pc[w] = "send" /\ pc'[w] = "record"
         /\ io[n] = ClaimedRow /\ io'[n] = ClaimedRow
         /\ texts[n] = 0 /\ texts'[n] = 1
  <2>. SUFFICES ASSUME texts'[n] # texts[n]
                PROVE  /\ pc[w] = "send" /\ pc'[w] = "record"
                       /\ io[n] = ClaimedRow /\ io'[n] = ClaimedRow
                       /\ texts[n] = 0 /\ texts'[n] = 1
    OBVIOUS
  <2>1. pc[w] = "send" /\ pc'[w] = "record" /\ texts'[n] = texts[n] + 1
    BY DEF Works, TextMove
  <2>2. io[n] = ClaimedRow /\ texts[n] = 0
    BY <1>0, <2>1 DEF Fenced, Sending
  <2>3. io'[n] = io[n]
    BY <2>1 DEF Works, IoMove
  <2>. QED BY <2>1, <2>2, <2>3
<1>3. texts'[n] \in 0..1 /\ (texts[n] > 0 => texts'[n] > 0)
  <2>1. texts[n] \in 0..1
    BY <1>0, Typing
  <2>. QED BY <1>2, <2>1
<1>4. /\ io[n] # NoRow => io'[n] # NoRow
      /\ io[n] \notin {NoRow, ClaimedRow} => io'[n] = io[n]
  <2>1. pc[w] = "record" => answer[w] # NoRow
    BY <1>0 DEF Learned, Carrying, NoRow
  <2>. QED BY <2>1, ClaimedParts DEF Works, IoMove
<1>5. exec[n].done # NoAnswer => exec'[n].done = exec[n].done
  BY DEF Works, ExecMove
<1>6. /\ evidence'[n] \in Seq(Facts)
      /\ \A i \in DOMAIN evidence[n] :
            i \in DOMAIN evidence'[n] /\ evidence'[n][i] = evidence[n][i]
      /\ evidence[n] # <<>> => evidence'[n] # <<>>
  <2>1. evidence[n] \in Seq(Facts)
    BY <1>0, Typing
  <2>2. CASE evidence'[n] = evidence[n]
    BY <2>1, <2>2
  <2>3. CASE evidence'[n] = Recorded(evidence[n], Attempted)
    BY <2>1, <2>3, RecordedParts, Members
  <2>4. CASE pc[w] = "outcome" /\ evidence'[n] = Recorded(evidence[n], answer[w].outcome)
    <3>1. answer[w] \in Answers \ {NoAnswer}
      BY <1>0, <2>4, Typing DEF Learned, Carrying
    <3>2. answer[w].outcome \in Facts
      BY <3>1, Members
    <3>. PICK g \in Facts : g = answer[w].outcome
      BY <3>2
    <3>3. evidence'[n] = Recorded(evidence[n], g)
      BY <2>4
    <3>. PICK c \in Seq(Facts) : c = evidence[n]
      BY <2>1
    <3>4. /\ Recorded(c, g) \in Seq(Facts)
          /\ \A i \in DOMAIN c :
                i \in DOMAIN Recorded(c, g) /\ Recorded(c, g)[i] = c[i]
          /\ c # <<>> => Recorded(c, g) # <<>>
      BY RecordedParts, Zenon
    <3>. QED BY <3>3, <3>4
  <2>. QED BY <2>2, <2>3, <2>4 DEF Works, EvidenceMove
<1>7. Keeps(n)
  BY <1>3, <1>4, <1>5, <1>6 DEF Keeps
<1>. QED BY <1>1, <1>2, <1>7

\* So whoever was reached, named or finished stays so, and what happened
\* happened.
LEMMA KeptTruths ==
    ASSUME Typed, \A m \in Attempts : Keeps(m), NEW n \in Attempts
    PROVE  /\ Reached(n) => Reached(n)'
           /\ Named(n) => Named(n)'
           /\ Finished(n) => Finished(n)'
           /\ Failed(io[n]) => io'[n] = io[n]
           /\ \A a \in Answers : Happened(n, a) =>
                 /\ Failed(a) => Failed(io'[n])
                 /\ a = Accepted => texts'[n] > 0
                 /\ a.retry => io'[n].retry
<1>. DEFINE Settles(m) == io[m] \notin {NoRow, ClaimedRow}
<1>1. \A m \in Attempts : Failed(io[m]) \/ io[m].retry => Settles(m)
  BY Distinct, ClaimedParts DEF NoRow
<1>2. \A m \in Attempts : Settles(m) => io'[m] = io[m]
  BY DEF Keeps
<1>. HIDE DEF Settles
<1>3. Reached(n) => Reached(n)'
  <2>. SUFFICES ASSUME Reached(n), NEW m \in Attempts, m < n PROVE io'[m].retry
    BY DEF Reached
  <2>1. io[m].retry
    BY DEF Reached
  <2>. QED BY <1>1, <1>2, <2>1
<1>4. Named(n) => Named(n)'
  BY DEF Keeps, Named
<1>5. Finished(n) => Finished(n)'
  <2>1. exec[n].done # NoAnswer => exec'[n].done = exec[n].done
    BY DEF Keeps
  <2>. QED BY <1>4, <2>1 DEF Finished
<1>6. texts[n] > 0 => texts'[n] > 0
  BY DEF Keeps
<1>7. \A a \in Answers : Happened(n, a) =>
         /\ Failed(a) => Failed(io'[n])
         /\ a = Accepted => texts'[n] > 0
         /\ a.retry => io'[n].retry
  BY <1>1, <1>2, <1>6, Zenon DEF Happened
<1>. QED BY <1>1, <1>2, <1>3, <1>4, <1>5, <1>7
-----------------------------------------------------------------------------
(* Workers keep the rows well-formed and the permit unique. *)

LEMMA WorkTyped ==
    ASSUME Typed, NEW w \in Workers, Works(w)
    PROVE  TypeOK'
<1>. PICK n \in Attempts : n = job[w]
  BY Typing DEF Typed
<1>0. TypeOK /\ Learned /\ Frame(w) /\ \A m \in Attempts : Keeps(m)
  BY WorkKeeps DEF Typed, Works
<1>1. exec' \in [Attempts -> Executions] /\ io' \in [Attempts -> Rows]
  BY <1>0 DEF Frame
<1>2. \A m \in Attempts : exec'[m].live \/ exec'[m].done # NoAnswer =>
         exec'[m].holder # NoWorker
  <2>1. \A m \in Attempts \ {n} : exec'[m] = exec[m]
    BY <1>0 DEF Frame
  <2>2. exec'[n].live \/ exec'[n].done # NoAnswer => exec'[n].holder # NoWorker
    BY DEF Works, ExecMove
  <2>. QED BY <1>0, <2>1, <2>2, Typing
<1>3. texts' \in [Attempts -> 0..1] /\ evidence' \in [Attempts -> Seq(Facts)]
  <2>1. \A m \in Attempts : texts'[m] \in 0..1 /\ evidence'[m] \in Seq(Facts)
    BY <1>0 DEF Keeps
  <2>2. /\ texts' = [m \in Attempts |-> texts'[m]]
        /\ evidence' = [m \in Attempts |-> evidence'[m]]
    BY <1>0 DEF Frame
  <2>. QED BY <2>1, <2>2
<1>4. queued' \subseteq Attempts
  <2>1. queued \subseteq Attempts
    BY <1>0 DEF TypeOK
  <2>2. pc[w] = "schedule" => n + 1 \in Attempts
    <3>. SUFFICES ASSUME pc[w] = "schedule" PROVE n + 1 \in Attempts
      OBVIOUS
    <3>1. answer[w].retry /\ answer[w] = exec[n].done
      BY <1>0 DEF Learned
    <3>2. n < MaxAttempts
      BY <1>0, <3>1 DEF Learned
    <3>. QED BY <3>2, RetryPolicyAssumption DEF Attempts
  <2>. QED BY <2>1, <2>2 DEF Works, QueueMove
<1>5. /\ reported' \in [Attempts -> SUBSET Statuses]
      /\ \A m \in Attempts : ignored'[m] \subseteq reported'[m]
      /\ enabled' \in BOOLEAN /\ listed' \in BOOLEAN /\ expired' \in BOOLEAN
      /\ faults' \in 0..MaxFaults
  BY <1>0 DEF Frame, TypeOK
<1>6. /\ pc' \in [Workers -> Steps] /\ job' \in [Workers -> Attempts]
      /\ answer' \in [Workers -> Answers]
  BY <1>0, Typing DEF Frame
<1>. QED BY <1>1, <1>2, <1>3, <1>4, <1>5, <1>6 DEF TypeOK, Executions, Rows, Facts, Outcomes

LEMMA WorkLearned ==
    ASSUME Typed, NEW w \in Workers, Works(w)
    PROVE  Learned'
<1>. PICK n \in Attempts : n = job[w]
  BY Typing DEF Typed
<1>0. /\ TypeOK /\ Learned /\ Frame(w) /\ \A m \in Attempts : Keeps(m)
      /\ job' = job
  BY WorkKeeps DEF Typed, Works, Frame
<1>1. \A v \in Workers \ {w} : pc'[v] = pc[v] /\ answer'[v] = answer[v]
  BY <1>0 DEF Frame
<1>2. \A m \in Attempts : exec[m].done # NoAnswer => exec'[m].done = exec[m].done
  BY <1>0 DEF Keeps
<1>3. \A v \in Workers : job[v] \in Attempts
  BY <1>0, Typing
<1>4. pc'[w] \in Carrying => answer'[w] # NoAnswer
  <2>1. io[n] # NoRow => /\ Settled(io[n]) \in Answers \ {NoAnswer}
                         /\ Decision(n, Settled(io[n])) \in Answers \ {NoAnswer}
    BY <1>0, Typing, SettledParts, DecisionParts
  <2>2. pc[w] \in Carrying => answer[w] # NoAnswer
    BY <1>0 DEF Learned
  <2>. QED BY <2>1, <2>2, Distinct DEF Works, PcMove, Carrying
<1>5. pc'[w] = "schedule" => answer'[w].retry
  BY DEF Works, PcMove
<1>6. /\ pc'[w] \in {"replay", "outcome", "schedule"} => answer'[w] = exec'[n].done
      /\ pc'[w] \in Concluding => exec'[n].done # NoAnswer
  <2>1. pc[w] \in {"replay", "outcome", "schedule"} => answer[w] = exec[n].done
    BY <1>0 DEF Learned
  <2>2. pc[w] \in Concluding => exec[n].done # NoAnswer
    BY <1>0 DEF Learned
  <2>. QED BY <1>2, <2>1, <2>2 DEF Works, PcMove, Concluding
<1>7. exec'[n].done.retry => n < MaxAttempts
  <2>1. exec[n].done.retry => n < MaxAttempts
    BY <1>0 DEF Learned
  <2>2. CASE exec'[n].done \in {exec[n].done, NoAnswer}
    BY <2>1, <2>2, Distinct
  <2>3. CASE pc[w] \in {"complete", "settle"} /\ exec'[n].done = Decision(n, answer[w])
    <3>1. answer[w] \in Answers \ {NoAnswer}
      BY <1>0, <2>3, Typing DEF Learned, Carrying
    <3>. QED BY <2>3, <3>1, DecisionParts
  <2>. QED BY <2>2, <2>3 DEF Works, ExecMove
<1>8. \A m \in Attempts \ {n} : exec'[m] = exec[m]
  BY <1>0 DEF Frame
<1>9. \A v \in Workers : pc'[v] \in Carrying => answer'[v] # NoAnswer
  BY <1>0, <1>1, <1>4 DEF Learned
<1>10. \A v \in Workers : pc'[v] = "schedule" => answer'[v].retry
  BY <1>0, <1>1, <1>5 DEF Learned
<1>11. \A v \in Workers :
          /\ pc'[v] \in {"replay", "outcome", "schedule"} =>
                answer'[v] = exec'[job[v]].done
          /\ pc'[v] \in Concluding => exec'[job[v]].done # NoAnswer
  <2>. SUFFICES ASSUME NEW v \in Workers \ {w}
                PROVE  /\ pc[v] \in {"replay", "outcome", "schedule"} =>
                             answer[v] = exec'[job[v]].done
                       /\ pc[v] \in Concluding => exec'[job[v]].done # NoAnswer
    BY <1>1, <1>6
  <2>1. /\ pc[v] \in {"replay", "outcome", "schedule"} => answer[v] = exec[job[v]].done
        /\ pc[v] \in Concluding => exec[job[v]].done # NoAnswer
    BY <1>0 DEF Learned
  <2>2. exec[job[v]].done # NoAnswer => exec'[job[v]].done = exec[job[v]].done
    BY <1>2, <1>3
  <2>. QED BY <2>1, <2>2 DEF Concluding
<1>12. \A m \in Attempts : exec'[m].done.retry => m < MaxAttempts
  BY <1>0, <1>7, <1>8 DEF Learned
<1>. QED BY <1>0, <1>9, <1>10, <1>11, <1>12 DEF Learned

LEMMA WorkFenced ==
    ASSUME Typed, NEW w \in Workers, Works(w)
    PROVE  Fenced'
<1>. PICK n \in Attempts : n = job[w]
  BY Typing DEF Typed
<1>0. /\ TypeOK /\ Learned /\ Fenced /\ Frame(w) /\ \A m \in Attempts : Keeps(m)
      /\ job' = job
  BY WorkKeeps DEF Typed, Works, Frame
<1>1. \A v \in Workers \ {w} : pc'[v] = pc[v]
  BY <1>0 DEF Frame
<1>2. \A m \in Attempts \ {n} : io'[m] = io[m] /\ texts'[m] = texts[m]
  BY <1>0 DEF Frame
<1>3. CASE pc[w] = "ledger" /\ pc'[w] = "gate"
  <2>1. io[n] = NoRow /\ io'[n] = ClaimedRow /\ texts'[n] = texts[n]
    BY <1>3 DEF Works, IoMove, TextMove
  <2>2. texts[n] = 0
    BY <1>0, <2>1 DEF Fenced
  <2>3. \A v \in Workers : pc[v] \in Sending => job[v] # n
    BY <1>0, <2>1, ClaimedParts DEF Fenced
  <2>4. \A v \in Workers : pc'[v] \in Sending => io'[job[v]] = ClaimedRow
    BY <1>0, <1>1, <1>2, <2>1, <2>3, Typing DEF Fenced
  <2>5. \A u \in Workers, v \in Workers :
           pc'[u] \in Sending /\ pc'[v] \in Sending /\ job[u] = job[v] => u = v
    BY <1>0, <1>1, <2>3 DEF Fenced
  <2>6. \A v \in Workers : pc'[v] \in {"gate", "send"} => texts'[job[v]] = 0
    BY <1>0, <1>1, <1>2, <2>1, <2>2, Typing DEF Fenced
  <2>7. \A m \in Attempts : io'[m] = NoRow => texts'[m] = 0
    BY <1>0, <1>2, <2>1, <2>2 DEF Fenced
  <2>. QED BY <1>0, <2>4, <2>5, <2>6, <2>7 DEF Fenced
<1>4. CASE pc'[w] # "gate"
  <2>1. pc'[w] \in Sending => pc[w] \in Sending /\ pc[w] # "record"
    BY <1>4 DEF Works, PcMove, Sending
  <2>2. pc'[w] \in {"gate", "send"} => pc[w] = "gate"
    BY <1>4 DEF Works, PcMove
  <2>3. \A v \in Workers : pc'[v] \in Sending => pc[v] \in Sending
    BY <1>1, <2>1
  <2>4. \A v \in Workers : pc'[v] \in Sending => io'[job[v]] = ClaimedRow
    <3>. SUFFICES ASSUME NEW v \in Workers, pc'[v] \in Sending
                  PROVE  io'[job[v]] = ClaimedRow
      OBVIOUS
    <3>1. io[job[v]] = ClaimedRow /\ job[v] \in Attempts
      BY <1>0, <2>3, Typing DEF Fenced
    <3>2. CASE job[v] # n
      BY <1>2, <3>1, <3>2
    <3>3. CASE job[v] = n
      <4>1. pc[w] # "record"
        <5>1. CASE v = w
          BY <2>1, <5>1
        <5>2. CASE v # w
          BY <1>0, <2>3, <3>3, <5>2 DEF Fenced, Sending
        <5>. QED BY <5>1, <5>2
      <4>2. io'[n] = io[n]
        BY <3>1, <3>3, <4>1, ClaimedParts DEF Works, IoMove
      <4>. QED BY <3>1, <3>3, <4>2
    <3>. QED BY <3>2, <3>3
  <2>5. \A u \in Workers, v \in Workers :
           pc'[u] \in Sending /\ pc'[v] \in Sending /\ job[u] = job[v] => u = v
    BY <1>0, <2>3 DEF Fenced
  <2>6. \A v \in Workers : pc'[v] \in {"gate", "send"} => texts'[job[v]] = 0
    <3>. SUFFICES ASSUME NEW v \in Workers, pc'[v] \in {"gate", "send"}
                  PROVE  texts'[job[v]] = 0
      OBVIOUS
    <3>1. pc[v] \in {"gate", "send"} /\ job[v] \in Attempts /\ texts[job[v]] = 0
      BY <1>0, <1>1, <2>2, Typing DEF Fenced
    <3>2. CASE job[v] # n
      BY <1>2, <3>1, <3>2
    <3>3. CASE job[v] = n
      <4>1. pc[w] # "send" \/ pc'[w] # "record"
        <5>1. CASE v = w
          BY <5>1
        <5>2. CASE v # w
          BY <1>0, <3>1, <3>3, <5>2 DEF Fenced, Sending
        <5>. QED BY <5>1, <5>2
      <4>2. texts'[n] = texts[n]
        BY <4>1, WorkKeeps
      <4>. QED BY <3>1, <3>3, <4>2
    <3>. QED BY <3>2, <3>3
  <2>7. \A m \in Attempts : io'[m] = NoRow => texts'[m] = 0
    <3>. SUFFICES ASSUME NEW m \in Attempts, io'[m] = NoRow PROVE texts'[m] = 0
      OBVIOUS
    <3>1. io[m] = NoRow
      BY <1>0 DEF Keeps
    <3>2. texts[m] = 0
      BY <1>0, <3>1 DEF Fenced
    <3>3. texts'[m] = texts[m]
      BY <1>2, <3>1, ClaimedParts, WorkKeeps
    <3>. QED BY <3>2, <3>3
  <2>. QED BY <1>0, <2>4, <2>5, <2>6, <2>7 DEF Fenced
<1>. QED BY <1>3, <1>4 DEF Works, PcMove
-----------------------------------------------------------------------------
(* Workers know what happened. *)

\* What a worker takes from the ledger happened.
LEMMA SettledHappened ==
    ASSUME TypeOK, NEW n \in Attempts, io[n] # NoRow,
           io[n] = Accepted => texts[n] > 0
    PROVE  /\ Settled(io[n]) \in Answers \ {NoAnswer}
           /\ Decision(n, Settled(io[n])) \in Answers \ {NoAnswer}
           /\ Happened(n, Settled(io[n]))
           /\ Happened(n, Decision(n, Settled(io[n])))
<1>1. io[n] \in Rows
  BY Typing
<1>. PICK a : a = Settled(io[n])
  OBVIOUS
<1>2. /\ a \in Answers \ {NoAnswer} /\ (Failed(a) => Failed(io[n]))
      /\ (a = Accepted => io[n] = Accepted) /\ (a.retry => io[n].retry)
  BY <1>1, SettledParts
<1>. PICK d : d = Decision(n, a)
  OBVIOUS
<1>3. /\ d \in Answers \ {NoAnswer} /\ (d.retry => a.retry)
      /\ (Failed(d) => Failed(a)) /\ (d = Accepted => a = Accepted)
  BY <1>2, DecisionParts
<1>. QED BY <1>2, <1>3 DEF Happened

LEMMA WorkKnows ==
    ASSUME Typed, KnownIsTrue, NEW w \in Workers, Works(w)
    PROVE  KnownIsTrue'
<1>. PICK n \in Attempts : n = job[w]
  BY Typing DEF Typed
<1>. DEFINE Happens(m, a) == /\ Failed(a) => Failed(io'[m])
                             /\ a = Accepted => texts'[m] > 0
                             /\ a.retry => io'[m].retry
<1>0. /\ TypeOK /\ Learned /\ Fenced /\ Frame(w) /\ job' = job
      /\ reported' = reported
  BY DEF Typed, Works, Frame
<1>1. \A m \in Attempts : Keeps(m)
  BY WorkKeeps
<1>2. \A m \in Attempts : \A a \in Answers : Happened(m, a) => Happens(m, a)
  BY <1>1, KeptTruths
<1>3. \A m \in Attempts \ {n} : /\ exec'[m] = exec[m] /\ io'[m] = io[m]
                                /\ texts'[m] = texts[m]
  BY <1>0 DEF Frame
<1>4. \A v \in Workers \ {w} : pc'[v] = pc[v] /\ answer'[v] = answer[v]
  BY <1>0 DEF Frame
<1>5. \A v \in Workers : job[v] \in Attempts /\ answer[v] \in Answers
  BY <1>0, Typing
<1>6. \A m \in Attempts : exec[m].done \in Answers /\ io[m] \in Rows /\ texts[m] \in 0..1
  BY <1>0, Typing DEF Executions
<1>7. \A m \in Attempts : Happens(m, exec'[m].done)
  <2>1. \A m \in Attempts : Happens(m, exec[m].done)
    BY <1>2, <1>6 DEF KnownIsTrue
  <2>2. Happens(n, NoAnswer)
    BY Distinct
  <2>3. pc[w] \in {"complete", "settle"} => Happens(n, Decision(n, answer[w]))
    <3>. SUFFICES ASSUME pc[w] \in {"complete", "settle"}
                  PROVE  Happens(n, Decision(n, answer[w]))
      OBVIOUS
    <3>1. answer[w] \in Answers \ {NoAnswer} /\ Happened(n, answer[w])
      BY <1>0, <1>5 DEF Learned, KnownIsTrue, Carrying
    <3>2. Happens(n, answer[w])
      BY <1>2, <3>1
    <3>. QED BY <3>1, <3>2, DecisionParts
  <2>4. Happens(n, exec'[n].done)
    BY <2>1, <2>2, <2>3 DEF Works, ExecMove
  <2>. QED BY <1>3, <2>1, <2>4
<1>8. /\ Failed(io'[n]) => texts'[n] = 0
      /\ io'[n] = Accepted => texts'[n] > 0
  <2>1. /\ Failed(io[n]) => texts[n] = 0
        /\ io[n] = Accepted => texts[n] > 0
    BY DEF KnownIsTrue
  <2>2. texts'[n] = texts[n] \/ io'[n] = ClaimedRow
    BY WorkKeeps
  <2>3. CASE io'[n] \in {io[n], ClaimedRow}
    BY <2>1, <2>2, <2>3, ClaimedParts
  <2>4. CASE pc[w] = "record" /\ io'[n] = answer[w]
    <3>1. texts'[n] = texts[n]
      BY <2>4, WorkKeeps
    <3>2. /\ Failed(answer[w]) => texts[n] = 0
          /\ answer[w] = Accepted => texts[n] > 0
      BY <2>4 DEF KnownIsTrue
    <3>. QED BY <2>4, <3>1, <3>2
  <2>. QED BY <2>3, <2>4 DEF Works, IoMove
<1>9. \A m \in Attempts : /\ Failed(io'[m]) => texts'[m] = 0
                          /\ io'[m] = Accepted => texts'[m] > 0
                          /\ reported'[m] # {} => texts'[m] > 0
  BY <1>0, <1>1, <1>3, <1>8 DEF KnownIsTrue, Keeps
<1>10. pc'[w] \in Carrying \ {"record"} => Happens(n, answer'[w])
  <2>1. pc[w] \in Carrying \ {"record"} => Happens(n, answer[w])
    BY <1>2, <1>5 DEF KnownIsTrue
  <2>2. io[n] # NoRow => /\ Happens(n, Settled(io[n]))
                         /\ Happens(n, Decision(n, Settled(io[n])))
    <3>. SUFFICES ASSUME io[n] # NoRow
                  PROVE  /\ Happens(n, Settled(io[n]))
                         /\ Happens(n, Decision(n, Settled(io[n])))
      OBVIOUS
    <3>1. io[n] = Accepted => texts[n] > 0
      BY DEF KnownIsTrue
    <3>2. /\ Settled(io[n]) \in Answers /\ Decision(n, Settled(io[n])) \in Answers
          /\ Happened(n, Settled(io[n])) /\ Happened(n, Decision(n, Settled(io[n])))
      BY <1>0, <3>1, SettledHappened
    <3>. HIDE DEF Happens
    <3>. QED BY <1>2, <3>2
  <2>3. Happens(n, Unknown)
    BY Distinct
  <2>4. pc[w] = "record" /\ io'[n] = answer[w] => Happens(n, answer[w])
    BY <1>8
  <2>5. Happens(n, exec'[n].done)
    BY <1>7
  <2>. HIDE DEF Happens
  <2>. QED BY <2>1, <2>2, <2>3, <2>4, <2>5 DEF Works, PcMove, Carrying
<1>11. pc'[w] = "record" => /\ Failed(answer'[w]) => texts'[n] = 0
                            /\ answer'[w] = Accepted => texts'[n] > 0
  <2>1. pc[w] \in {"gate", "send"} => texts[n] = 0
    BY <1>0 DEF Fenced
  <2>. QED BY <1>6, <2>1 DEF Works, PcMove
<1>12. \A v \in Workers : pc'[v] \in Carrying \ {"record"} => Happens(job[v], answer'[v])
  <2>. SUFFICES ASSUME NEW v \in Workers \ {w}, pc[v] \in Carrying \ {"record"}
                PROVE  Happens(job[v], answer[v])
    BY <1>4, <1>10
  <2>. HIDE DEF Happens
  <2>. QED BY <1>2, <1>5 DEF KnownIsTrue
<1>13. \A v \in Workers : pc'[v] = "record" =>
          /\ Failed(answer'[v]) => texts'[job[v]] = 0
          /\ answer'[v] = Accepted => texts'[job[v]] > 0
  <2>. SUFFICES ASSUME NEW v \in Workers \ {w}, pc[v] = "record"
                PROVE  /\ Failed(answer[v]) => texts'[job[v]] = 0
                       /\ answer[v] = Accepted => texts'[job[v]] > 0
    BY <1>4, <1>11
  <2>1. /\ Failed(answer[v]) => texts[job[v]] = 0
        /\ answer[v] = Accepted => texts[job[v]] > 0
    BY DEF KnownIsTrue
  <2>2. texts'[job[v]] = texts[job[v]]
    <3>1. CASE job[v] # n
      BY <1>3, <1>5, <3>1
    <3>2. CASE job[v] = n
      <4>1. pc[w] # "send"
        BY <1>0, <3>2 DEF Fenced, Sending
      <4>. QED BY <3>2, <4>1, WorkKeeps
    <3>. QED BY <3>1, <3>2
  <2>. QED BY <2>1, <2>2
<1>. QED BY <1>0, <1>7, <1>9, <1>12, <1>13 DEF KnownIsTrue, Happened
-----------------------------------------------------------------------------
(* Workers say what they know, in turn, before they leave. *)

LEMMA WorkTells ==
    ASSUME Typed, KnownIsTrue, EvidenceIsTrue, NEW w \in Workers, Works(w)
    PROVE  EvidenceIsTrue'
<1>. PICK n \in Attempts : n = job[w]
  BY Typing DEF Typed
<1>0. TypeOK /\ Learned /\ Frame(w) /\ \A m \in Attempts : Keeps(m)
  BY WorkKeeps DEF Typed, Works
<1>. DEFINE True(m, f) == /\ f.state = "failed" /\ f.ref = Null => Failed(io'[m])
                          /\ f.state \in {"provider-accepted", "delivered"} => texts'[m] > 0
<1>1. \A m \in Attempts : \A i \in DOMAIN evidence[m] : True(m, evidence[m][i])
  <2>. SUFFICES ASSUME NEW m \in Attempts, NEW i \in DOMAIN evidence[m]
                PROVE  True(m, evidence[m][i])
    OBVIOUS
  <2>1. Failed(io[m]) => Failed(io'[m])
    BY <1>0, KeptTruths
  <2>2. texts[m] > 0 => texts'[m] > 0
    BY <1>0 DEF Keeps
  <2>. QED BY <2>1, <2>2 DEF EvidenceIsTrue
<1>2. True(n, Attempted)
  BY FactParts
<1>3. pc[w] = "outcome" => answer[w].outcome \in Facts /\ True(n, answer[w].outcome)
  <2>. SUFFICES ASSUME pc[w] = "outcome"
                PROVE  answer[w].outcome \in Facts /\ True(n, answer[w].outcome)
    OBVIOUS
  <2>. PICK a \in Answers \ {NoAnswer} : a = answer[w]
    BY <1>0, Typing DEF Learned, Carrying
  <2>1. Happened(n, a)
    BY DEF KnownIsTrue, Carrying
  <2>2. /\ Failed(a) => Failed(io'[n])
        /\ a = Accepted => texts'[n] > 0
    BY <1>0, <2>1, KeptTruths
  <2>3. /\ a.outcome.state = "failed" => Failed(a)
        /\ a.outcome.state \in {"provider-accepted", "delivered"} => a = Accepted
        /\ a.outcome \in Facts
    BY AnswerParts, Members DEF Failed
  <2>. QED BY <2>2, <2>3
<1>4. \A i \in DOMAIN evidence'[n] : True(n, evidence'[n][i])
  <2>. PICK chain \in Seq(Facts) : chain = evidence[n]
    BY <1>0, Typing
  <2>1. \A i \in DOMAIN chain : True(n, chain[i])
    BY <1>1
  <2>2. ASSUME NEW g \in Facts, True(n, g), evidence'[n] = Recorded(chain, g)
        PROVE  \A i \in DOMAIN evidence'[n] : True(n, evidence'[n][i])
    <3>. SUFFICES ASSUME NEW i \in DOMAIN Recorded(chain, g)
                  PROVE  True(n, Recorded(chain, g)[i])
      BY <2>2
    <3>1. Recorded(chain, g)[i] = g \/ i \in DOMAIN chain
      BY RecordedParts, Zenon
    <3>2. i \in DOMAIN chain => Recorded(chain, g)[i] = chain[i]
      BY RecordedParts, Zenon
    <3>. HIDE DEF True
    <3>. QED BY <2>1, <2>2, <3>1, <3>2
  <2>. HIDE DEF True
  <2>. QED BY <1>2, <1>3, <2>1, <2>2, Members DEF Works, EvidenceMove
<1>5. \A m \in Attempts : \A i \in DOMAIN evidence'[m] : True(m, evidence'[m][i])
  <2>1. \A m \in Attempts \ {n} : evidence'[m] = evidence[m]
    BY <1>0 DEF Frame
  <2>. HIDE DEF True
  <2>. QED BY <1>1, <1>4, <2>1
<1>. QED BY <1>5 DEF EvidenceIsTrue

LEMMA WorkInTurn ==
    ASSUME Typed, KnownIsTrue, InTurn, NEW w \in Workers, Works(w)
    PROVE  InTurn'
<1>. PICK n \in Attempts : n = job[w]
  BY Typing DEF Typed
<1>0. /\ TypeOK /\ Learned /\ Frame(w) /\ job' = job /\ pc[w] # "idle"
      /\ \A m \in Attempts : Keeps(m)
  BY WorkKeeps DEF Typed, Works, Frame
<1>1. \A m \in Attempts : Reached(m) => Reached(m)'
  BY <1>0, KeptTruths
<1>2. Reached(n) /\ Reached(n)'
  BY <1>0, <1>1 DEF InTurn
<1>3. \A m \in queued' : Reached(m)'
  <2>0. queued \subseteq Attempts /\ \A m \in queued : Reached(m)'
    BY <1>0, <1>1 DEF InTurn, TypeOK
  <2>1. pc[w] = "schedule" => Reached(n + 1)'
    <3>. SUFFICES ASSUME pc[w] = "schedule", NEW m \in Attempts, m < n + 1
                  PROVE  io'[m].retry
      BY DEF Reached
    <3>1. answer[w].retry /\ answer[w] \in Answers /\ Happened(n, answer[w])
      BY <1>0, Typing DEF Learned, KnownIsTrue, Carrying
    <3>2. io'[n].retry
      BY <1>0, <3>1, KeptTruths
    <3>3. m < n \/ m = n
      BY DEF Attempts
    <3>. QED BY <1>2, <3>2, <3>3 DEF Reached
  <2>. QED BY <2>0, <2>1 DEF Works, QueueMove
<1>4. \A v \in Workers : pc'[v] # "idle" => Reached(job[v])'
  <2>. SUFFICES ASSUME NEW v \in Workers, pc'[v] # "idle" PROVE Reached(job[v])'
    OBVIOUS
  <2>1. pc[v] # "idle" /\ job[v] \in Attempts
    BY <1>0, Typing DEF Frame
  <2>2. Reached(job[v])
    BY <2>1 DEF InTurn
  <2>. PICK m \in Attempts : m = job[v]
    BY <2>1
  <2>3. Reached(m)'
    BY <1>1, <2>2
  <2>. QED BY <1>0, <2>3 DEF Reached
<1>5. \A m \in Attempts : io'[m] # NoRow => Reached(m)'
  <2>1. \A m \in Attempts \ {n} : io'[m] = io[m]
    BY <1>0 DEF Frame
  <2>. QED BY <1>1, <1>2, <2>1 DEF InTurn
<1>. QED BY <1>0, <1>3, <1>4, <1>5 DEF InTurn, Reached

\* The outcome of a completed attempt, once written, names its message.
LEMMA OutcomeFinishes ==
    ASSUME Typed, KnownIsTrue, EvidenceIsTrue, SaidBeforeLeaving,
           NEW w \in Workers, Works(w), pc[w] = "outcome",
           pc'[w] \in {"schedule", "optout", "ack"}
    PROVE  Finished(job[w])'
<1>. PICK n \in Attempts : n = job[w]
  BY Typing DEF Typed
<1>0. TypeOK /\ Learned /\ Keeps(n)
  BY WorkKeeps DEF Typed
<1>1. exec[n].done = answer[w] /\ exec[n].done # NoAnswer /\ exec'[n].done = answer[w]
  BY <1>0 DEF Learned, Concluding, Keeps
<1>2. answer[w] = Accepted => Named(n)'
  <2>. SUFFICES ASSUME answer[w] = Accepted PROVE Named(n)'
    OBVIOUS
  <2>. PICK chain \in Seq(Facts) : chain = evidence[n]
    BY <1>0, Typing
  <2>1. chain # <<>>
    BY DEF SaidBeforeLeaving, Announced
  <2>2. texts[n] > 0
    BY DEF KnownIsTrue, Carrying, Happened
  <2>3. ~Failed(io[n])
    BY <2>2 DEF KnownIsTrue
  <2>4. \A i \in DOMAIN chain : ~(chain[i].state = "failed" /\ chain[i].ref = Null)
    BY <2>3 DEF EvidenceIsTrue
  <2>5. evidence'[n] = Recorded(chain, Accepted.outcome)
    BY DEF Works, EvidenceMove
  <2>6. \E i \in DOMAIN evidence'[n] : evidence'[n][i].ref = "message"
    BY <2>1, <2>4, <2>5, AcceptanceNamed
  <2>. QED BY <2>6 DEF Named
<1>3. job'[w] = n
  BY DEF Works, Frame
<1>4. Finished(n)'
  BY <1>1, <1>2 DEF Finished
<1>. QED BY <1>3, <1>4

LEMMA WorkSays ==
    ASSUME Typed, KnownIsTrue, EvidenceIsTrue, SaidBeforeLeaving,
           NEW w \in Workers, Works(w)
    PROVE  SaidBeforeLeaving'
<1>. PICK n \in Attempts : n = job[w]
  BY Typing DEF Typed
<1>0. /\ TypeOK /\ Learned /\ Frame(w) /\ job' = job /\ pc[w] # "idle"
      /\ \A m \in Attempts : Keeps(m)
      /\ \A v \in Workers : job[v] \in Attempts
  BY WorkKeeps, Typing DEF Typed, Works, Frame
<1>1. \A m \in Attempts : Finished(m) => Finished(m)'
  BY <1>0, KeptTruths
<1>2. \A v \in Workers \ {w} : pc'[v] = pc[v]
  BY <1>0 DEF Frame
<1>3. pc'[w] \in Announced => evidence'[n] # <<>>
  <2>1. pc[w] \in Announced => evidence'[n] # <<>>
    BY <1>0 DEF SaidBeforeLeaving, Keeps
  <2>2. pc[w] \in {"attempted", "replay"} /\ pc'[w] \in Announced => evidence'[n] # <<>>
    <3>. SUFFICES ASSUME pc[w] \in {"attempted", "replay"}, pc'[w] \in Announced
                  PROVE  evidence'[n] # <<>>
      OBVIOUS
    <3>1. evidence'[n] = Recorded(evidence[n], Attempted)
      BY DEF Works, EvidenceMove, Announced
    <3>2. evidence[n] \in Seq(Facts)
      BY <1>0, Typing
    <3>. QED BY <3>1, <3>2, AttemptedOpens
  <2>3. pc'[w] \in Announced => pc[w] \in Announced \cup {"attempted", "replay"}
    BY DEF Works, PcMove, Announced
  <2>. QED BY <2>1, <2>2, <2>3
<1>4. pc'[w] \in {"schedule", "optout", "ack"} => Finished(n)'
  <2>. SUFFICES ASSUME pc'[w] \in {"schedule", "optout", "ack"} PROVE Finished(n)'
    OBVIOUS
  <2>1. CASE pc[w] = "outcome"
    BY <1>0, <2>1, OutcomeFinishes DEF Finished, Named
  <2>2. CASE pc[w] \in {"schedule", "optout"}
    BY <1>1, <2>2 DEF SaidBeforeLeaving
  <2>. QED BY <2>1, <2>2 DEF Works, PcMove
<1>5. \A v \in Workers : pc'[v] \in Announced => evidence'[job[v]] # <<>>
  BY <1>0, <1>2, <1>3 DEF SaidBeforeLeaving, Keeps
<1>6. \A v \in Workers : pc'[v] \in {"schedule", "optout", "ack"} => Finished(job[v])'
  <2>. SUFFICES ASSUME NEW v \in Workers, pc'[v] \in {"schedule", "optout", "ack"}
                PROVE  Finished(job[v])'
    OBVIOUS
  <2>. PICK m \in Attempts : m = job[v]
    BY <1>0
  <2>1. CASE v = w
    BY <1>0, <1>4, <2>1 DEF Finished, Named
  <2>2. CASE v # w
    <3>1. Finished(m)'
      BY <1>1, <1>2, <2>2 DEF SaidBeforeLeaving
    <3>. QED BY <1>0, <3>1 DEF Finished, Named
  <2>. QED BY <2>1, <2>2
<1>7. \A m \in Attempts : m \in queued => m \in queued' \/ Finished(m)'
  <2>1. pc[w] = "ack" => Finished(n)'
    BY <1>1 DEF SaidBeforeLeaving
  <2>. QED BY <2>1 DEF Works, QueueMove
<1>8. ASSUME listed', ~expired'
      PROVE  /\ \A m \in Attempts : io'[m] # NoRow => m \in queued' \/ Finished(m)'
             /\ \A v \in Workers : pc'[v] # "idle" => job[v] \in queued' \/ Finished(job[v])'
  <2>1. listed /\ ~expired
    BY <1>0, <1>8 DEF Frame
  <2>2. n \in queued' \/ Finished(n)'
    BY <1>0, <1>1, <1>7, <2>1 DEF SaidBeforeLeaving
  <2>3. \A m \in Attempts \ {n} : io'[m] = io[m]
    BY <1>0 DEF Frame
  <2>4. \A m \in Attempts : io'[m] # NoRow => m \in queued' \/ Finished(m)'
    BY <1>1, <1>7, <2>1, <2>2, <2>3 DEF SaidBeforeLeaving
  <2>5. ASSUME NEW v \in Workers, pc'[v] # "idle"
        PROVE  job[v] \in queued' \/ Finished(job[v])'
    <3>. PICK m \in Attempts : m = job[v]
      BY <1>0
    <3>1. pc[v] # "idle"
      BY <1>0, <1>2, <2>5
    <3>2. m \in queued' \/ Finished(m)'
      BY <1>1, <1>7, <2>1, <3>1 DEF SaidBeforeLeaving
    <3>. QED BY <1>0, <3>2 DEF Finished, Named
  <2>. QED BY <2>4, <2>5
<1>. QED BY <1>0, <1>5, <1>6, <1>8 DEF SaidBeforeLeaving, Finished, Named

LEMMA WorkForeign ==
    ASSUME Typed, ForeignReceiptsOnly, NEW w \in Workers, Works(w)
    PROVE  ForeignReceiptsOnly'
<1>1. \A m \in Attempts : exec[m].done = Unknown => exec'[m].done = Unknown
  BY WorkKeeps, Distinct DEF Keeps
<1>2. ignored' = ignored /\ expired' = expired
  BY DEF Works, Frame
<1>3. listed' => listed
  <2>1. listed' \in {listed, FALSE}
    BY DEF Works, Frame
  <2>. QED BY <2>1, Zenon
<1>. QED BY <1>1, <1>2, <1>3 DEF ForeignReceiptsOnly
-----------------------------------------------------------------------------
(* What happens around the workers. *)

\* A step that moves no worker, no message and no row but a lease or a receipt.
LEMMA QuietKeeps ==
    ASSUME IInv, UNCHANGED <<io, evidence, queued, texts, work>>,
           \A n \in Attempts : exec'[n].done = exec[n].done,
           \A n \in Attempts : reported'[n] # {} => texts[n] > 0,
           listed' => listed, ~expired' => ~expired
    PROVE  /\ Learned' /\ Fenced' /\ KnownIsTrue' /\ EvidenceIsTrue' /\ InTurn'
           /\ SaidBeforeLeaving'
<1>0. /\ Typed /\ TypeOK /\ Learned /\ Fenced /\ KnownIsTrue /\ EvidenceIsTrue
      /\ InTurn /\ SaidBeforeLeaving
      /\ \A w \in Workers : job[w] \in Attempts
      /\ io' = io /\ evidence' = evidence /\ queued' = queued /\ texts' = texts
      /\ pc' = pc /\ job' = job /\ answer' = answer
  BY Typing DEF IInv, Typed, work
<1>1. Learned'
  BY <1>0 DEF Learned
<1>2. Fenced'
  BY <1>0 DEF Fenced
<1>3. KnownIsTrue'
  BY <1>0 DEF KnownIsTrue, Happened
<1>4. EvidenceIsTrue'
  BY <1>0 DEF EvidenceIsTrue
<1>5. InTurn'
  BY <1>0 DEF InTurn, Reached
<1>6. SaidBeforeLeaving'
  BY <1>0 DEF SaidBeforeLeaving, Finished, Named
<1>. QED BY <1>1, <1>2, <1>3, <1>4, <1>5, <1>6

\* The channel stops, the number leaves the audience, the batch expires, or
\* nothing happens.
LEMMA PolicyKeeps ==
    ASSUME IInv, Stop \/ Withdraw \/ Expire \/ UNCHANGED vars
    PROVE  IInv'
<1>1. /\ UNCHANGED <<records, queued, carrier, work, faults>>
      /\ exec' = exec /\ reported' = reported /\ ignored' = ignored /\ faults' = faults
      /\ UNCHANGED <<io, evidence, queued, texts, work>>
  BY DEF Stop, Withdraw, Expire, vars, records, carrier
<1>2. /\ enabled' \in BOOLEAN /\ listed' \in BOOLEAN /\ expired' \in BOOLEAN
      /\ listed' => listed
      /\ ~expired' => ~expired
  <2>1. /\ enabled \in BOOLEAN /\ listed \in BOOLEAN /\ expired \in BOOLEAN
        /\ enabled' \in {enabled, FALSE} /\ listed' \in {listed, FALSE}
        /\ expired' \in {expired, TRUE}
    BY DEF Stop, Withdraw, Expire, vars, policy, IInv, Typed, TypeOK
  <2>2. enabled' \in BOOLEAN /\ listed' \in BOOLEAN /\ expired' \in BOOLEAN
    BY <2>1
  <2>3. (listed' => listed) /\ (~expired' => ~expired)
    BY DEF Stop, Withdraw, Expire, vars, policy, IInv, Typed, TypeOK
  <2>. QED BY <2>2, <2>3
<1>3. TypeOK'
  BY <1>1, <1>2 DEF IInv, Typed, TypeOK, work
<1>4. ForeignReceiptsOnly'
  BY <1>1, <1>2 DEF IInv, ForeignReceiptsOnly
<1>5. \A n \in Attempts : reported'[n] # {} => texts[n] > 0
  BY <1>1 DEF IInv, KnownIsTrue
<1>6. \A n \in Attempts : exec'[n].done = exec[n].done
  BY <1>1
<1>7. /\ Learned' /\ Fenced' /\ KnownIsTrue' /\ EvidenceIsTrue' /\ InTurn'
      /\ SaidBeforeLeaving'
  BY <1>1, <1>2, <1>5, <1>6, QuietKeeps
<1>. QED BY <1>3, <1>4, <1>7 DEF IInv, Typed

LEMMA LeaseKeeps ==
    ASSUME IInv, NEW n \in Attempts, LeaseExpires(n)
    PROVE  IInv'
<1>1. /\ exec' = [exec EXCEPT ![n].live = FALSE] /\ exec[n].live
      /\ UNCHANGED <<io, evidence, queued, carrier, policy, work, faults>>
      /\ UNCHANGED <<io, evidence, queued, texts, work>>
      /\ UNCHANGED <<reported, ignored, enabled, listed, expired, faults>>
  BY DEF LeaseExpires, carrier, policy
<1>2. exec \in [Attempts -> Executions]
  BY Typing DEF IInv, Typed
<1>3. /\ exec' \in [Attempts -> Executions]
      /\ \A m \in Attempts : /\ exec'[m].done = exec[m].done
                             /\ exec'[m].holder = exec[m].holder
                             /\ exec'[m].live => exec[m].live
  BY <1>1, <1>2 DEF Executions
<1>4. TypeOK'
  <2>1. \A m \in Attempts : exec'[m].live \/ exec'[m].done # NoAnswer =>
           exec'[m].holder # NoWorker
    BY <1>3 DEF IInv, Typed, TypeOK
  <2>2. exec' \in [Attempts -> [holder : Workers \cup {NoWorker}, live : BOOLEAN,
                                done : Answers]]
    BY <1>3 DEF Executions
  <2>. QED BY <1>1, <2>1, <2>2 DEF IInv, Typed, TypeOK, work
<1>5. ForeignReceiptsOnly'
  BY <1>1, <1>3 DEF IInv, ForeignReceiptsOnly
<1>6. \A m \in Attempts : reported'[m] # {} => texts[m] > 0
  BY <1>1 DEF IInv, KnownIsTrue
<1>7. /\ Learned' /\ Fenced' /\ KnownIsTrue' /\ EvidenceIsTrue' /\ InTurn'
      /\ SaidBeforeLeaving'
  BY <1>1, <1>3, <1>6, QuietKeeps
<1>. QED BY <1>4, <1>5, <1>7 DEF IInv, Typed

LEMMA ReportKeeps ==
    ASSUME IInv, NEW n \in Attempts, NEW s \in Statuses, Report(n, s)
    PROVE  IInv'
<1>1. /\ reported' = [reported EXCEPT ![n] = @ \cup {s}] /\ texts[n] > 0
      /\ UNCHANGED <<records, queued, texts, ignored, policy, work, faults>>
      /\ UNCHANGED <<io, evidence, queued, texts, work>>
      /\ UNCHANGED <<exec, ignored, enabled, listed, expired, faults>>
  BY DEF Report, records, policy
<1>2. reported \in [Attempts -> SUBSET Statuses]
  BY DEF IInv, Typed, TypeOK
<1>3. /\ reported' \in [Attempts -> SUBSET Statuses]
      /\ \A m \in Attempts : reported[m] \subseteq reported'[m]
  BY <1>1, <1>2
<1>4. TypeOK'
  BY <1>1, <1>3 DEF IInv, Typed, TypeOK, work
<1>5. ForeignReceiptsOnly'
  BY <1>1 DEF IInv, ForeignReceiptsOnly
<1>6. \A m \in Attempts : reported'[m] # {} => texts[m] > 0
  BY <1>1, <1>2 DEF IInv, KnownIsTrue
<1>7. /\ Learned' /\ Fenced' /\ KnownIsTrue' /\ EvidenceIsTrue' /\ InTurn'
      /\ SaidBeforeLeaving'
  BY <1>1, <1>6, QuietKeeps
<1>. QED BY <1>4, <1>5, <1>7 DEF IInv, Typed

\* Whoever gives up a receipt was not told that AWS accepted the message: the
\* message has left the queue, so its attempt is finished, and an acceptance
\* would have been named.
LEMMA GiveUpKeeps ==
    ASSUME IInv, NEW n \in Attempts, NEW s \in Statuses, GiveUpReceipt(n, s)
    PROVE  IInv'
<1>0. /\ TypeOK /\ Fenced /\ KnownIsTrue /\ SaidBeforeLeaving /\ ForeignReceiptsOnly
  BY DEF IInv, Typed
<1>1. /\ s \in reported[n] /\ ~Named(n) /\ n \notin queued
      /\ ignored' = [ignored EXCEPT ![n] = @ \cup {s}]
      /\ UNCHANGED <<records, queued, texts, reported, policy, work, faults>>
      /\ UNCHANGED <<io, evidence, queued, texts, work>>
      /\ UNCHANGED <<exec, reported, enabled, listed, expired, faults>>
  BY DEF GiveUpReceipt, records, policy
<1>2. exec[n].done = Unknown \/ ~listed \/ expired
  <2>. SUFFICES ASSUME listed, ~expired PROVE exec[n].done = Unknown
    OBVIOUS
  <2>1. texts[n] > 0
    BY <1>0, <1>1 DEF KnownIsTrue
  <2>2. io[n] # NoRow
    BY <1>0, <2>1 DEF Fenced
  <2>3. Finished(n)
    BY <1>0, <1>1, <2>2 DEF SaidBeforeLeaving
  <2>4. exec[n].done \in Answers \ {NoAnswer, Accepted}
    BY <1>0, <1>1, <2>3, Typing DEF Finished, Executions
  <2>5. ~Failed(exec[n].done)
    BY <1>0, <2>1 DEF KnownIsTrue, Happened
  <2>. QED BY <2>4, <2>5, AnswerParts
<1>3. \A m \in Attempts : ignored'[m] \subseteq reported'[m]
  BY <1>0, <1>1 DEF TypeOK
<1>4. TypeOK'
  BY <1>0, <1>1, <1>3 DEF TypeOK, work
<1>5. \A m \in Attempts : ignored'[m] # {} => m = n \/ ignored[m] # {}
  BY <1>1
<1>6. ForeignReceiptsOnly'
  BY <1>0, <1>1, <1>2, <1>5 DEF ForeignReceiptsOnly
<1>7. \A m \in Attempts : reported'[m] # {} => texts[m] > 0
  BY <1>0, <1>1 DEF KnownIsTrue
<1>8. /\ Learned' /\ Fenced' /\ KnownIsTrue' /\ EvidenceIsTrue' /\ InTurn'
      /\ SaidBeforeLeaving'
  BY <1>1, <1>7, QuietKeeps
<1>. QED BY <1>4, <1>6, <1>8 DEF IInv, Typed

\* A receipt that is heard is of a message that was accepted.
LEMMA HearKeeps ==
    ASSUME IInv, NEW n \in Attempts, NEW s \in Statuses, NEW c \in Contexts,
           Hear(n, s, c)
    PROVE  IInv'
<1>0. /\ TypeOK /\ Learned /\ Fenced /\ KnownIsTrue /\ EvidenceIsTrue /\ InTurn
      /\ SaidBeforeLeaving /\ ForeignReceiptsOnly
      /\ evidence \in [Attempts -> Seq(Facts)]
      /\ \A w \in Workers : job[w] \in Attempts
  BY Typing DEF IInv, Typed
<1>1. /\ s \in reported[n]
      /\ evidence' = [evidence EXCEPT ![n] = Recorded(@, Receipt(s))]
      /\ UNCHANGED <<exec, io, queued, carrier, policy, work, faults>>
      /\ exec' = exec /\ io' = io /\ queued' = queued /\ faults' = faults
      /\ texts' = texts /\ reported' = reported /\ ignored' = ignored
      /\ enabled' = enabled /\ listed' = listed /\ expired' = expired
      /\ pc' = pc /\ job' = job /\ answer' = answer
  BY DEF Hear, carrier, policy, work
<1>. PICK f \in Facts : f = Receipt(s)
  BY Members
<1>. PICK chain \in Seq(Facts) : chain = evidence[n]
  BY <1>0
<1>2. /\ Recorded(chain, f) \in Seq(Facts)
      /\ \A i \in DOMAIN chain :
            i \in DOMAIN Recorded(chain, f) /\ Recorded(chain, f)[i] = chain[i]
      /\ \A i \in DOMAIN Recorded(chain, f) : Recorded(chain, f)[i] = f \/ i \in DOMAIN chain
      /\ chain # <<>> => Recorded(chain, f) # <<>>
  BY RecordedParts, Zenon
<1>3. /\ evidence'[n] = Recorded(chain, f)
      /\ \A m \in Attempts \ {n} : evidence'[m] = evidence[m]
  BY <1>0, <1>1
<1>4. evidence' \in [Attempts -> Seq(Facts)]
  BY <1>0, <1>1, <1>2
<1>5. TypeOK'
  BY <1>0, <1>1, <1>4 DEF TypeOK, Facts, Outcomes
<1>6. Learned' /\ Fenced' /\ KnownIsTrue' /\ InTurn' /\ ForeignReceiptsOnly'
  BY <1>0, <1>1
     DEF Learned, Fenced, KnownIsTrue, Happened, InTurn, Reached, ForeignReceiptsOnly
<1>7. \A m \in Attempts : (Named(m) => Named(m)')
                          /\ (evidence[m] # <<>> => evidence'[m] # <<>>)
  <2>1. Named(n) => Named(n)'
    BY <1>2, <1>3 DEF Named
  <2>2. \A m \in Attempts \ {n} : Named(m) => Named(m)'
    BY <1>3 DEF Named
  <2>. QED BY <1>2, <1>3, <2>1, <2>2
<1>8. \A m \in Attempts : Finished(m) => Finished(m)'
  BY <1>1, <1>7 DEF Finished
<1>9. SaidBeforeLeaving'
  <2>1. /\ \A w \in Workers : pc[w] \in Announced => evidence'[job[w]] # <<>>
        /\ \A w \in Workers : pc[w] \in {"schedule", "optout", "ack"} =>
              exec[job[w]].done # NoAnswer
              /\ (exec[job[w]].done = Accepted => Named(job[w])')
    <3>1. \A w \in Workers : pc[w] \in Announced => evidence'[job[w]] # <<>>
      BY <1>0, <1>7 DEF SaidBeforeLeaving
    <3>2. ASSUME NEW w \in Workers, pc[w] \in {"schedule", "optout", "ack"}
          PROVE  exec[job[w]].done # NoAnswer
                 /\ (exec[job[w]].done = Accepted => Named(job[w])')
      <4>. PICK m \in Attempts : m = job[w]
        BY <1>0
      <4>1. Finished(m) /\ Finished(m)'
        BY <1>0, <1>8, <3>2 DEF SaidBeforeLeaving
      <4>2. exec[m].done # NoAnswer /\ (exec[m].done = Accepted => Named(m)')
        BY <1>1, <4>1 DEF Finished
      <4>. QED BY <1>1, <4>2 DEF Named
    <3>. QED BY <3>1, <3>2
  <2>2. ASSUME listed, ~expired
        PROVE  /\ \A m \in Attempts : io[m] # NoRow => m \in queued \/ Finished(m)'
               /\ \A w \in Workers : pc[w] # "idle" => job[w] \in queued \/ Finished(job[w])'
    <3>1. \A m \in Attempts : io[m] # NoRow => m \in queued \/ Finished(m)'
      BY <1>0, <1>8, <2>2 DEF SaidBeforeLeaving
    <3>2. ASSUME NEW w \in Workers, pc[w] # "idle"
          PROVE  job[w] \in queued \/ Finished(job[w])'
      <4>. PICK m \in Attempts : m = job[w]
        BY <1>0
      <4>1. m \in queued \/ Finished(m)'
        BY <1>0, <1>8, <2>2, <3>2 DEF SaidBeforeLeaving
      <4>. QED BY <1>1, <4>1 DEF Finished, Named
    <3>. QED BY <3>1, <3>2
  <2>. QED BY <1>1, <2>1, <2>2 DEF SaidBeforeLeaving, Finished
<1>10. EvidenceIsTrue'
  <2>1. texts[n] > 0
    BY <1>0, <1>1 DEF KnownIsTrue
  <2>2. f.ref # Null
    BY FactParts
  <2>3. \A i \in DOMAIN evidence'[n] :
           /\ evidence'[n][i].state = "failed" /\ evidence'[n][i].ref = Null => Failed(io[n])
           /\ evidence'[n][i].state \in {"provider-accepted", "delivered"} => texts[n] > 0
    BY <1>0, <1>2, <1>3, <2>1, <2>2 DEF EvidenceIsTrue
  <2>. QED BY <1>0, <1>1, <1>3, <2>3 DEF EvidenceIsTrue
<1>. QED BY <1>5, <1>6, <1>9, <1>10 DEF IInv, Typed

LEMMA FetchKeeps ==
    ASSUME IInv, NEW w \in Workers, NEW n \in Attempts, Fetch(w, n)
    PROVE  IInv'
<1>0. /\ TypeOK /\ Learned /\ Fenced /\ KnownIsTrue /\ EvidenceIsTrue /\ InTurn
      /\ SaidBeforeLeaving /\ ForeignReceiptsOnly
      /\ pc \in [Workers -> Steps] /\ job \in [Workers -> Attempts]
      /\ queued \subseteq Attempts
  BY Typing DEF IInv, Typed, TypeOK
<1>1. /\ pc[w] = "idle" /\ n \in queued
      /\ UNCHANGED <<records, carrier, policy, answer, faults>>
      /\ exec' = exec /\ io' = io /\ evidence' = evidence /\ faults' = faults
      /\ texts' = texts /\ reported' = reported /\ ignored' = ignored
      /\ enabled' = enabled /\ listed' = listed /\ expired' = expired
      /\ answer' = answer
      /\ queued' \subseteq queued
      /\ \/ /\ listed /\ ~expired /\ queued' = queued
            /\ pc' = [pc EXCEPT ![w] = "lookup"] /\ job' = [job EXCEPT ![w] = n]
         \/ (~listed \/ expired) /\ pc' = pc /\ job' = job
  BY DEF Fetch, StaysMeanwhile, records, carrier, policy
<1>2. /\ pc' \in [Workers -> Steps] /\ job' \in [Workers -> Attempts]
      /\ \A v \in Workers : \/ pc'[v] = pc[v] /\ job'[v] = job[v]
                            \/ v = w /\ pc'[v] = "lookup" /\ job'[v] = n
  BY <1>0, <1>1 DEF Steps
<1>3. TypeOK'
  BY <1>0, <1>1, <1>2 DEF TypeOK
<1>4. Learned'
  BY <1>0, <1>1, <1>2 DEF Learned, Carrying, Concluding
<1>5. Fenced'
  BY <1>0, <1>1, <1>2 DEF Fenced, Sending
<1>6. KnownIsTrue'
  BY <1>0, <1>1, <1>2 DEF KnownIsTrue, Carrying, Happened
<1>7. EvidenceIsTrue' /\ ForeignReceiptsOnly'
  BY <1>0, <1>1 DEF EvidenceIsTrue, ForeignReceiptsOnly
<1>8. InTurn'
  <2>1. \A m : Reached(m)' <=> Reached(m)
    BY <1>1 DEF Reached
  <2>2. \A v \in Workers : pc'[v] # "idle" => Reached(job'[v])
    BY <1>0, <1>1, <1>2 DEF InTurn
  <2>. QED BY <1>0, <1>1, <2>1, <2>2 DEF InTurn, Reached
<1>9. SaidBeforeLeaving'
  <2>1. \A m : Finished(m)' <=> Finished(m)
    BY <1>1 DEF Finished, Named
  <2>2. \A v \in Workers : pc'[v] \in Announced => evidence[job'[v]] # <<>>
    BY <1>0, <1>2 DEF SaidBeforeLeaving, Announced
  <2>3. \A v \in Workers : pc'[v] \in {"schedule", "optout", "ack"} => Finished(job'[v])
    BY <1>0, <1>2 DEF SaidBeforeLeaving
  <2>4. ASSUME listed, ~expired
        PROVE  /\ \A m \in Attempts : io[m] # NoRow => m \in queued \/ Finished(m)
               /\ \A v \in Workers : pc'[v] # "idle" => job'[v] \in queued \/ Finished(job'[v])
    BY <1>0, <1>1, <1>2, <2>4 DEF SaidBeforeLeaving
  <2>. QED BY <1>1, <2>1, <2>2, <2>3, <2>4 DEF SaidBeforeLeaving, Finished, Named
<1>. QED BY <1>3, <1>4, <1>5, <1>6, <1>7, <1>8, <1>9 DEF IInv, Typed
-----------------------------------------------------------------------------
(* The invariant and what follows from it. *)

LEMMA Initially == ASSUME Init PROVE IInv
<1>0. /\ \A n \in Attempts : /\ exec[n] = NoExecution /\ io[n] = NoRow
                             /\ evidence[n] = <<>> /\ texts[n] = 0
                             /\ reported[n] = {} /\ ignored[n] = {}
      /\ \A w \in Workers : pc[w] = "idle" /\ job[w] = 1 /\ answer[w] = NoAnswer
      /\ queued = {1} /\ 1 \in Attempts
  BY RetryPolicyAssumption DEF Init, Attempts
<1>1. TypeOK
  <2>1. NoExecution \in [holder : Workers \cup {NoWorker}, live : BOOLEAN, done : Answers]
    BY AnswerParts DEF NoExecution
  <2>2. exec \in [Attempts -> [holder : Workers \cup {NoWorker}, live : BOOLEAN,
                               done : Answers]]
    BY <2>1 DEF Init
  <2>3. io \in [Attempts -> {NoRow, ClaimedRow} \cup Answers]
    BY DEF Init
  <2>4. evidence \in [Attempts -> Seq(Facts)]
    BY DEF Init
  <2>5. \A n \in Attempts : exec[n].live \/ exec[n].done # NoAnswer =>
           exec[n].holder # NoWorker
    BY <1>0 DEF NoExecution
  <2>6. texts \in [Attempts -> 0..1] /\ reported \in [Attempts -> SUBSET Statuses]
    BY DEF Init
  <2>7. /\ pc \in [Workers -> Steps] /\ job \in [Workers -> Attempts]
        /\ answer \in [Workers -> Answers] /\ faults \in 0..MaxFaults
    BY <1>0, AnswerParts, SwitchesAssumption DEF Init, Steps
  <2>8. \A n \in Attempts : ignored[n] \subseteq reported[n]
    BY <1>0
  <2>9. /\ queued \subseteq Attempts
        /\ enabled \in BOOLEAN /\ listed \in BOOLEAN /\ expired \in BOOLEAN
    BY <1>0 DEF Init
  <2>. QED BY <2>2, <2>3, <2>4, <2>5, <2>6, <2>7, <2>8, <2>9 DEF TypeOK, Facts, Outcomes
<1>2. Learned
  BY <1>0, Distinct DEF Learned, Carrying, Concluding, NoExecution
<1>3. Fenced
  BY <1>0 DEF Fenced, Sending
<1>4. KnownIsTrue
  BY <1>0, Distinct DEF KnownIsTrue, Carrying, NoExecution, Happened, NoRow
<1>5. EvidenceIsTrue
  BY <1>0 DEF EvidenceIsTrue
<1>6. InTurn
  BY <1>0 DEF InTurn, Reached, Attempts
<1>7. SaidBeforeLeaving
  BY <1>0 DEF SaidBeforeLeaving, Announced
<1>8. ForeignReceiptsOnly
  BY <1>0 DEF ForeignReceiptsOnly
<1>. QED BY <1>1, <1>2, <1>3, <1>4, <1>5, <1>6, <1>7, <1>8 DEF IInv, Typed

LEMMA Inductive == IInv /\ [Next]_vars => IInv'
<1>. SUFFICES ASSUME IInv, [Next]_vars PROVE IInv'
  OBVIOUS
<1>1. ASSUME NEW w \in Workers, Step(w) \/ Fault(w) PROVE IInv'
  <2>0. /\ Typed /\ KnownIsTrue /\ EvidenceIsTrue /\ InTurn /\ SaidBeforeLeaving
        /\ ForeignReceiptsOnly
    BY DEF IInv
  <2>1. Works(w)
    BY <1>1, <2>0, WorkerWorks
  <2>2. TypeOK' /\ Learned' /\ Fenced'
    BY <2>0, <2>1, WorkTyped, WorkLearned, WorkFenced
  <2>3. KnownIsTrue' /\ EvidenceIsTrue' /\ InTurn'
    BY <2>0, <2>1, WorkKnows, WorkTells, WorkInTurn
  <2>4. SaidBeforeLeaving' /\ ForeignReceiptsOnly'
    BY <2>0, <2>1, WorkSays, WorkForeign
  <2>. QED BY <2>2, <2>3, <2>4 DEF IInv, Typed
<1>2. ASSUME NEW w \in Workers, NEW n \in Attempts, Fetch(w, n) PROVE IInv'
  BY <1>2, FetchKeeps
<1>3. ASSUME NEW n \in Attempts, LeaseExpires(n) PROVE IInv'
  BY <1>3, LeaseKeeps
<1>4. ASSUME NEW n \in Attempts, NEW s \in Statuses, Report(n, s) \/ GiveUpReceipt(n, s)
      PROVE  IInv'
  BY <1>4, ReportKeeps, GiveUpKeeps
<1>5. ASSUME NEW n \in Attempts, NEW s \in Statuses, NEW c \in Contexts, Hear(n, s, c)
      PROVE  IInv'
  BY <1>5, HearKeeps
<1>6. CASE Stop \/ Withdraw \/ Expire \/ UNCHANGED vars
  BY <1>6, PolicyKeeps
<1>. QED BY <1>1, <1>2, <1>3, <1>4, <1>5, <1>6 DEF Next

\* An attempt follows those that failed for good, so a later one has a text
\* only if no earlier one has.
LEMMA OnlyOneText == ASSUME IInv PROVE OneTextPerRecipient
<1>0. TypeOK /\ Fenced /\ KnownIsTrue /\ InTurn
  BY DEF IInv, Typed
<1>1. ASSUME NEW m \in Attempts, NEW n \in Attempts, m < n, texts[n] > 0
      PROVE  ~(texts[m] > 0)
  <2>1. io[n] # NoRow
    BY <1>0, <1>1 DEF Fenced
  <2>2. io[m].retry
    BY <1>0, <1>1, <2>1 DEF InTurn, Reached
  <2>3. io[m] \in Rows
    BY <1>0, Typing
  <2>4. Failed(io[m])
    BY <2>2, <2>3, AnswerParts, ClaimedParts, Distinct DEF Rows, NoRow
  <2>. QED BY <1>0, <2>4 DEF KnownIsTrue
<1>2. \A m \in Attempts, n \in Attempts : m < n \/ n < m \/ m = n
  BY DEF Attempts
<1>. QED BY <1>1, <1>2 DEF OneTextPerRecipient

LEMMA ReportsFollow == ASSUME IInv PROVE ReportsAreTrue
BY DEF IInv, KnownIsTrue, EvidenceIsTrue, ReportsAreTrue

LEMMA Invariance == Spec => []IInv
BY Initially, Inductive, PTL DEF Spec

\* However workers crash, take over each other's leases or lose the ledger's
\* answer, a recipient gets one text over all attempts, and what is on file of
\* it is what happened: a failure the system itself recorded had no text, and
\* an acceptance or a delivery had one (SMS worker, claimProviderIo,
\* recordAttemptEvidence).
THEOREM OneText == Spec => []OneTextAsReported
<1>1. IInv => OneTextAsReported
  BY OnlyOneText, ReportsFollow DEF OneTextAsReported, IInv, Typed
<1>. QED BY <1>1, Invariance, PTL

\* While the number is listed and its batch has not expired, a receipt is given
\* up as foreign only for an attempt whose outcome is unknown to us as well
\* (SmsDeliveryEventProcessor.process, UNMATCHED_RECEIPT).
THEOREM ReceiptsAreForeign == Spec => []ForeignReceiptsOnly
<1>1. IInv => ForeignReceiptsOnly
  BY DEF IInv
<1>. QED BY <1>1, Invariance, PTL

-----------------------------------------------------------------------------
(* The receipts of pushes.  The invariant says, of each attempt, that its row,
   its facts and what each poller carries agree, although a poller that has
   lost its lease goes on to record what it carries: it then says the same. *)

Sends == Push!Attempts

\* The end a row is to come to or has come to, once one has been staged or
\* decided.
Said(a) == IF poll[a].pending # Push!NoAction THEN poll[a].pending ELSE poll[a].decided

\* What may be recorded of an attempt: the end its row was given.  An attempt
\* that was to be sent again and was not before its hour was over has expired,
\* and then is never sent again.
Speaks(a, act) ==
    \/ act = Said(a) /\ act \in Push!Staged /\ (act = Push!Resend => a \in resend)
    \/ act = Push!Expiry /\ Said(a) = Push!Resend /\ a \notin resend /\ clock > Push!Live

\* The facts about an attempt before and after that.
Bare(id) == <<Push!Attempted, Push!Accepted(id)>>
Ended(id, act) == <<Push!Attempted, Push!Accepted(id), Push!Learnt(act, id)>>
HasEnded(a, act) == truth[a] = Ended(poll[a].id, act)

PollSteps == {"idle", "stage", "reschedule", "complete", "resend", "publish",
              "record", "invalidate", "decide"}
PollActs == Push!Staged \cup {Push!NoAction, Push!Completion}

ReceiptTypes ==
    /\ clock \in 0..2
    /\ poll \in [Sends -> Push!RowSet \cup {Push!NoRow}]
    /\ resend \subseteq {a \in Sends : Push!Number(a) < MaxSend}
    /\ references \subseteq {a \in Sends : Push!Number(a) > 1}
    /\ truth = [a \in Sends |-> truth[a]]
    /\ invalid \subseteq Devices
    /\ polling \in [Pollers \X Sends -> [step : PollSteps, act : PollActs]]
    /\ pollerFaults \in 0..MaxPollFaults

\* What an attempt without a row has behind it.
Unpolled(a) ==
    /\ truth[a] = <<>> \/ \E id \in Ids : truth[a] = Bare(id)
    /\ \A p \in Pollers : polling[<<p, a>>] = Push!Idle
    /\ a \notin resend

\* What a poller carries agrees with the row, although it may have lost its
\* lease.  Whoever still holds it and has staged nothing finds nothing staged.
Asking == {"stage", "reschedule", "complete"}
Carries(p, a) ==
    LET step == polling[<<p, a>>].step
        act  == polling[<<p, a>>].act
    IN /\ step \in {"idle", "reschedule"} => act = Push!NoAction
       /\ step = "stage" => act \in Push!Staged /\ (act = Push!Resend => Push!Number(a) < MaxSend)
       /\ step = "complete" => act = Push!Completion
       /\ step \in Asking /\ poll[a].lease = p => poll[a].pending = Push!NoAction
       /\ step = "resend" => act = Push!Resend /\ Said(a) = Push!Resend
       /\ step = "publish" => act = Push!Resend /\ a \in resend
       /\ step \in {"record", "invalidate", "decide"} => Speaks(a, act)
       /\ step \in {"invalidate", "decide"} => HasEnded(a, act)
       /\ step = "invalidate" => act.reason = "unregistered"

\* What a row says agrees with the facts about its attempt.
RowAgrees(a) ==
    /\ truth[a] = Bare(poll[a].id) \/ \E act \in Push!Staged : Speaks(a, act) /\ HasEnded(a, act)
    /\ poll[a].state = "conflict" => Said(a) \in {Push!NoAction, Push!Collision}
    /\ Said(a) = Push!Resend => Push!Number(a) < MaxSend
    /\ poll[a].decided # Push!NoAction =>
          poll[a].lease = Push!Nobody /\ poll[a].pending = Push!NoAction
    /\ poll[a].decided \in Push!Staged => HasEnded(a, poll[a].decided)
    /\ a \in resend => Said(a) = Push!Resend

Polled(a) == RowAgrees(a) /\ \A p \in Pollers : Carries(p, a)

AttemptFits(a) == /\ poll[a] = Push!NoRow => Unpolled(a)
                  /\ poll[a] # Push!NoRow => Polled(a)

\* Whoever was taken off the list has an attempt that ended so.
GoneOnProof ==
    \A d \in invalid : \E a \in Sends :
        /\ Push!Device(a) = d /\ poll[a] # Push!NoRow
        /\ HasEnded(a, Push!Failure("unregistered"))

ReceiptInv == /\ ReceiptTypes
              /\ \A a \in Sends : AttemptFits(a)
              /\ GoneOnProof
-----------------------------------------------------------------------------
(* Outcomes of a receipt and the facts they leave. *)

LEMMA Ends ==
    /\ \A x \in Push!Staged :
          /\ x # Push!NoAction /\ x # Push!Completion
          /\ x.state \in {"failed", "expired", "unknown"}
          /\ x.state = "unknown" => x.reason \in {"conflict", "missing", "horizon"}
          /\ x.reason = "unregistered" => x = Push!Failure("unregistered")
    /\ \A x \in Push!Staged, y \in Push!Staged :
          x.state = y.state /\ x.reason = y.reason => x = y
    /\ Push!Resend \in Push!Staged /\ Push!Expiry \in Push!Staged
    /\ Push!Collision \in Push!Staged /\ Push!Failure("unregistered") \in Push!Staged
    /\ Push!Failure("unregistered") # Push!Collision
    /\ Push!Expiry # Push!Resend /\ Push!Collision # Push!Resend
    /\ Push!Completion.state = "provider-accepted" /\ Push!NoAction # Push!Completion
BY DEF Push!Staged, Push!NoAction, Push!Completion, Push!Resend, Push!Expiry,
       Push!Failure, Push!Doubt, Push!Collision, Push!Action, Push!Null

LEMMA EndsOfAnswers ==
    /\ \A r \in {"unregistered", "undeliverable", "exhausted"} :
          Push!Failure(r) \in Push!Staged /\ Push!Failure(r) # Push!Resend
    /\ \A r \in {"missing", "horizon"} :
          Push!Doubt(r) \in Push!Staged /\ Push!Doubt(r) # Push!Resend
BY DEF Push!Staged, Push!Resend, Push!Failure, Push!Doubt, Push!Action

\* The facts about an attempt, one by one.
LEMMA BareFacts ==
    ASSUME NEW id
    PROVE  /\ Len(Bare(id)) = 2 /\ Bare(id) # <<>> /\ Bare(id)[2].ref = id
           /\ {Bare(id)[i] : i \in DOMAIN Bare(id)} = {Push!Attempted, Push!Accepted(id)}
BY DEF Bare, Push!Accepted, Push!Fact

LEMMA EndedFacts ==
    ASSUME NEW id, NEW act
    PROVE  /\ Len(Ended(id, act)) = 3 /\ Ended(id, act) # <<>> /\ Ended(id, act)[2].ref = id
           /\ {Ended(id, act)[i] : i \in DOMAIN Ended(id, act)} =
                  {Push!Attempted, Push!Accepted(id), Push!Learnt(act, id)}
BY DEF Ended, Push!Accepted, Push!Fact

LEMMA AppendToPair ==
    ASSUME NEW x, NEW y, NEW z
    PROVE  Append(<<x, y>>, z) = <<x, y, z>>
<1>. DEFINE S == {x, y, z}  s == Append(<<x, y>>, z)  t == <<x, y, z>>
<1>1. <<x, y>> \in Seq(S) /\ t \in Seq(S) /\ z \in S
  OBVIOUS
<1>2. s \in Seq(S) /\ Len(s) = 3 /\ \A i \in 1..3 : s[i] = IF i = 3 THEN z ELSE <<x, y>>[i]
  BY <1>1
<1>3. Len(t) = 3 /\ \A i \in 1..3 : t[i] = s[i]
  BY <1>2
<1>4. s = [i \in 1..3 |-> s[i]] /\ t = [i \in 1..3 |-> t[i]]
  BY <1>1, <1>2, <1>3
<1>. QED BY <1>3, <1>4, Zenon

\* The first end recorded of an attempt is appended, and repeating it changes
\* nothing.
LEMMA FirstEnd ==
    ASSUME NEW id \in Ids, NEW act \in Push!Staged
    PROVE  /\ Push!Reply(Bare(id), Push!Learnt(act, id)) = "append"
           /\ Push!Recorded(Bare(id), Push!Learnt(act, id)) = Ended(id, act)
<1>. DEFINE f == Push!Learnt(act, id)
<1>1. id # Push!Null
  BY PushConstants DEF Push!ReceiptConstants
<1>2. /\ Push!Latest(Bare(id)) = Push!Accepted(id) /\ Bare(id) # <<>>
      /\ DOMAIN Bare(id) = 1..2 /\ Bare(id)[1] = Push!Attempted /\ Bare(id)[2] = Push!Accepted(id)
  BY DEF Bare, Push!Latest
<1>3. /\ f.state = act.state /\ f.ref = id /\ f.provider = "expo"
      /\ Push!Accepted(id).state = "provider-accepted" /\ Push!Attempted.state = "attempted"
  BY DEF Push!Learnt, Push!Fact, Push!Accepted, Push!Attempted
<1>4. act.state \in {"failed", "expired", "unknown"}
  BY Ends
<1>5. f # Push!Accepted(id) /\ f # Push!Attempted
  BY <1>3, <1>4
<1>6. Push!Disposition(Push!Accepted(id), f) = "open"
  BY <1>1, <1>3 DEF Push!Disposition, Push!Terminal
<1>7. ~Push!Retained(Bare(id), f)
  BY <1>2, <1>5 DEF Push!Retained
<1>8. <<"provider-accepted", f.state>> \in Push!Allowed
  BY <1>3, <1>4 DEF Push!Allowed
<1>. HIDE DEF f
<1>9. Push!Reply(Bare(id), f) = "append"
  BY <1>2, <1>3, <1>4, <1>5, <1>6, <1>7, <1>8 DEF Push!Reply
<1>10. Append(Bare(id), f) = Ended(id, act)
  BY AppendToPair DEF f, Bare, Ended
<1>11. Push!Recorded(Bare(id), f) = Append(Bare(id), f)
  BY <1>9, Zenon DEF Push!Recorded
<1>. QED BY <1>9, <1>10, <1>11, Zenon DEF f

LEMMA SameEnd ==
    ASSUME NEW id \in Ids, NEW act \in Push!Staged
    PROVE  /\ Push!Reply(Ended(id, act), Push!Learnt(act, id)) = "kept"
           /\ Push!Recorded(Ended(id, act), Push!Learnt(act, id)) = Ended(id, act)
<1>. DEFINE f == Push!Learnt(act, id)
<1>1. f.state = act.state
  BY DEF Push!Learnt, Push!Fact
<1>2. f.state # "attempted"
  BY <1>1, Ends
<1>3. Push!Latest(Ended(id, act)) = f /\ Ended(id, act) # <<>>
  BY DEF Ended, Push!Latest
<1>. HIDE DEF f
<1>4. Push!Reply(Ended(id, act), f) = "kept"
  BY <1>2, <1>3 DEF Push!Reply
<1>. QED BY <1>4 DEF f, Push!Recorded
-----------------------------------------------------------------------------
(* What a step leaves alone. *)

LEMMA RowParts ==
    /\ \A r \in Push!RowSet :
          /\ r # Push!NoRow /\ r.id \in Ids
          /\ r.pending \in Push!Staged \cup {Push!NoAction}
          /\ r.decided \in Push!Staged \cup {Push!NoAction, Push!Completion}
    /\ Push!NoRow \notin Push!RowSet
<1>1. Push!NoRow.id = Push!Null
  BY DEF Push!NoRow
<1>2. \A r \in Push!RowSet : r.id \in Ids
  BY DEF Push!RowSet
<1>3. Push!Null \notin Ids
  BY PushConstants DEF Push!ReceiptConstants
<1>. QED BY <1>1, <1>2, <1>3 DEF Push!RowSet

\* A row whose end is not touched stays in agreement: its lease may end, its
\* receipt turn out to be shared, its pollers give up, and the hour be over.
LEMMA RowKeeps ==
    ASSUME NEW a \in Sends, Polled(a),
           poll'[a].id = poll[a].id, poll'[a].pending = poll[a].pending,
           poll'[a].decided = poll[a].decided,
           poll'[a].lease \in {poll[a].lease, Push!Nobody},
           poll'[a].state = poll[a].state \/ Said(a) = Push!NoAction,
           truth'[a] = truth[a], a \in resend' <=> a \in resend,
           clock > Push!Live => clock' > Push!Live,
           \A q \in Pollers : polling'[<<q, a>>] \in {polling[<<q, a>>], Push!Idle}
    PROVE  Polled(a)'
<1>1. Said(a)' = Said(a)
  BY DEF Said
<1>2. \A act : Speaks(a, act) => Speaks(a, act)'
  BY <1>1 DEF Speaks
<1>3. \A act : HasEnded(a, act) => HasEnded(a, act)'
  BY DEF HasEnded
<1>4. RowAgrees(a)'
  <2>1. (poll[a].state = "conflict" => Said(a) \in {Push!NoAction, Push!Collision})'
    BY <1>1 DEF RowAgrees, Polled
  <2>. QED BY <1>1, <1>2, <1>3, <2>1 DEF RowAgrees, Polled
<1>5. ASSUME NEW q \in Pollers
      PROVE  Carries(q, a)'
  <2>1. CASE polling'[<<q, a>>] = Push!Idle
    <3>1. polling'[<<q, a>>].step = "idle" /\ polling'[<<q, a>>].act = Push!NoAction
      BY <2>1 DEF Push!Idle
    <3>. QED BY <3>1 DEF Carries, Asking
  <2>2. CASE polling'[<<q, a>>] = polling[<<q, a>>]
    <3>1. Carries(q, a)
      BY DEF Polled
    <3>2. q # Push!Nobody
      BY PushConstants DEF Push!ReceiptConstants
    <3>. QED BY <1>1, <1>2, <1>3, <2>2, <3>1, <3>2 DEF Carries
  <2>. QED BY <2>1, <2>2
<1>. QED BY <1>4, <1>5 DEF Polled

\* An attempt nobody touches stays as it was, while the hour may end.
LEMMA Untouched ==
    ASSUME NEW a \in Sends, AttemptFits(a), poll'[a] = poll[a], truth'[a] = truth[a],
           \A p \in Pollers : polling'[<<p, a>>] = polling[<<p, a>>],
           a \in resend' <=> a \in resend, clock > Push!Live => clock' > Push!Live
    PROVE  AttemptFits(a)'
<1>1. Unpolled(a) => Unpolled(a)'
  BY DEF Unpolled
<1>2. Polled(a) => Polled(a)'
  BY RowKeeps
<1>. QED BY <1>1, <1>2 DEF AttemptFits

\* A row for which nothing was staged or decided has only its acceptance, and
\* nobody acts on it.
LEMMA NothingSaid ==
    ASSUME NEW a \in Sends, Polled(a), Said(a) = Push!NoAction
    PROVE  /\ truth[a] = Bare(poll[a].id) /\ a \notin resend
           /\ \A p \in Pollers : polling[<<p, a>>].step \notin
                 {"resend", "publish", "record", "invalidate", "decide"}
<1>1. \A act : ~Speaks(a, act)
  BY Ends DEF Speaks
<1>2. a \notin resend
  BY Ends DEF Polled, RowAgrees
<1>. QED BY <1>1, <1>2, Ends DEF Polled, RowAgrees, Carries

\* One end at most may be recorded of an attempt.
LEMMA OneEnd ==
    ASSUME NEW a, NEW x, NEW y, Speaks(a, x), Speaks(a, y)
    PROVE  x = y
BY Ends DEF Speaks

LEMMA SpokenIsStaged ==
    ASSUME NEW a, NEW x, Speaks(a, x)
    PROVE  x \in Push!Staged /\ Said(a) \in Push!Staged /\ Said(a) # Push!NoAction
BY Ends DEF Speaks

\* Whoever works on a row has one.
LEMMA WorkHasRow ==
    ASSUME ReceiptInv, NEW a \in Sends, NEW p \in Pollers, polling[<<p, a>>].step # "idle"
    PROVE  poll[a] \in Push!RowSet /\ Polled(a) /\ Carries(p, a)
<1>1. poll[a] # Push!NoRow
  <2>1. Unpolled(a) => polling[<<p, a>>].step = "idle"
    BY DEF Unpolled, Push!Idle
  <2>. QED BY <2>1 DEF ReceiptInv, AttemptFits
<1>. QED BY <1>1 DEF ReceiptInv, ReceiptTypes, AttemptFits, Polled
\* Two values of a poller's work with the row it claimed.
LEMMA WorkParts ==
    /\ Push!Idle.step = "idle" /\ Push!Idle.act = Push!NoAction
    /\ Push!Idle \in [step : PollSteps, act : PollActs]
    /\ \A s \in PollSteps, x \in PollActs :
          /\ Push!Doing(s, x) \in [step : PollSteps, act : PollActs]
          /\ Push!Doing(s, x).step = s /\ Push!Doing(s, x).act = x
BY DEF Push!Idle, Push!Doing, PollSteps, PollActs

\* What a step about one attempt leaves of the others.
Elsewhere(a) ==
    \A b \in Sends \ {a} :
        /\ poll'[b] = poll[b] /\ truth'[b] = truth[b] /\ (b \in resend' <=> b \in resend)
        /\ \A p \in Pollers : polling'[<<p, b>>] = polling[<<p, b>>]

LEMMA OthersFit ==
    ASSUME ReceiptInv, NEW a \in Sends, Elsewhere(a), clock' = clock, AttemptFits(a)'
    PROVE  (\A b \in Sends : AttemptFits(b))'
<1>1. ASSUME NEW b \in Sends \ {a}
      PROVE  AttemptFits(b)'
  BY Untouched DEF ReceiptInv, Elsewhere
<1>2. Sends' = Sends
  BY DEF Sends, Push!Attempts
<1>. QED BY <1>1, <1>2, Zenon

\* A poller moves on with a row it has written, or leaves alone.
LEMMA Moves ==
    ASSUME ReceiptInv, NEW a \in Sends, NEW p \in Pollers,
           NEW row \in Push!RowSet, NEW next \in [step : PollSteps, act : PollActs],
           poll' = [poll EXCEPT ![a] = row] \/ (poll' = poll /\ row = poll[a]),
           polling' = [polling EXCEPT ![<<p, a>>] = next]
    PROVE  /\ poll' \in [Sends -> Push!RowSet \cup {Push!NoRow}] /\ poll'[a] = row
           /\ polling' \in [Pollers \X Sends -> [step : PollSteps, act : PollActs]]
           /\ polling'[<<p, a>>] = next
           /\ \A q \in Pollers \ {p} : polling'[<<q, a>>] = polling[<<q, a>>]
           /\ \A b \in Sends \ {a} : poll'[b] = poll[b]
                  /\ \A q \in Pollers : polling'[<<q, b>>] = polling[<<q, b>>]
BY DEF ReceiptInv, ReceiptTypes
-----------------------------------------------------------------------------
(* Deciding. *)

\* A decision refused.
LEMMA RefusalKeeps ==
    ASSUME ReceiptInv, NEW a \in Sends, NEW p \in Pollers, poll[a] # Push!NoRow,
           poll' = poll, polling' = [polling EXCEPT ![<<p, a>>] = Push!Idle],
           UNCHANGED <<clock, resend, references, truth, invalid>>,
           pollerFaults' \in 0..MaxPollFaults
    PROVE  ReceiptTypes' /\ (\A b \in Sends : AttemptFits(b))'
<1>1. poll[a] \in Push!RowSet /\ Polled(a)
  BY DEF ReceiptInv, ReceiptTypes, AttemptFits
<1>2. /\ poll' \in [Sends -> Push!RowSet \cup {Push!NoRow}] /\ poll'[a] = poll[a]
      /\ polling' \in [Pollers \X Sends -> [step : PollSteps, act : PollActs]]
      /\ polling'[<<p, a>>] = Push!Idle
      /\ \A q \in Pollers \ {p} : polling'[<<q, a>>] = polling[<<q, a>>]
      /\ \A b \in Sends \ {a} : poll'[b] = poll[b]
             /\ \A q \in Pollers : polling'[<<q, b>>] = polling[<<q, b>>]
  BY <1>1, WorkParts, Moves
<1>3. ReceiptTypes'
  BY <1>2 DEF ReceiptInv, ReceiptTypes, Sends, Push!Attempts
<1>4. Polled(a)'
  BY <1>1, <1>2, RowKeeps
<1>5. AttemptFits(a)'
  BY <1>1, <1>2, <1>4, RowParts DEF AttemptFits
<1>6. Elsewhere(a)
  BY <1>2 DEF Elsewhere
<1>. QED BY <1>3, <1>5, <1>6, OthersFit

LEMMA StageKeeps ==
    ASSUME ReceiptInv, NEW a \in Sends, NEW p \in Pollers, Push!Stage(p, a)
    PROVE  ReceiptTypes' /\ (\A b \in Sends : AttemptFits(b))'
<1>. DEFINE act == polling[<<p, a>>].act
            row == [poll[a] EXCEPT !.pending = act]
<1>1. polling[<<p, a>>].step = "stage"
  BY DEF Push!Stage
<1>2. poll[a] \in Push!RowSet /\ Polled(a) /\ Carries(p, a)
  BY <1>1, WorkHasRow
<1>3. CASE Push!LeaseHeld(p, a) /\ Push!Heard(a, act)
  <2>1. act \in Push!Staged /\ (act = Push!Resend => Push!Number(a) < MaxSend)
    BY <1>1, <1>2 DEF Carries
  <2>2. poll[a].lease = p /\ poll[a].decided = Push!NoAction /\ poll[a].pending = Push!NoAction
    BY <1>1, <1>2, <1>3 DEF Push!LeaseHeld, Carries, Asking
  <2>3. Said(a) = Push!NoAction
    BY <2>2 DEF Said
  <2>4. poll' = [poll EXCEPT ![a] = row] /\ polling' = [polling EXCEPT ![<<p, a>>] = Push!Resume(act)]
        /\ UNCHANGED <<clock, resend, references, truth, invalid, pollerFaults>>
    BY <1>3 DEF Push!Stage, Push!Decide
  <2>5. row \in Push!RowSet /\ row.pending = act /\ row.id = poll[a].id /\ row.state = poll[a].state
        /\ row.lease = poll[a].lease /\ row.decided = poll[a].decided
    BY <1>2, <2>1 DEF Push!RowSet
  <2>6. /\ Push!Resume(act) \in [step : PollSteps, act : PollActs]
        /\ Push!Resume(act).act = act
        /\ Push!Resume(act).step = IF act = Push!Resend THEN "resend" ELSE "record"
    BY <2>1, WorkParts DEF Push!Resume, PollSteps, PollActs
  <2>. HIDE DEF act, row
  <2>7. /\ poll' \in [Sends -> Push!RowSet \cup {Push!NoRow}] /\ poll'[a] = row
        /\ polling' \in [Pollers \X Sends -> [step : PollSteps, act : PollActs]]
        /\ polling'[<<p, a>>] = Push!Resume(act)
        /\ \A q \in Pollers \ {p} : polling'[<<q, a>>] = polling[<<q, a>>]
        /\ \A b \in Sends \ {a} : poll'[b] = poll[b]
               /\ \A q \in Pollers : polling'[<<q, b>>] = polling[<<q, b>>]
    BY <2>4, <2>5, <2>6, Moves
  <2>8. ReceiptTypes'
    BY <2>4, <2>7 DEF ReceiptInv, ReceiptTypes, Sends, Push!Attempts
  <2>9. Said(a)' = act
    BY <2>1, <2>5, <2>7, Ends DEF Said
  <2>10. /\ truth[a] = Bare(poll[a].id) /\ a \notin resend
         /\ \A q \in Pollers : polling[<<q, a>>].step \notin
                 {"resend", "publish", "record", "invalidate", "decide"}
    BY <1>2, <2>3, NothingSaid
  <2>11. RowAgrees(a)'
    <3>1. (poll[a].state = "conflict" => Said(a) \in {Push!NoAction, Push!Collision})'
      BY <1>3, <2>5, <2>7, <2>9 DEF Push!Heard, act
    <3>2. (truth[a] = Bare(poll[a].id))'
      BY <2>4, <2>5, <2>7, <2>10
    <3>3. poll'[a].decided = Push!NoAction /\ Push!NoAction \notin Push!Staged
      BY <2>2, <2>5, <2>7, Ends
    <3>. QED BY <2>1, <2>4, <2>9, <2>10, <3>1, <3>2, <3>3 DEF RowAgrees
  <2>12. Carries(p, a)'
    <3>1. CASE act = Push!Resend
      <4>1. polling'[<<p, a>>].step = "resend" /\ polling'[<<p, a>>].act = Push!Resend
        BY <2>6, <2>7, <3>1
      <4>. QED BY <2>9, <3>1, <4>1 DEF Carries, Asking
    <3>2. CASE act # Push!Resend
      <4>1. polling'[<<p, a>>].step = "record" /\ polling'[<<p, a>>].act = act
        BY <2>6, <2>7, <3>2
      <4>2. Speaks(a, polling[<<p, a>>].act)'
        BY <2>1, <2>9, <3>2, <4>1 DEF Speaks
      <4>3. polling'[<<p, a>>].step \notin {"idle", "reschedule"} \cup Asking
            /\ polling'[<<p, a>>].step \notin {"invalidate", "decide"}
        BY <4>1 DEF Asking
      <4>4. /\ polling'[<<p, a>>].step # "stage" /\ polling'[<<p, a>>].step # "complete"
            /\ polling'[<<p, a>>].step # "resend" /\ polling'[<<p, a>>].step # "publish"
            /\ polling'[<<p, a>>].step # "invalidate"
        BY <4>1
      <4>. QED BY <4>1, <4>2, <4>3, <4>4, Zenon DEF Carries
    <3>. QED BY <3>1, <3>2
  <2>13. ASSUME NEW q \in Pollers \ {p}
         PROVE  Carries(q, a)'
    <3>1. Carries(q, a) /\ polling'[<<q, a>>] = polling[<<q, a>>]
      BY <1>2, <2>7 DEF Polled
    <3>2. poll'[a].lease # q
      BY <2>2, <2>5, <2>7
    <3>. QED BY <2>10, <3>1, <3>2 DEF Carries
  <2>14. AttemptFits(a)'
    BY <2>5, <2>7, <2>11, <2>12, <2>13, RowParts DEF AttemptFits, Polled
  <2>15. Elsewhere(a)
    BY <2>4, <2>7 DEF Elsewhere
  <2>. QED BY <2>4, <2>8, <2>14, <2>15, OthersFit
<1>4. CASE ~(Push!LeaseHeld(p, a) /\ Push!Heard(a, act))
  <2>1. poll' = poll /\ polling' = [polling EXCEPT ![<<p, a>>] = Push!Idle]
        /\ UNCHANGED <<clock, resend, references, truth, invalid, pollerFaults>>
    BY <1>4 DEF Push!Stage, Push!Decide
  <2>. QED BY <1>2, <2>1, RefusalKeeps, RowParts DEF ReceiptInv, ReceiptTypes
<1>. QED BY <1>3, <1>4
\* A poller that does not act stays in agreement when another changes the row.
LEMMA OnlyWatches ==
    ASSUME NEW a \in Sends, NEW q \in Pollers, Carries(q, a),
           polling'[<<q, a>>] = polling[<<q, a>>], poll'[a].lease # q,
           polling[<<q, a>>].step \notin {"resend", "publish", "record", "invalidate", "decide"}
    PROVE  Carries(q, a)'
<1>1. /\ polling[<<q, a>>].step # "resend" /\ polling[<<q, a>>].step # "publish"
      /\ polling[<<q, a>>].step \notin {"record", "invalidate", "decide"}
      /\ polling[<<q, a>>].step \notin {"invalidate", "decide"}
      /\ polling[<<q, a>>].step # "invalidate"
  OBVIOUS
<1>. QED BY <1>1 DEF Carries

\* Nor does one that acts while the row comes to the same end.
LEMMA ActsOn ==
    ASSUME NEW a \in Sends, NEW q \in Pollers, Carries(q, a),
           polling'[<<q, a>>] = polling[<<q, a>>],
           \/ poll'[a].lease # q
           \/ poll'[a].pending = poll[a].pending /\ poll'[a].lease = poll[a].lease,
           Said(a)' = Said(a), poll'[a].id = poll[a].id,
           truth'[a] = truth[a], clock' = clock, resend' = resend
    PROVE  Carries(q, a)'
<1>1. \A act : Speaks(a, act) => Speaks(a, act)'
  BY DEF Speaks
<1>2. \A act : HasEnded(a, act) => HasEnded(a, act)'
  BY DEF HasEnded
<1>. QED BY <1>1, <1>2 DEF Carries

LEMMA RescheduleKeeps ==
    ASSUME ReceiptInv, NEW a \in Sends, NEW p \in Pollers, Push!Reschedule(p, a)
    PROVE  ReceiptTypes' /\ (\A b \in Sends : AttemptFits(b))'
<1>. DEFINE row == [poll[a] EXCEPT !.last = "missing", !.lease = Push!Nobody]
            ok  == /\ Push!LeaseHeld(p, a) /\ poll[a].state = "unique"
                   /\ poll[a].pending = Push!NoAction
<1>1. polling[<<p, a>>].step = "reschedule"
  BY DEF Push!Reschedule
<1>2. poll[a] \in Push!RowSet /\ Polled(a) /\ Carries(p, a)
  BY <1>1, WorkHasRow
<1>3. CASE ok
  <2>1. poll' = [poll EXCEPT ![a] = row] /\ polling' = [polling EXCEPT ![<<p, a>>] = Push!Idle]
        /\ UNCHANGED <<clock, resend, references, truth, invalid, pollerFaults>>
    BY <1>3 DEF Push!Reschedule, Push!Decide
  <2>2. row \in Push!RowSet /\ row.pending = poll[a].pending /\ row.id = poll[a].id
        /\ row.state = poll[a].state /\ row.lease = Push!Nobody /\ row.decided = poll[a].decided
    BY <1>2 DEF Push!RowSet
  <2>. HIDE DEF row, ok
  <2>3. /\ poll' \in [Sends -> Push!RowSet \cup {Push!NoRow}] /\ poll'[a] = row
        /\ polling' \in [Pollers \X Sends -> [step : PollSteps, act : PollActs]]
        /\ polling'[<<p, a>>] = Push!Idle
        /\ \A q \in Pollers \ {p} : polling'[<<q, a>>] = polling[<<q, a>>]
        /\ \A b \in Sends \ {a} : poll'[b] = poll[b]
               /\ \A q \in Pollers : polling'[<<q, b>>] = polling[<<q, b>>]
    BY <2>1, <2>2, WorkParts, Moves
  <2>4. ReceiptTypes'
    BY <2>1, <2>3 DEF ReceiptInv, ReceiptTypes, Sends, Push!Attempts
  <2>5. Polled(a)'
    BY <1>2, <2>1, <2>2, <2>3, RowKeeps
  <2>6. AttemptFits(a)'
    BY <2>2, <2>3, <2>5, RowParts DEF AttemptFits
  <2>7. Elsewhere(a)
    BY <2>1, <2>3 DEF Elsewhere
  <2>. QED BY <2>1, <2>4, <2>6, <2>7, OthersFit
<1>4. CASE ~ok
  <2>1. poll' = poll /\ polling' = [polling EXCEPT ![<<p, a>>] = Push!Idle]
        /\ UNCHANGED <<clock, resend, references, truth, invalid, pollerFaults>>
    BY <1>4 DEF Push!Reschedule, Push!Decide
  <2>. QED BY <1>2, <2>1, RefusalKeeps, RowParts DEF ReceiptInv, ReceiptTypes
<1>. QED BY <1>3, <1>4

LEMMA ConcludeKeeps ==
    ASSUME ReceiptInv, NEW a \in Sends, NEW p \in Pollers, Push!Conclude(p, a)
    PROVE  ReceiptTypes' /\ (\A b \in Sends : AttemptFits(b))'
<1>. DEFINE act == polling[<<p, a>>].act
            row == [poll[a] EXCEPT !.lease = Push!Nobody, !.pending = Push!NoAction,
                                   !.decided = act]
            ok  == Push!LeaseHeld(p, a) /\ Push!Heard(a, act) /\ Push!Agrees(a, act)
<1>1. polling[<<p, a>>].step \in {"complete", "decide"}
  BY DEF Push!Conclude
<1>2. poll[a] \in Push!RowSet /\ Polled(a) /\ Carries(p, a)
  BY <1>1, WorkHasRow
<1>3. CASE ok
  <2>1. poll' = [poll EXCEPT ![a] = row] /\ polling' = [polling EXCEPT ![<<p, a>>] = Push!Idle]
        /\ UNCHANGED <<clock, resend, references, truth, invalid, pollerFaults>>
    BY <1>3 DEF Push!Conclude, Push!Decide
  <2>2. polling[<<p, a>>].step = "complete" =>
           act = Push!Completion /\ poll[a].pending = Push!NoAction
    BY <1>2, <1>3 DEF Push!LeaseHeld, Carries, Asking
  <2>3. polling[<<p, a>>].step = "decide" => Speaks(a, act) /\ HasEnded(a, act)
    BY <1>2 DEF Carries
  <2>4. act \in Push!Staged \cup {Push!Completion}
    BY <1>1, <2>2, <2>3, SpokenIsStaged
  <2>5. poll[a].lease = p /\ poll[a].decided = Push!NoAction
    BY <1>3 DEF Push!LeaseHeld
  <2>6. /\ row \in Push!RowSet /\ row.pending = Push!NoAction /\ row.id = poll[a].id
        /\ row.state = poll[a].state /\ row.lease = Push!Nobody /\ row.decided = act
    BY <1>2, <2>4 DEF Push!RowSet
  <2>7. poll[a].state = "conflict" => act = Push!Collision
    BY <1>3 DEF Push!Heard
  <2>8. poll[a].pending # Push!NoAction /\ act \in Push!Staged => act = poll[a].pending
    BY <1>2, <1>3, Ends, RowParts DEF Push!Agrees
  <2>. HIDE DEF act, row, ok
  <2>9. /\ poll' \in [Sends -> Push!RowSet \cup {Push!NoRow}] /\ poll'[a] = row
        /\ polling' \in [Pollers \X Sends -> [step : PollSteps, act : PollActs]]
        /\ polling'[<<p, a>>] = Push!Idle
        /\ \A q \in Pollers \ {p} : polling'[<<q, a>>] = polling[<<q, a>>]
        /\ \A b \in Sends \ {a} : poll'[b] = poll[b]
               /\ \A q \in Pollers : polling'[<<q, b>>] = polling[<<q, b>>]
    BY <2>1, <2>6, WorkParts, Moves
  <2>10. ReceiptTypes'
    BY <2>1, <2>9 DEF ReceiptInv, ReceiptTypes, Sends, Push!Attempts
  <2>11. Said(a)' = act
    BY <2>6, <2>9 DEF Said
  <2>12. \A q \in Pollers : poll'[a].lease # q
    BY <2>6, <2>9, PushConstants DEF Push!ReceiptConstants
  <2>13. Carries(p, a)'
    <3>1. polling'[<<p, a>>].step = "idle" /\ polling'[<<p, a>>].act = Push!NoAction
      BY <2>9, WorkParts
    <3>. QED BY <3>1 DEF Carries, Asking
  <2>14. ASSUME polling[<<p, a>>].step = "complete"
         PROVE  Polled(a)'
    <3>1. Said(a) = Push!NoAction
      BY <2>2, <2>5, <2>14 DEF Said
    <3>2. /\ truth[a] = Bare(poll[a].id) /\ a \notin resend
          /\ \A q \in Pollers : polling[<<q, a>>].step \notin
                 {"resend", "publish", "record", "invalidate", "decide"}
      BY <1>2, <3>1, NothingSaid
    <3>3. act = Push!Completion /\ act \notin Push!Staged /\ act # Push!Resend /\ act # Push!Collision
      BY <2>2, <2>14, Ends
    <3>4. RowAgrees(a)'
      <4>1. (truth[a] = Bare(poll[a].id))'
        BY <2>1, <2>6, <2>9, <3>2
      <4>2. poll'[a].state # "conflict"
        BY <2>6, <2>7, <2>9, <3>3
      <4>. QED BY <2>1, <2>6, <2>9, <2>11, <3>2, <3>3, <4>1, <4>2 DEF RowAgrees
    <3>5. ASSUME NEW q \in Pollers \ {p}
          PROVE  Carries(q, a)'
      BY <1>2, <2>9, <2>12, <3>2, OnlyWatches DEF Polled
    <3>. QED BY <2>13, <3>4, <3>5 DEF Polled
  <2>15. ASSUME polling[<<p, a>>].step = "decide"
         PROVE  Polled(a)'
    <3>1. Speaks(a, act) /\ HasEnded(a, act)
      BY <2>3, <2>15
    <3>2. act \in Push!Staged /\ poll[a].pending # Push!NoAction
      BY <2>5, <3>1, SpokenIsStaged DEF Said
    <3>3. Said(a) = act
      BY <2>8, <3>2 DEF Said
    <3>4. RowAgrees(a)'
      <4>1. \A x : Speaks(a, x) => Speaks(a, x)'
        BY <2>1, <2>11, <3>3 DEF Speaks
      <4>2. \A x : HasEnded(a, x) => HasEnded(a, x)'
        BY <2>1, <2>6, <2>9 DEF HasEnded
      <4>3. \E x \in Push!Staged : Speaks(a, x) /\ HasEnded(a, x)
        BY <3>1, <3>2
      <4>4. (\E x \in Push!Staged : Speaks(a, x) /\ HasEnded(a, x))'
        BY <4>1, <4>2, <4>3
      <4>5. HasEnded(a, poll[a].decided)'
        BY <2>1, <2>6, <2>9, <3>1 DEF HasEnded
      <4>. QED BY <1>2, <2>1, <2>6, <2>7, <2>9, <2>11, <3>2, <3>3, <4>4, <4>5, Ends
           DEF RowAgrees, Polled
    <3>5. ASSUME NEW q \in Pollers \ {p}
          PROVE  Carries(q, a)'
      BY <1>2, <2>1, <2>6, <2>9, <2>11, <2>12, <3>3, ActsOn DEF Polled
    <3>. QED BY <2>13, <3>4, <3>5 DEF Polled
  <2>16. AttemptFits(a)'
    BY <1>1, <2>6, <2>9, <2>14, <2>15, RowParts DEF AttemptFits
  <2>17. Elsewhere(a)
    BY <2>1, <2>9 DEF Elsewhere
  <2>. QED BY <2>1, <2>10, <2>16, <2>17, OthersFit
<1>4. CASE ~ok
  <2>1. poll' = poll /\ polling' = [polling EXCEPT ![<<p, a>>] = Push!Idle]
        /\ UNCHANGED <<clock, resend, references, truth, invalid, pollerFaults>>
    BY <1>4 DEF Push!Conclude, Push!Decide
  <2>. QED BY <1>2, <2>1, RefusalKeeps, RowParts DEF ReceiptInv, ReceiptTypes
<1>. QED BY <1>3, <1>4
-----------------------------------------------------------------------------
(* Claiming. *)

LEMMA FirstSteps ==
    ASSUME NEW a \in Sends, poll[a] \in Push!RowSet, NEW first \in Push!FirstStep(a)
    PROVE  /\ first \in [step : PollSteps, act : PollActs]
           /\ poll[a].pending # Push!NoAction =>
                 /\ first.step = IF poll[a].pending = Push!Resend THEN "resend" ELSE "record"
                 /\ first.act = poll[a].pending
           /\ poll[a].pending = Push!NoAction =>
                 \/ /\ first.step = "stage" /\ first.act \in Push!Staged
                    /\ first.act = Push!Resend => Push!Number(a) < MaxSend
                 \/ first.step = "complete" /\ first.act = Push!Completion
                 \/ first.step = "reschedule" /\ first.act = Push!NoAction
<1>. DEFINE Asks(x) == \/ /\ x.step = "stage" /\ x.act \in Push!Staged
                          /\ x.act = Push!Resend => Push!Number(a) < MaxSend
                       \/ x.step = "complete" /\ x.act = Push!Completion
                       \/ x.step = "reschedule" /\ x.act = Push!NoAction
<1>1. CASE poll[a].pending # Push!NoAction
  <2>1. first = Push!Resume(poll[a].pending) /\ poll[a].pending \in Push!Staged
    BY <1>1, RowParts DEF Push!FirstStep
  <2>. QED BY <1>1, <2>1, WorkParts DEF Push!Resume, PollSteps, PollActs
<1>2. CASE poll[a].pending = Push!NoAction
  <2>1. /\ \A x \in Push!Staged : (x = Push!Resend => Push!Number(a) < MaxSend) =>
              /\ Push!Doing("stage", x) \in [step : PollSteps, act : PollActs]
              /\ Asks(Push!Doing("stage", x))
        /\ Push!Doing("complete", Push!Completion) \in [step : PollSteps, act : PollActs]
        /\ Asks(Push!Doing("complete", Push!Completion))
        /\ Push!Doing("reschedule", Push!NoAction) \in [step : PollSteps, act : PollActs]
        /\ Asks(Push!Doing("reschedule", Push!NoAction))
    BY WorkParts DEF PollSteps, PollActs
  <2>2. CASE poll[a].state = "conflict"
    <3>1. first = Push!Doing("stage", Push!Collision)
      BY <1>2, <2>2 DEF Push!FirstStep
    <3>. QED BY <1>2, <2>1, <3>1, Ends
  <2>3. CASE poll[a].state = "unique" /\ clock = Push!Late
    <3>1. \E r \in {"missing", "horizon"} : first = Push!Doing("stage", Push!Doubt(r))
      <4>1. first = Push!Doing("stage", Push!Doubt(IF poll[a].last = Push!Null
                                                   THEN "horizon" ELSE poll[a].last))
        BY <1>2, <2>3 DEF Push!FirstStep
      <4>2. poll[a].last \in {Push!Null, "missing"}
        BY DEF Push!RowSet
      <4>. QED BY <4>1, <4>2
    <3>. QED BY <1>2, <2>1, <3>1, EndsOfAnswers
  <2>4. CASE poll[a].state = "unique" /\ clock # Push!Late
    <3>1. PICK word \in ExpoAnswers : first \in Push!AfterAnswer(a, word)
      BY <1>2, <2>4 DEF Push!FirstStep
    <3>2. word \in {"ok", "missing", "rate", "unregistered", "undeliverable"}
      BY PushConstants DEF Push!ReceiptConstants
    <3>3. CASE word = "ok"
      BY <1>2, <2>1, <3>1, <3>3 DEF Push!AfterAnswer
    <3>4. CASE word = "missing"
      BY <1>2, <2>1, <3>1, <3>4 DEF Push!AfterAnswer
    <3>5. CASE word = "rate"
      <4>1. PICK x \in Push!AfterRateExceeded(a) : first = Push!Doing("stage", x)
        BY <3>1, <3>5 DEF Push!AfterAnswer
      <4>2. x \in Push!Staged /\ (x = Push!Resend => Push!Number(a) < MaxSend)
        <5>1. \/ x = Push!Expiry \/ x = Push!Failure("exhausted")
              \/ x = Push!Resend /\ Push!Number(a) < MaxSend
          BY <4>1 DEF Push!AfterRateExceeded
        <5>. QED BY <5>1, Ends, EndsOfAnswers
      <4>. QED BY <1>2, <2>1, <4>1, <4>2
    <3>6. CASE word \in {"unregistered", "undeliverable"}
      <4>1. first = Push!Doing("stage", Push!Failure(word))
        BY <3>1, <3>6 DEF Push!AfterAnswer
      <4>. QED BY <1>2, <2>1, <3>6, <4>1, EndsOfAnswers
    <3>. QED BY <3>2, <3>3, <3>4, <3>5, <3>6
  <2>. QED BY <2>2, <2>3, <2>4 DEF Push!RowSet
<1>. QED BY <1>1, <1>2

LEMMA ClaimKeeps ==
    ASSUME ReceiptInv, NEW a \in Sends, NEW p \in Pollers, Push!Claim(p, a)
    PROVE  ReceiptTypes' /\ (\A b \in Sends : AttemptFits(b))'
<1>. DEFINE row == [poll[a] EXCEPT !.lease = p]
<1>1. poll[a] \in Push!RowSet /\ Polled(a)
  BY DEF Push!Claim, ReceiptInv, ReceiptTypes, AttemptFits
<1>2. PICK first \in Push!FirstStep(a) : polling' = [polling EXCEPT ![<<p, a>>] = first]
  BY DEF Push!Claim
<1>3. /\ poll' = [poll EXCEPT ![a] = row] /\ poll[a].decided = Push!NoAction
      /\ UNCHANGED <<clock, resend, references, truth, invalid, pollerFaults>>
  BY DEF Push!Claim
<1>4. /\ row \in Push!RowSet /\ row.pending = poll[a].pending /\ row.id = poll[a].id
      /\ row.state = poll[a].state /\ row.lease = p /\ row.decided = poll[a].decided
  BY <1>1 DEF Push!RowSet
<1>5. first \in [step : PollSteps, act : PollActs]
  BY <1>1, FirstSteps
<1>. HIDE DEF row
<1>6. /\ poll' \in [Sends -> Push!RowSet \cup {Push!NoRow}] /\ poll'[a] = row
      /\ polling' \in [Pollers \X Sends -> [step : PollSteps, act : PollActs]]
      /\ polling'[<<p, a>>] = first
      /\ \A q \in Pollers \ {p} : polling'[<<q, a>>] = polling[<<q, a>>]
      /\ \A b \in Sends \ {a} : poll'[b] = poll[b]
             /\ \A q \in Pollers : polling'[<<q, b>>] = polling[<<q, b>>]
  BY <1>2, <1>3, <1>4, <1>5, Moves
<1>7. ReceiptTypes'
  BY <1>3, <1>6 DEF ReceiptInv, ReceiptTypes, Sends, Push!Attempts
<1>8. Said(a)' = Said(a)
  BY <1>4, <1>6 DEF Said
<1>9. RowAgrees(a)'
  <2>1. \A x : Speaks(a, x) => Speaks(a, x)'
    BY <1>3, <1>8 DEF Speaks
  <2>2. \A x : HasEnded(a, x) => HasEnded(a, x)'
    BY <1>3, <1>4, <1>6 DEF HasEnded
  <2>3. (truth[a] = Bare(poll[a].id) \/ \E x \in Push!Staged : Speaks(a, x) /\ HasEnded(a, x))'
    BY <1>1, <1>3, <1>4, <1>6, <2>1, <2>2 DEF RowAgrees, Polled
  <2>4. poll'[a].decided = Push!NoAction /\ Push!NoAction \notin Push!Staged
    BY <1>3, <1>4, <1>6, Ends
  <2>. QED BY <1>1, <1>3, <1>4, <1>6, <1>8, <2>3, <2>4 DEF RowAgrees, Polled
<1>10. Carries(p, a)'
  <2>1. CASE poll[a].pending # Push!NoAction
    <3>1. Said(a) = poll[a].pending /\ poll[a].pending \in Push!Staged
      BY <1>1, <2>1, RowParts DEF Said
    <3>2. polling'[<<p, a>>].act = poll[a].pending
      BY <1>1, <1>6, <2>1, FirstSteps
    <3>3. CASE poll[a].pending = Push!Resend
      <4>1. polling'[<<p, a>>].step = "resend"
        BY <1>1, <1>6, <2>1, <3>3, FirstSteps
      <4>. QED BY <1>8, <3>1, <3>2, <3>3, <4>1 DEF Carries, Asking
    <3>4. CASE poll[a].pending # Push!Resend
      <4>1. polling'[<<p, a>>].step = "record"
        BY <1>1, <1>6, <2>1, <3>4, FirstSteps
      <4>2. Speaks(a, polling[<<p, a>>].act)'
        BY <1>8, <3>1, <3>2, <3>4 DEF Speaks
      <4>3. polling'[<<p, a>>].step \notin {"idle", "reschedule"} \cup Asking
            /\ polling'[<<p, a>>].step \notin {"invalidate", "decide"}
        BY <4>1 DEF Asking
      <4>4. /\ polling'[<<p, a>>].step # "stage" /\ polling'[<<p, a>>].step # "complete"
            /\ polling'[<<p, a>>].step # "resend" /\ polling'[<<p, a>>].step # "publish"
            /\ polling'[<<p, a>>].step # "invalidate"
        BY <4>1
      <4>. QED BY <4>1, <4>2, <4>3, <4>4, Zenon DEF Carries
    <3>. QED BY <3>3, <3>4
  <2>2. CASE poll[a].pending = Push!NoAction
    <3>1. \/ /\ polling'[<<p, a>>].step = "stage" /\ polling'[<<p, a>>].act \in Push!Staged
             /\ polling'[<<p, a>>].act = Push!Resend => Push!Number(a) < MaxSend
          \/ polling'[<<p, a>>].step = "complete" /\ polling'[<<p, a>>].act = Push!Completion
          \/ polling'[<<p, a>>].step = "reschedule" /\ polling'[<<p, a>>].act = Push!NoAction
      BY <1>1, <1>6, <2>2, FirstSteps
    <3>2. poll'[a].pending = Push!NoAction /\ Push!Staged' = Push!Staged
      BY <1>4, <1>6, <2>2
    <3>3. /\ polling'[<<p, a>>].step \notin {"record", "invalidate", "decide"}
          /\ polling'[<<p, a>>].step \notin {"invalidate", "decide"}
          /\ polling'[<<p, a>>].step \notin {"resend", "publish", "invalidate"}
      BY <3>1
    <3>. QED BY <3>1, <3>2, <3>3 DEF Carries
  <2>. QED BY <2>1, <2>2
<1>11. ASSUME NEW q \in Pollers \ {p}
       PROVE  Carries(q, a)'
  BY <1>1, <1>3, <1>4, <1>6, <1>8, ActsOn DEF Polled
<1>12. AttemptFits(a)'
  BY <1>4, <1>6, <1>9, <1>10, <1>11, RowParts DEF AttemptFits, Polled
<1>13. Elsewhere(a)
  BY <1>3, <1>6 DEF Elsewhere
<1>. QED BY <1>3, <1>7, <1>12, <1>13, OthersFit
-----------------------------------------------------------------------------
(* Acting on what was staged. *)

\* A poller's step that leaves the rows alone.
LEMMA WorkMoves ==
    ASSUME ReceiptInv, NEW a \in Sends, NEW p \in Pollers, NEW s \in PollSteps,
           NEW x \in PollActs, polling' = [polling EXCEPT ![<<p, a>>] = Push!Doing(s, x)]
    PROVE  /\ polling' \in [Pollers \X Sends -> [step : PollSteps, act : PollActs]]
           /\ polling'[<<p, a>>].step = s /\ polling'[<<p, a>>].act = x
           /\ \A q \in Pollers \ {p} : polling'[<<q, a>>] = polling[<<q, a>>]
           /\ \A b \in Sends \ {a}, q \in Pollers : polling'[<<q, b>>] = polling[<<q, b>>]
BY WorkParts DEF ReceiptInv, ReceiptTypes

LEMMA WorkGoesOn ==
    ASSUME ReceiptInv, NEW a \in Sends, NEW p \in Pollers, NEW s \in PollSteps,
           polling' = [polling EXCEPT ![<<p, a>>].step = s]
    PROVE  /\ polling' \in [Pollers \X Sends -> [step : PollSteps, act : PollActs]]
           /\ polling'[<<p, a>>].step = s /\ polling'[<<p, a>>].act = polling[<<p, a>>].act
           /\ \A q \in Pollers \ {p} : polling'[<<q, a>>] = polling[<<q, a>>]
           /\ \A b \in Sends \ {a}, q \in Pollers : polling'[<<q, b>>] = polling[<<q, b>>]
BY DEF ReceiptInv, ReceiptTypes

\* A poller that records, decides or publishes what the row says.
LEMMA CarriesEnd ==
    ASSUME NEW a \in Sends, NEW p \in Pollers,
           Speaks(a, polling[<<p, a>>].act)',
           \/ polling'[<<p, a>>].step = "record"
           \/ polling'[<<p, a>>].step = "decide" /\ HasEnded(a, polling[<<p, a>>].act)'
           \/ /\ polling'[<<p, a>>].step = "invalidate" /\ HasEnded(a, polling[<<p, a>>].act)'
              /\ polling'[<<p, a>>].act.reason = "unregistered"
    PROVE  Carries(p, a)'
<1>1. /\ polling'[<<p, a>>].step \notin {"idle", "reschedule"} \cup Asking
      /\ polling'[<<p, a>>].step # "stage" /\ polling'[<<p, a>>].step # "complete"
      /\ polling'[<<p, a>>].step # "resend" /\ polling'[<<p, a>>].step # "publish"
      /\ polling'[<<p, a>>].step = "record" =>
            /\ polling'[<<p, a>>].step \notin {"invalidate", "decide"}
            /\ polling'[<<p, a>>].step # "invalidate"
      /\ polling'[<<p, a>>].step = "decide" => polling'[<<p, a>>].step # "invalidate"
  BY DEF Asking
<1>. QED BY <1>1, Zenon DEF Carries

LEMMA ScheduleRetryKeeps ==
    ASSUME ReceiptInv, NEW a \in Sends, NEW p \in Pollers, Push!ScheduleRetry(p, a)
    PROVE  ReceiptTypes' /\ (\A b \in Sends : AttemptFits(b))'
<1>1. polling[<<p, a>>].step = "resend" /\ UNCHANGED <<clock, poll, references, truth, invalid, pollerFaults>>
  BY DEF Push!ScheduleRetry
<1>2. poll[a] \in Push!RowSet /\ Polled(a) /\ Carries(p, a)
  BY <1>1, WorkHasRow
<1>3. Said(a) = Push!Resend /\ Push!Number(a) < MaxSend
  BY <1>1, <1>2 DEF Carries, Polled, RowAgrees
<1>4. Said(a)' = Push!Resend
  BY <1>1, <1>3 DEF Said
<1>5. ASSUME a \notin resend, clock > Push!Live
      PROVE  ReceiptTypes' /\ (\A b \in Sends : AttemptFits(b))'
  <2>1. polling' = [polling EXCEPT ![<<p, a>>] = Push!Doing("record", Push!Expiry)]
        /\ resend' = resend
    <3>1. Push!RetryStep(a) = Push!Doing("record", Push!Expiry)
      BY <1>5 DEF Push!RetryStep
    <3>2. Push!RetryStep(a).step # "publish"
      BY <3>1, WorkParts DEF PollSteps, PollActs, Push!Doing
    <3>. QED BY <3>1, <3>2 DEF Push!ScheduleRetry
  <2>2. /\ polling' \in [Pollers \X Sends -> [step : PollSteps, act : PollActs]]
        /\ polling'[<<p, a>>].step = "record" /\ polling'[<<p, a>>].act = Push!Expiry
        /\ \A q \in Pollers \ {p} : polling'[<<q, a>>] = polling[<<q, a>>]
        /\ \A b \in Sends \ {a}, q \in Pollers : polling'[<<q, b>>] = polling[<<q, b>>]
    <3>1. "record" \in PollSteps /\ Push!Expiry \in PollActs
      BY Ends DEF PollSteps, PollActs
    <3>. QED BY <2>1, <3>1, WorkMoves
  <2>3. ReceiptTypes'
    BY <1>1, <2>1, <2>2 DEF ReceiptInv, ReceiptTypes, Sends, Push!Attempts
  <2>4. RowAgrees(a)'
    <3>1. \A x : Speaks(a, x) => Speaks(a, x)'
      BY <1>1, <1>3, <1>4, <2>1 DEF Speaks
    <3>2. \A x : HasEnded(a, x) => HasEnded(a, x)'
      BY <1>1 DEF HasEnded
    <3>. QED BY <1>1, <1>2, <1>3, <1>4, <2>1, <3>1, <3>2 DEF RowAgrees, Polled
  <2>5. Speaks(a, polling[<<p, a>>].act)'
    BY <1>1, <1>4, <1>5, <2>1, <2>2 DEF Speaks
  <2>6. Carries(p, a)'
    BY <2>2, <2>5, CarriesEnd
  <2>7. ASSUME NEW q \in Pollers \ {p}
        PROVE  Carries(q, a)'
    BY <1>1, <1>2, <1>3, <1>4, <2>1, <2>2, ActsOn DEF Polled
  <2>8. AttemptFits(a)'
    BY <1>1, <1>2, <2>4, <2>6, <2>7, RowParts DEF AttemptFits, Polled
  <2>9. Elsewhere(a)
    BY <1>1, <2>1, <2>2 DEF Elsewhere
  <2>. QED BY <1>1, <2>3, <2>8, <2>9, OthersFit
<1>6. ASSUME a \in resend \/ ~(clock > Push!Live)
      PROVE  ReceiptTypes' /\ (\A b \in Sends : AttemptFits(b))'
  <2>1. polling' = [polling EXCEPT ![<<p, a>>] = Push!Doing("publish", Push!Resend)]
        /\ resend' = resend \cup {a}
    <3>1. Push!RetryStep(a) = Push!Doing("publish", Push!Resend)
      BY <1>6 DEF Push!RetryStep
    <3>2. Push!RetryStep(a).step = "publish"
      BY <3>1 DEF Push!Doing
    <3>. QED BY <3>1, <3>2 DEF Push!ScheduleRetry
  <2>2. /\ polling' \in [Pollers \X Sends -> [step : PollSteps, act : PollActs]]
        /\ polling'[<<p, a>>].step = "publish" /\ polling'[<<p, a>>].act = Push!Resend
        /\ \A q \in Pollers \ {p} : polling'[<<q, a>>] = polling[<<q, a>>]
        /\ \A b \in Sends \ {a}, q \in Pollers : polling'[<<q, b>>] = polling[<<q, b>>]
    <3>1. "publish" \in PollSteps /\ Push!Resend \in PollActs
      BY Ends DEF PollSteps, PollActs
    <3>. QED BY <2>1, <3>1, WorkMoves
  <2>3. ReceiptTypes'
    BY <1>1, <1>3, <2>1, <2>2 DEF ReceiptInv, ReceiptTypes, Sends, Push!Attempts
  <2>4. \A x : Speaks(a, x) => Speaks(a, x)'
    BY <1>1, <1>3, <1>4, <1>6, <2>1, Ends DEF Speaks
  <2>5. \A x : HasEnded(a, x) => HasEnded(a, x)'
    BY <1>1 DEF HasEnded
  <2>6. RowAgrees(a)'
    BY <1>1, <1>2, <1>3, <1>4, <2>1, <2>4, <2>5 DEF RowAgrees, Polled
  <2>7. Carries(p, a)'
    <3>1. /\ polling'[<<p, a>>].step \notin {"idle", "reschedule"} \cup Asking
          /\ polling'[<<p, a>>].step \notin {"record", "invalidate", "decide"}
          /\ polling'[<<p, a>>].step \notin {"invalidate", "decide"}
          /\ polling'[<<p, a>>].step # "stage" /\ polling'[<<p, a>>].step # "complete"
          /\ polling'[<<p, a>>].step # "resend" /\ polling'[<<p, a>>].step # "invalidate"
      BY <2>2 DEF Asking
    <3>2. a \in resend'
      BY <2>1
    <3>. QED BY <2>2, <3>1, <3>2, Zenon DEF Carries
  <2>8. ASSUME NEW q \in Pollers \ {p}
        PROVE  Carries(q, a)'
    <3>1. Carries(q, a) /\ polling'[<<q, a>>] = polling[<<q, a>>]
      BY <1>2, <2>2 DEF Polled
    <3>2. a \in resend'
      BY <2>1
    <3>. QED BY <1>1, <1>3, <1>4, <2>4, <2>5, <3>1, <3>2 DEF Carries
  <2>9. AttemptFits(a)'
    BY <1>1, <1>2, <2>6, <2>7, <2>8, RowParts DEF AttemptFits, Polled
  <2>10. Elsewhere(a)
    BY <1>1, <2>1, <2>2 DEF Elsewhere
  <2>. QED BY <1>1, <2>3, <2>9, <2>10, OthersFit
<1>. QED BY <1>5, <1>6

LEMMA PublishKeeps ==
    ASSUME ReceiptInv, NEW a \in Sends, NEW p \in Pollers, Push!Publish(p, a)
    PROVE  ReceiptTypes' /\ (\A b \in Sends : AttemptFits(b))'
<1>1. /\ polling[<<p, a>>].step = "publish" /\ references' = references \cup {Push!Next2(a)}
      /\ polling' = [polling EXCEPT ![<<p, a>>].step = "record"]
      /\ UNCHANGED <<clock, poll, resend, truth, invalid, pollerFaults>>
  BY DEF Push!Publish
<1>2. poll[a] \in Push!RowSet /\ Polled(a) /\ Carries(p, a)
  BY <1>1, WorkHasRow
<1>3. polling[<<p, a>>].act = Push!Resend /\ a \in resend /\ Said(a) = Push!Resend
  BY <1>1, <1>2 DEF Carries, Polled, RowAgrees
<1>4. /\ polling' \in [Pollers \X Sends -> [step : PollSteps, act : PollActs]]
      /\ polling'[<<p, a>>].step = "record" /\ polling'[<<p, a>>].act = Push!Resend
      /\ \A q \in Pollers \ {p} : polling'[<<q, a>>] = polling[<<q, a>>]
      /\ \A b \in Sends \ {a}, q \in Pollers : polling'[<<q, b>>] = polling[<<q, b>>]
  <2>1. "record" \in PollSteps
    BY DEF PollSteps
  <2>. QED BY <1>1, <1>3, <2>1, WorkGoesOn
<1>5. Push!Next2(a) \in Sends /\ Push!Number(Push!Next2(a)) > 1
  <2>1. a[1] \in Devices /\ a[2] \in 1..MaxSend /\ a[2] < MaxSend /\ MaxSend \in Nat
    BY <1>3, PushConstants DEF ReceiptInv, ReceiptTypes, Sends, Push!Attempts, Push!Number,
       Push!ReceiptConstants
  <2>. QED BY <2>1 DEF Sends, Push!Attempts, Push!Next2, Push!Number
<1>6. ReceiptTypes'
  BY <1>1, <1>4, <1>5 DEF ReceiptInv, ReceiptTypes, Sends, Push!Attempts
<1>7. Said(a)' = Said(a)
  BY <1>1 DEF Said
<1>8. RowAgrees(a)'
  <2>1. \A x : Speaks(a, x) => Speaks(a, x)'
    BY <1>1, <1>7 DEF Speaks
  <2>2. \A x : HasEnded(a, x) => HasEnded(a, x)'
    BY <1>1 DEF HasEnded
  <2>. QED BY <1>1, <1>2, <1>7, <2>1, <2>2 DEF RowAgrees, Polled
<1>9. Carries(p, a)'
  <2>1. Speaks(a, polling[<<p, a>>].act)'
    BY <1>1, <1>3, <1>4, <1>7, Ends DEF Speaks
  <2>. QED BY <1>4, <2>1, CarriesEnd
<1>10. ASSUME NEW q \in Pollers \ {p}
       PROVE  Carries(q, a)'
  BY <1>1, <1>2, <1>4, <1>7, ActsOn DEF Polled
<1>11. AttemptFits(a)'
  BY <1>1, <1>2, <1>8, <1>9, <1>10, RowParts DEF AttemptFits, Polled
<1>12. Elsewhere(a)
  BY <1>1, <1>4 DEF Elsewhere
<1>. QED BY <1>1, <1>6, <1>11, <1>12, OthersFit
LEMMA RecordKeeps ==
    ASSUME ReceiptInv, NEW a \in Sends, NEW p \in Pollers, Push!Record(p, a)
    PROVE  /\ ReceiptTypes' /\ (\A b \in Sends : AttemptFits(b))'
           /\ truth[a] = Bare(poll[a].id) \/ truth'[a] = truth[a]
           /\ \E act \in Push!Staged : truth'[a] = Ended(poll[a].id, act)
<1>. DEFINE fact == Push!Learnt(polling[<<p, a>>].act, poll[a].id)
<1>1. polling[<<p, a>>].step = "record" /\ UNCHANGED <<clock, poll, resend, references, invalid, pollerFaults>>
  BY DEF Push!Record
<1>2. poll[a] \in Push!RowSet /\ Polled(a) /\ Carries(p, a) /\ poll[a].id \in Ids
  BY <1>1, WorkHasRow, RowParts
<1>3. PICK act \in Push!Staged : act = polling[<<p, a>>].act /\ Speaks(a, act)
  BY <1>1, <1>2, SpokenIsStaged DEF Carries
<1>4. truth[a] = Bare(poll[a].id) \/ truth[a] = Ended(poll[a].id, act)
  BY <1>2, <1>3, OneEnd DEF Polled, RowAgrees, HasEnded
<1>5. Push!Reply(truth[a], fact) # "refuse" /\ Push!Recorded(truth[a], fact) = Ended(poll[a].id, act)
  BY <1>2, <1>3, <1>4, FirstEnd, SameEnd
<1>6. /\ truth' = [truth EXCEPT ![a] = Ended(poll[a].id, act)]
      /\ polling' = [polling EXCEPT ![<<p, a>>].step = Push!AfterRecord(act)]
  BY <1>3, <1>5 DEF Push!Record
<1>7. truth'[a] = Ended(poll[a].id, act) /\ (\A b \in Sends \ {a} : truth'[b] = truth[b])
      /\ truth' = [b \in Sends |-> truth'[b]]
  BY <1>6 DEF ReceiptInv, ReceiptTypes
<1>8. /\ polling' \in [Pollers \X Sends -> [step : PollSteps, act : PollActs]]
      /\ polling'[<<p, a>>].step = Push!AfterRecord(act) /\ polling'[<<p, a>>].act = act
      /\ \A q \in Pollers \ {p} : polling'[<<q, a>>] = polling[<<q, a>>]
      /\ \A b \in Sends \ {a}, q \in Pollers : polling'[<<q, b>>] = polling[<<q, b>>]
  <2>1. Push!AfterRecord(act) \in PollSteps
    BY DEF PollSteps, Push!AfterRecord
  <2>. QED BY <1>3, <1>6, <2>1, WorkGoesOn
<1>9. ReceiptTypes'
  BY <1>1, <1>7, <1>8 DEF ReceiptInv, ReceiptTypes, Sends, Push!Attempts
<1>10. Said(a)' = Said(a)
  BY <1>1 DEF Said
<1>11. \A x : Speaks(a, x) => Speaks(a, x)'
  BY <1>1, <1>10 DEF Speaks
<1>12. \A x : HasEnded(a, x) => HasEnded(a, x)'
  <2>1. ASSUME NEW x, HasEnded(a, x)
        PROVE  truth'[a] = truth[a]
    BY <1>4, <1>7, <2>1, BareFacts, EndedFacts DEF HasEnded
  <2>. QED BY <1>1, <2>1 DEF HasEnded
<1>13. Speaks(a, act)' /\ HasEnded(a, act)'
  BY <1>1, <1>3, <1>7, <1>11 DEF HasEnded
<1>14. RowAgrees(a)'
  <2>1. (\E x \in Push!Staged : Speaks(a, x) /\ HasEnded(a, x))'
    BY <1>13
  <2>. QED BY <1>1, <1>2, <1>10, <1>12, <2>1 DEF RowAgrees, Polled
<1>15. Carries(p, a)'
  <2>1. Speaks(a, polling[<<p, a>>].act)' /\ HasEnded(a, polling[<<p, a>>].act)'
    BY <1>8, <1>13 DEF Speaks, HasEnded
  <2>. QED BY <1>8, <2>1, CarriesEnd DEF Push!AfterRecord
<1>16. ASSUME NEW q \in Pollers \ {p}
       PROVE  Carries(q, a)'
  <2>1. Carries(q, a) /\ polling'[<<q, a>>] = polling[<<q, a>>]
    BY <1>2, <1>8 DEF Polled
  <2>. QED BY <1>1, <1>10, <1>11, <1>12, <2>1 DEF Carries
<1>17. AttemptFits(a)'
  BY <1>1, <1>2, <1>14, <1>15, <1>16, RowParts DEF AttemptFits, Polled
<1>18. Elsewhere(a)
  BY <1>1, <1>7, <1>8 DEF Elsewhere
<1>. QED BY <1>1, <1>4, <1>7, <1>9, <1>17, <1>18, OthersFit

LEMMA InvalidateKeeps ==
    ASSUME ReceiptInv, NEW a \in Sends, NEW p \in Pollers, Push!Invalidate(p, a)
    PROVE  /\ ReceiptTypes' /\ (\A b \in Sends : AttemptFits(b))'
           /\ poll[a] # Push!NoRow /\ poll[a].state = "unique"
           /\ HasEnded(a, Push!Failure("unregistered"))
<1>1. /\ polling[<<p, a>>].step = "invalidate" /\ invalid' = invalid \cup {Push!Device(a)}
      /\ polling' = [polling EXCEPT ![<<p, a>>].step = "decide"]
      /\ UNCHANGED <<clock, poll, resend, references, truth, pollerFaults>>
  BY DEF Push!Invalidate
<1>2. poll[a] \in Push!RowSet /\ Polled(a) /\ Carries(p, a)
  BY <1>1, WorkHasRow
<1>3. PICK act \in Push!Staged : /\ act = polling[<<p, a>>].act /\ Speaks(a, act)
                                 /\ HasEnded(a, act) /\ act.reason = "unregistered"
  BY <1>1, <1>2, SpokenIsStaged DEF Carries
<1>4. act = Push!Failure("unregistered")
  BY <1>3, Ends
<1>5. poll[a].state = "unique"
  <2>1. Push!Failure("unregistered") # Push!Expiry
    BY DEF Push!Failure, Push!Expiry, Push!Action
  <2>2. Said(a) = act
    BY <1>3, <1>4, <2>1 DEF Speaks
  <2>3. act # Push!NoAction /\ act # Push!Collision
    BY <1>3, <1>4, Ends
  <2>4. poll[a].state # "conflict"
    BY <1>2, <2>2, <2>3 DEF Polled, RowAgrees
  <2>. QED BY <1>2, <2>4 DEF Push!RowSet
<1>6. /\ polling' \in [Pollers \X Sends -> [step : PollSteps, act : PollActs]]
      /\ polling'[<<p, a>>].step = "decide" /\ polling'[<<p, a>>].act = act
      /\ \A q \in Pollers \ {p} : polling'[<<q, a>>] = polling[<<q, a>>]
      /\ \A b \in Sends \ {a}, q \in Pollers : polling'[<<q, b>>] = polling[<<q, b>>]
  <2>1. "decide" \in PollSteps
    BY DEF PollSteps
  <2>. QED BY <1>1, <1>3, <2>1, WorkGoesOn
<1>7. Push!Device(a) \in Devices
  BY DEF Push!Device, Sends, Push!Attempts
<1>8. ReceiptTypes'
  BY <1>1, <1>6, <1>7 DEF ReceiptInv, ReceiptTypes, Sends, Push!Attempts
<1>9. Said(a)' = Said(a)
  BY <1>1 DEF Said
<1>10. \A x : Speaks(a, x) => Speaks(a, x)'
  BY <1>1, <1>9 DEF Speaks
<1>11. \A x : HasEnded(a, x) => HasEnded(a, x)'
  BY <1>1 DEF HasEnded
<1>12. RowAgrees(a)'
  BY <1>1, <1>2, <1>9, <1>10, <1>11 DEF RowAgrees, Polled
<1>13. Carries(p, a)'
  <2>1. Speaks(a, polling[<<p, a>>].act)' /\ HasEnded(a, polling[<<p, a>>].act)'
    BY <1>1, <1>3, <1>6, <1>9 DEF Speaks, HasEnded
  <2>. QED BY <1>6, <2>1, CarriesEnd
<1>14. ASSUME NEW q \in Pollers \ {p}
       PROVE  Carries(q, a)'
  BY <1>1, <1>2, <1>6, <1>9, ActsOn DEF Polled
<1>15. AttemptFits(a)'
  BY <1>1, <1>2, <1>12, <1>13, <1>14, RowParts DEF AttemptFits, Polled
<1>16. Elsewhere(a)
  BY <1>1, <1>6 DEF Elsewhere
<1>. QED BY <1>1, <1>2, <1>3, <1>4, <1>5, <1>8, <1>15, <1>16, OthersFit, RowParts
-----------------------------------------------------------------------------
(* Sending, faults, and the end of leases and of the hour. *)

LEMMA SendKeeps ==
    ASSUME ReceiptInv, NEW a \in Sends, NEW id \in Ids, Push!Send(a, id)
    PROVE  /\ ReceiptTypes' /\ (\A b \in Sends : AttemptFits(b))'
           /\ poll[a] = Push!NoRow
<1>1. /\ truth[a] = <<>> /\ truth' = [truth EXCEPT ![a] = Bare(id)]
      /\ UNCHANGED <<clock, poll, resend, references, invalid, polling, pollerFaults>>
  BY DEF Push!Send, Bare
<1>2. poll[a] = Push!NoRow /\ Unpolled(a)
  <2>1. ~Polled(a)
    BY <1>1, BareFacts, EndedFacts DEF Polled, RowAgrees, HasEnded
  <2>. QED BY <2>1 DEF ReceiptInv, AttemptFits
<1>3. truth'[a] = Bare(id) /\ (\A b \in Sends \ {a} : truth'[b] = truth[b])
      /\ truth' = [b \in Sends |-> truth'[b]]
  BY <1>1 DEF ReceiptInv, ReceiptTypes
<1>4. ReceiptTypes'
  BY <1>1, <1>3 DEF ReceiptInv, ReceiptTypes, Sends, Push!Attempts
<1>5. Unpolled(a)'
  BY <1>1, <1>2, <1>3 DEF Unpolled
<1>6. AttemptFits(a)'
  BY <1>1, <1>2, <1>5 DEF AttemptFits
<1>7. Elsewhere(a)
  BY <1>1, <1>3 DEF Elsewhere
<1>. QED BY <1>1, <1>2, <1>4, <1>6, <1>7, OthersFit

LEMMA ScheduleReceiptKeeps ==
    ASSUME ReceiptInv, NEW a \in Sends, Push!ScheduleReceipt(a)
    PROVE  /\ ReceiptTypes' /\ (\A b \in Sends : AttemptFits(b))'
           /\ poll[a] = Push!NoRow
           /\ \A b \in Sends : poll[b] # Push!NoRow =>
                 /\ poll'[b].id = poll[b].id /\ poll'[b].pending = poll[b].pending
                 /\ poll'[b].decided = poll[b].decided
                 /\ Said(b) # Push!NoAction => poll'[b] = poll[b]
<1>. DEFINE id == Push!ReceiptOf(a)
            shared == \E b \in Push!Rows : poll[b].id = id
            new == [id |-> id, state |-> IF shared THEN "conflict" ELSE "unique",
                    pending |-> Push!NoAction, last |-> Push!Null, lease |-> Push!Nobody,
                    decided |-> Push!NoAction]
            row(b) == [poll[b] EXCEPT !.state = "conflict"]
<1>1. /\ poll[a] = Push!NoRow /\ Len(truth[a]) > 1
      /\ references' \subseteq references
      /\ UNCHANGED <<clock, resend, truth, invalid, polling, pollerFaults>>
      /\ poll' = [b \in Sends |-> CASE b = a -> new
                                    [] b # a /\ Push!Unsettled(b, id) -> row(b)
                                    [] OTHER -> poll[b]]
  BY DEF Push!ScheduleReceipt, Sends
<1>2. Unpolled(a) /\ id \in Ids /\ truth[a] = Bare(id)
  <2>1. Unpolled(a)
    BY <1>1 DEF ReceiptInv, AttemptFits
  <2>2. truth[a] # <<>>
    BY <1>1
  <2>3. PICK i \in Ids : truth[a] = Bare(i)
    BY <2>1, <2>2 DEF Unpolled
  <2>. QED BY <2>1, <2>3, BareFacts DEF Push!ReceiptOf
<1>3. /\ new \in Push!RowSet /\ new.id = id /\ new.state \in {"unique", "conflict"}
      /\ new.pending = Push!NoAction /\ new.lease = Push!Nobody /\ new.decided = Push!NoAction
  BY <1>2 DEF Push!RowSet
<1>4. ASSUME NEW b \in Sends, Push!Unsettled(b, id)
      PROVE  /\ row(b) \in Push!RowSet /\ poll[b] # Push!NoRow
             /\ row(b).id = poll[b].id /\ row(b).pending = poll[b].pending
             /\ row(b).lease = poll[b].lease /\ row(b).decided = poll[b].decided
             /\ Said(b) = Push!NoAction
  <2>1. poll[b] \in Push!RowSet
    BY <1>4 DEF Push!Unsettled, ReceiptInv, ReceiptTypes
  <2>. QED BY <1>4, <2>1 DEF Push!Unsettled, Push!RowSet, Said
<1>. HIDE DEF id, new, row
<1>5. poll'[a] = new
  BY <1>1
<1>6. ASSUME NEW b \in Sends \ {a}
      PROVE  poll'[b] = IF Push!Unsettled(b, id) THEN row(b) ELSE poll[b]
  BY <1>1
<1>7. \A b \in Sends : poll'[b] \in Push!RowSet \cup {Push!NoRow}
  BY <1>3, <1>4, <1>5, <1>6 DEF ReceiptInv, ReceiptTypes
<1>8. poll' = [b \in Sends |-> poll'[b]]
  BY <1>1
<1>9. ReceiptTypes'
  BY <1>1, <1>7, <1>8 DEF ReceiptInv, ReceiptTypes, Sends, Push!Attempts
<1>10. AttemptFits(a)'
  <2>1. Said(a)' = Push!NoAction
    BY <1>3, <1>5 DEF Said
  <2>2. RowAgrees(a)'
    <3>1. (truth[a] = Bare(poll[a].id))'
      BY <1>1, <1>2, <1>3, <1>5
    <3>2. a \notin resend'
      BY <1>1, <1>2 DEF Unpolled
    <3>3. poll'[a].decided = Push!NoAction /\ Push!NoAction \notin Push!Staged
          /\ Push!NoAction # Push!Resend
      BY <1>3, <1>5, Ends
    <3>. QED BY <2>1, <3>1, <3>2, <3>3 DEF RowAgrees
  <2>3. ASSUME NEW q \in Pollers
        PROVE  Carries(q, a)'
    <3>1. polling'[<<q, a>>].step = "idle" /\ polling'[<<q, a>>].act = Push!NoAction
      BY <1>1, <1>2, WorkParts DEF Unpolled
    <3>. QED BY <3>1 DEF Carries, Asking
  <2>4. Polled(a)' /\ poll'[a] # Push!NoRow
    BY <1>3, <1>5, <2>2, <2>3, RowParts DEF Polled
  <2>. QED BY <2>4 DEF AttemptFits
<1>11. ASSUME NEW b \in Sends \ {a}
       PROVE  AttemptFits(b)'
  <2>1. CASE ~Push!Unsettled(b, id)
    <3>1. poll'[b] = poll[b] /\ AttemptFits(b)
      BY <1>6, <2>1 DEF ReceiptInv
    <3>. QED BY <1>1, <3>1, Untouched
  <2>2. CASE Push!Unsettled(b, id)
    <3>1. poll'[b] = row(b) /\ poll[b] # Push!NoRow
      BY <1>4, <1>6, <2>2
    <3>2. Polled(b)
      BY <3>1 DEF ReceiptInv, AttemptFits
    <3>3. Polled(b)'
      BY <1>1, <1>4, <2>2, <3>1, <3>2, RowKeeps
    <3>. QED BY <1>4, <2>2, <3>1, <3>3, RowParts DEF AttemptFits
  <2>. QED BY <2>1, <2>2
<1>12. Sends' = Sends
  BY DEF Sends, Push!Attempts
<1>13. ASSUME NEW b \in Sends, poll[b] # Push!NoRow
       PROVE  /\ poll'[b].id = poll[b].id /\ poll'[b].pending = poll[b].pending
              /\ poll'[b].decided = poll[b].decided
              /\ Said(b) # Push!NoAction => poll'[b] = poll[b]
  BY <1>1, <1>4, <1>6, <1>13
<1>14. (\A b \in Sends : AttemptFits(b))'
  BY <1>10, <1>11, <1>12, Zenon
<1>. QED BY <1>1, <1>9, <1>13, <1>14

\* The reference of a next attempt is deleted.
LEMMA DropKeeps ==
    ASSUME ReceiptInv, NEW a \in Sends, Push!DropReference(a) \/ Push!DropAccepted(a)
    PROVE  /\ ReceiptTypes' /\ (\A b \in Sends : AttemptFits(b))'
           /\ UNCHANGED <<poll, truth, invalid>>
<1>1. references' = references \ {a} /\ UNCHANGED <<clock, poll, resend, truth, invalid, polling>>
  BY DEF Push!DropReference, Push!DropAccepted
<1>2. pollerFaults' \in 0..MaxPollFaults
  BY PushConstants DEF Push!DropReference, Push!DropAccepted, ReceiptInv, ReceiptTypes,
     Push!ReceiptConstants
<1>3. ReceiptTypes'
  BY <1>1, <1>2 DEF ReceiptInv, ReceiptTypes, Sends, Push!Attempts
<1>4. AttemptFits(a)'
  BY <1>1, Untouched DEF ReceiptInv
<1>5. Elsewhere(a)
  BY <1>1 DEF Elsewhere
<1>. QED BY <1>1, <1>3, <1>4, <1>5, OthersFit

\* A lease ends, of a poller at work or of one that has given up.
LEMMA LeaseEndKeeps ==
    ASSUME ReceiptInv, NEW a \in Sends,
           Push!Release(a) \/ \E p \in Pollers : Push!Overrun(p, a)
    PROVE  /\ ReceiptTypes' /\ (\A b \in Sends : AttemptFits(b))'
           /\ UNCHANGED <<truth, invalid>> /\ poll[a].lease # Push!Nobody
           /\ poll[a] # Push!NoRow /\ poll' = [poll EXCEPT ![a].lease = Push!Nobody]
<1>. DEFINE row == [poll[a] EXCEPT !.lease = Push!Nobody]
<1>1. /\ poll[a] # Push!NoRow /\ poll' = [poll EXCEPT ![a] = row]
      /\ UNCHANGED <<clock, resend, references, truth, invalid, polling>>
  BY DEF Push!Release, Push!Overrun
<1>2. poll[a].lease # Push!Nobody
  BY PushConstants DEF Push!Release, Push!Overrun, Push!ReceiptConstants
<1>3. poll[a] \in Push!RowSet /\ Polled(a)
  BY <1>1 DEF ReceiptInv, ReceiptTypes, AttemptFits
<1>4. /\ row \in Push!RowSet /\ row.pending = poll[a].pending /\ row.id = poll[a].id
      /\ row.state = poll[a].state /\ row.lease = Push!Nobody /\ row.decided = poll[a].decided
  BY <1>3 DEF Push!RowSet
<1>5. pollerFaults' \in 0..MaxPollFaults
  <2>1. \/ pollerFaults' = pollerFaults
        \/ pollerFaults < MaxPollFaults /\ pollerFaults' = pollerFaults + 1
    BY DEF Push!Release, Push!Overrun
  <2>2. MaxPollFaults \in Nat /\ pollerFaults \in 0..MaxPollFaults
    BY PushConstants DEF ReceiptInv, ReceiptTypes, Push!ReceiptConstants
  <2>. QED BY <2>1, <2>2
<1>. HIDE DEF row
<1>6. /\ poll' \in [Sends -> Push!RowSet \cup {Push!NoRow}] /\ poll'[a] = row
      /\ \A b \in Sends \ {a} : poll'[b] = poll[b]
  BY <1>1, <1>4 DEF ReceiptInv, ReceiptTypes
<1>7. ReceiptTypes'
  BY <1>1, <1>5, <1>6 DEF ReceiptInv, ReceiptTypes, Sends, Push!Attempts
<1>8. Polled(a)'
  BY <1>1, <1>3, <1>4, <1>6, RowKeeps
<1>9. AttemptFits(a)'
  BY <1>4, <1>6, <1>8, RowParts DEF AttemptFits
<1>10. Elsewhere(a)
  BY <1>1, <1>6 DEF Elsewhere
<1>. QED BY <1>1, <1>2, <1>7, <1>9, <1>10, OthersFit DEF row

LEMMA PollerCrashKeeps ==
    ASSUME ReceiptInv, NEW a \in Sends, NEW p \in Pollers, Push!Crash(p, a)
    PROVE  /\ ReceiptTypes' /\ (\A b \in Sends : AttemptFits(b))'
           /\ UNCHANGED <<poll, truth, invalid>>
<1>1. /\ polling[<<p, a>>] # Push!Idle /\ polling' = [polling EXCEPT ![<<p, a>>] = Push!Idle]
      /\ UNCHANGED <<clock, poll, resend, references, truth, invalid>>
  BY DEF Push!Crash
<1>2. pollerFaults' \in 0..MaxPollFaults
  BY PushConstants DEF Push!Crash, ReceiptInv, ReceiptTypes, Push!ReceiptConstants
<1>3. poll[a] # Push!NoRow
  BY <1>1 DEF ReceiptInv, AttemptFits, Unpolled
<1>. QED BY <1>1, <1>2, <1>3, RefusalKeeps

LEMMA TickKeeps ==
    ASSUME ReceiptInv, Push!Tick \/ UNCHANGED receipt
    PROVE  /\ ReceiptTypes' /\ (\A b \in Sends : AttemptFits(b))'
           /\ UNCHANGED <<poll, truth, invalid>>
<1>1. /\ clock' \in 0..2 /\ (clock > Push!Live => clock' > Push!Live)
      /\ UNCHANGED <<poll, resend, references, truth, invalid, polling, pollerFaults>>
  BY DEF ReceiptInv, ReceiptTypes, Push!Tick, receipt, Push!Live, Push!Late
<1>2. ReceiptTypes'
  BY <1>1 DEF ReceiptInv, ReceiptTypes, Sends, Push!Attempts
<1>3. ASSUME NEW b \in Sends
      PROVE  AttemptFits(b)'
  BY <1>1, Untouched DEF ReceiptInv
<1>4. Sends' = Sends
  BY DEF Sends, Push!Attempts
<1>. QED BY <1>1, <1>2, <1>3, <1>4, Zenon
-----------------------------------------------------------------------------
(* What a step does to a row, and to what is known of its attempt. *)

RowGoesOn(b) ==
    poll[b] # Push!NoRow =>
        /\ poll'[b] # Push!NoRow /\ poll'[b].id = poll[b].id
        /\ poll[b].pending # Push!NoAction =>
              \/ poll'[b].pending = poll[b].pending
              \/ /\ poll'[b].pending = Push!NoAction
                 /\ poll'[b].decided.state = poll[b].pending.state
                 /\ poll'[b].decided.reason = poll[b].pending.reason
        /\ poll[b].decided # Push!NoAction => poll'[b] = poll[b]

EndStays(b) ==
    poll[b] # Push!NoRow =>
        \A act \in Push!Staged : truth[b] = Ended(poll[b].id, act) => truth'[b] = truth[b]

\* A decision about one row.
LEMMA DecisionGoesOn ==
    ASSUME ReceiptInv, NEW a \in Sends, NEW p \in Pollers,
           Push!Stage(p, a) \/ Push!Reschedule(p, a) \/ Push!Conclude(p, a) \/ Push!Claim(p, a),
           NEW b \in Sends
    PROVE  RowGoesOn(b) /\ truth' = truth /\ invalid' = invalid
<1>. DEFINE act == polling[<<p, a>>].act
<1>1. truth' = truth /\ invalid' = invalid
  BY DEF Push!Stage, Push!Reschedule, Push!Conclude, Push!Claim, Push!Decide
<1>2. CASE b # a \/ poll' = poll
  <2>1. poll'[b] = poll[b]
    BY <1>2 DEF Push!Stage, Push!Reschedule, Push!Conclude, Push!Claim, Push!Decide,
       ReceiptInv, ReceiptTypes
  <2>. QED BY <1>1, <2>1 DEF RowGoesOn
<1>3. CASE b = a /\ poll' # poll
  <2>1. poll[a] \in Push!RowSet /\ Polled(a)
    <3>1. polling[<<p, a>>].step # "idle" \/ poll[a] # Push!NoRow
      BY DEF Push!Stage, Push!Reschedule, Push!Conclude, Push!Claim
    <3>. QED BY <3>1, WorkHasRow DEF ReceiptInv, ReceiptTypes, AttemptFits
  <2>2. CASE Push!Stage(p, a)
    <3>1. /\ Push!LeaseHeld(p, a) /\ poll' = [poll EXCEPT ![a] = [poll[a] EXCEPT !.pending = act]]
          /\ polling[<<p, a>>].step = "stage"
      BY <1>3, <2>2 DEF Push!Stage, Push!Decide
    <3>2. poll[a].decided = Push!NoAction /\ poll[a].pending = Push!NoAction
      BY <2>1, <3>1 DEF Push!LeaseHeld, Polled, Carries, Asking
    <3>3. act \in Push!Staged
      BY <2>1, <3>1 DEF Polled, Carries
    <3>4. poll'[a] = [poll[a] EXCEPT !.pending = act]
      BY <3>1 DEF ReceiptInv, ReceiptTypes
    <3>5. poll'[a] \in Push!RowSet /\ poll'[a].id = poll[a].id
      BY <2>1, <3>3, <3>4 DEF Push!RowSet
    <3>. QED BY <1>1, <1>3, <3>2, <3>5, RowParts DEF RowGoesOn
  <2>3. CASE Push!Reschedule(p, a)
    <3>1. /\ Push!LeaseHeld(p, a)
          /\ poll' = [poll EXCEPT ![a] =
                         [poll[a] EXCEPT !.last = "missing", !.lease = Push!Nobody]]
      BY <1>3, <2>3 DEF Push!Reschedule, Push!Decide
    <3>2. poll[a].decided = Push!NoAction
      BY <3>1 DEF Push!LeaseHeld
    <3>3. poll'[a] = [poll[a] EXCEPT !.last = "missing", !.lease = Push!Nobody]
      BY <3>1 DEF ReceiptInv, ReceiptTypes
    <3>4. poll'[a] \in Push!RowSet /\ poll'[a].id = poll[a].id /\ poll'[a].pending = poll[a].pending
      BY <2>1, <3>3 DEF Push!RowSet
    <3>. QED BY <1>1, <1>3, <3>2, <3>4, RowParts DEF RowGoesOn
  <2>4. CASE Push!Conclude(p, a)
    <3>1. /\ Push!LeaseHeld(p, a) /\ Push!Agrees(a, act)
          /\ poll' = [poll EXCEPT ![a] =
                         [poll[a] EXCEPT !.lease = Push!Nobody, !.pending = Push!NoAction,
                                         !.decided = act]]
          /\ polling[<<p, a>>].step \in {"complete", "decide"}
      BY <1>3, <2>4 DEF Push!Conclude, Push!Decide
    <3>2. poll[a].decided = Push!NoAction
      BY <3>1 DEF Push!LeaseHeld
    <3>3. act \in Push!Staged \cup {Push!Completion}
      BY <2>1, <3>1, SpokenIsStaged DEF Polled, Carries
    <3>4. poll'[a] = [poll[a] EXCEPT !.lease = Push!Nobody, !.pending = Push!NoAction,
                                     !.decided = act]
      BY <3>1 DEF ReceiptInv, ReceiptTypes
    <3>5. /\ poll'[a] \in Push!RowSet /\ poll'[a].id = poll[a].id
          /\ poll'[a].pending = Push!NoAction /\ poll'[a].decided = act
      BY <2>1, <3>3, <3>4 DEF Push!RowSet
    <3>6. poll[a].pending # Push!NoAction =>
             act.state = poll[a].pending.state /\ act.reason = poll[a].pending.reason
      BY <3>1 DEF Push!Agrees
    <3>. HIDE DEF act
    <3>. QED BY <1>1, <1>3, <3>2, <3>5, <3>6, RowParts DEF RowGoesOn
  <2>5. CASE Push!Claim(p, a)
    <3>1. poll[a].decided = Push!NoAction /\ poll' = [poll EXCEPT ![a].lease = p]
      BY <2>5 DEF Push!Claim
    <3>2. poll'[a] = [poll[a] EXCEPT !.lease = p]
      BY <3>1 DEF ReceiptInv, ReceiptTypes
    <3>3. poll'[a] \in Push!RowSet /\ poll'[a].id = poll[a].id /\ poll'[a].pending = poll[a].pending
      BY <2>1, <3>2 DEF Push!RowSet
    <3>. QED BY <1>1, <1>3, <3>1, <3>3, RowParts DEF RowGoesOn
  <2>. QED BY <2>2, <2>3, <2>4, <2>5
<1>. QED BY <1>2, <1>3

\* One step about one attempt.
OneStep(a) ==
    \/ \E id \in Ids : Push!Send(a, id)
    \/ Push!ScheduleReceipt(a) \/ Push!DropReference(a) \/ Push!DropAccepted(a)
    \/ Push!Release(a)
    \/ \E p \in Pollers : Push!Claim(p, a) \/ Push!Go(p, a) \/ Push!Crash(p, a) \/ Push!Overrun(p, a)

LEMMA StepGoesOn ==
    ASSUME ReceiptInv, NEW a \in Sends, OneStep(a)
    PROVE  /\ ReceiptTypes' /\ (\A b \in Sends : AttemptFits(b))'
           /\ \A b \in Sends : RowGoesOn(b) /\ EndStays(b)
           /\ \/ invalid' = invalid
              \/ /\ invalid' = invalid \cup {Push!Device(a)} /\ UNCHANGED <<poll, truth>>
                 /\ poll[a] # Push!NoRow /\ HasEnded(a, Push!Failure("unregistered"))
<1>1. ASSUME UNCHANGED poll
      PROVE  \A b \in Sends : RowGoesOn(b)
  BY <1>1 DEF RowGoesOn
<1>2. ASSUME UNCHANGED truth
      PROVE  \A b \in Sends : EndStays(b)
  BY <1>2 DEF EndStays
<1>3. CASE \E id \in Ids : Push!Send(a, id)
  <2>1. PICK id \in Ids : Push!Send(a, id)
    BY <1>3
  <2>2. poll' = poll /\ invalid' = invalid /\ poll[a] = Push!NoRow
        /\ \A b \in Sends \ {a} : truth'[b] = truth[b]
    BY <2>1, SendKeeps DEF Push!Send, ReceiptInv, ReceiptTypes
  <2>3. \A b \in Sends : EndStays(b)
    BY <2>2 DEF EndStays
  <2>. QED BY <1>1, <2>1, <2>2, <2>3, SendKeeps
<1>4. CASE Push!ScheduleReceipt(a)
  <2>1. truth' = truth /\ invalid' = invalid
    BY <1>4 DEF Push!ScheduleReceipt
  <2>2. ASSUME NEW b \in Sends
        PROVE  RowGoesOn(b)
    <3>1. b # a /\ poll[b] # Push!NoRow => poll'[b] # Push!NoRow
      BY <1>4, Ends, RowParts DEF Push!ScheduleReceipt, Sends, Push!Unsettled, ReceiptInv, ReceiptTypes, Push!RowSet
    <3>2. poll[b].decided # Push!NoAction => Said(b) # Push!NoAction
      BY DEF Said
    <3>. QED BY <1>4, <3>1, <3>2, ScheduleReceiptKeeps DEF RowGoesOn
  <2>. QED BY <1>2, <1>4, <2>1, <2>2, ScheduleReceiptKeeps
<1>5. CASE Push!DropReference(a) \/ Push!DropAccepted(a)
  BY <1>1, <1>2, <1>5, DropKeeps
<1>6. CASE Push!Release(a) \/ \E p \in Pollers : Push!Overrun(p, a)
  <2>1. /\ UNCHANGED <<truth, invalid>> /\ poll[a].lease # Push!Nobody
        /\ poll[a] # Push!NoRow /\ poll' = [poll EXCEPT ![a].lease = Push!Nobody]
    BY <1>6, LeaseEndKeeps
  <2>2. poll[a] \in Push!RowSet /\ poll[a].decided = Push!NoAction
    BY <2>1 DEF ReceiptInv, ReceiptTypes, AttemptFits, Polled, RowAgrees
  <2>3. ASSUME NEW b \in Sends
        PROVE  RowGoesOn(b)
    <3>1. CASE b # a
      <4>1. poll'[b] = poll[b]
        BY <2>1, <3>1 DEF ReceiptInv, ReceiptTypes
      <4>. QED BY <4>1 DEF RowGoesOn
    <3>2. CASE b = a
      <4>1. poll'[a] = [poll[a] EXCEPT !.lease = Push!Nobody]
        BY <2>1 DEF ReceiptInv, ReceiptTypes
      <4>2. poll'[a] \in Push!RowSet /\ poll'[a].id = poll[a].id
            /\ poll'[a].pending = poll[a].pending
        BY <2>2, <4>1 DEF Push!RowSet
      <4>. QED BY <2>2, <3>2, <4>2, RowParts DEF RowGoesOn
    <3>. QED BY <3>1, <3>2
  <2>. QED BY <1>2, <1>6, <2>1, <2>3, LeaseEndKeeps
<1>7. ASSUME NEW p \in Pollers, Push!Claim(p, a) \/ Push!Go(p, a) \/ Push!Crash(p, a)
      PROVE  /\ ReceiptTypes' /\ (\A b \in Sends : AttemptFits(b))'
             /\ \A b \in Sends : RowGoesOn(b) /\ EndStays(b)
             /\ \/ invalid' = invalid
                \/ /\ invalid' = invalid \cup {Push!Device(a)} /\ UNCHANGED <<poll, truth>>
                   /\ poll[a] # Push!NoRow /\ HasEnded(a, Push!Failure("unregistered"))
  <2>1. CASE \/ Push!Stage(p, a) \/ Push!Reschedule(p, a) \/ Push!Conclude(p, a)
             \/ Push!Claim(p, a)
    <3>1. (\A b \in Sends : RowGoesOn(b)) /\ truth' = truth /\ invalid' = invalid
      BY <2>1, DecisionGoesOn
    <3>2. ReceiptTypes' /\ (\A b \in Sends : AttemptFits(b))'
      BY <2>1, StageKeeps, RescheduleKeeps, ConcludeKeeps, ClaimKeeps
    <3>. QED BY <1>2, <3>1, <3>2
  <2>2. CASE Push!ScheduleRetry(p, a)
    <3>1. UNCHANGED <<poll, truth, invalid>>
      BY <2>2 DEF Push!ScheduleRetry
    <3>. QED BY <1>1, <1>2, <2>2, <3>1, ScheduleRetryKeeps
  <2>3. CASE Push!Publish(p, a)
    <3>1. UNCHANGED <<poll, truth, invalid>>
      BY <2>3 DEF Push!Publish
    <3>. QED BY <1>1, <1>2, <2>3, <3>1, PublishKeeps
  <2>4. CASE Push!Record(p, a)
    <3>1. UNCHANGED <<poll, invalid>> /\ \A b \in Sends \ {a} : truth'[b] = truth[b]
      BY <2>4 DEF Push!Record, ReceiptInv, ReceiptTypes
    <3>2. truth[a] = Bare(poll[a].id) \/ truth'[a] = truth[a]
      BY <2>4, RecordKeeps
    <3>3. \A b \in Sends : EndStays(b)
      BY <3>1, <3>2, BareFacts, EndedFacts DEF EndStays
    <3>4. ReceiptTypes' /\ (\A b \in Sends : AttemptFits(b))'
      BY <2>4, RecordKeeps
    <3>. QED BY <1>1, <3>1, <3>3, <3>4
  <2>5. CASE Push!Invalidate(p, a)
    <3>1. UNCHANGED <<poll, truth>> /\ invalid' = invalid \cup {Push!Device(a)}
      BY <2>5 DEF Push!Invalidate
    <3>. QED BY <1>1, <1>2, <2>5, <3>1, InvalidateKeeps
  <2>6. CASE Push!Crash(p, a)
    BY <1>1, <1>2, <2>6, PollerCrashKeeps
  <2>. QED BY <1>7, <2>1, <2>2, <2>3, <2>4, <2>5, <2>6 DEF Push!Go
<1>. QED BY <1>3, <1>4, <1>5, <1>6, <1>7 DEF OneStep

\* No step leaves the invariant, or touches a decided row.
LEMMA ReceiptStep ==
    ASSUME ReceiptInv, [Push!Next]_receipt
    PROVE  ReceiptInv' /\ \A b \in Sends : RowGoesOn(b)
<1>1. CASE Push!Tick \/ UNCHANGED receipt
  <2>1. /\ ReceiptTypes' /\ (\A b \in Sends : AttemptFits(b))'
        /\ UNCHANGED <<poll, truth, invalid>>
    BY <1>1, TickKeeps
  <2>2. GoneOnProof'
    BY <2>1 DEF ReceiptInv, GoneOnProof, HasEnded, Sends, Push!Attempts
  <2>. QED BY <2>1, <2>2 DEF ReceiptInv, RowGoesOn
<1>2. ASSUME NEW a \in Sends, OneStep(a)
      PROVE  ReceiptInv' /\ \A b \in Sends : RowGoesOn(b)
  <2>1. /\ ReceiptTypes' /\ (\A b \in Sends : AttemptFits(b))'
        /\ \A b \in Sends : RowGoesOn(b) /\ EndStays(b)
        /\ \/ invalid' = invalid
           \/ /\ invalid' = invalid \cup {Push!Device(a)} /\ UNCHANGED <<poll, truth>>
              /\ poll[a] # Push!NoRow /\ HasEnded(a, Push!Failure("unregistered"))
    BY <1>2, StepGoesOn
  <2>2. ASSUME NEW b \in Sends, poll[b] # Push!NoRow, HasEnded(b, Push!Failure("unregistered"))
        PROVE  poll'[b] # Push!NoRow /\ HasEnded(b, Push!Failure("unregistered"))'
    <3>1. poll'[b] # Push!NoRow /\ poll'[b].id = poll[b].id
      BY <2>1, <2>2 DEF RowGoesOn
    <3>2. truth'[b] = truth[b]
      BY <2>1, <2>2, Ends DEF EndStays, HasEnded
    <3>. QED BY <2>2, <3>1, <3>2 DEF HasEnded
  <2>3. ASSUME NEW d \in invalid'
        PROVE  \E b \in Sends : /\ Push!Device(b) = d /\ poll'[b] # Push!NoRow
                                /\ HasEnded(b, Push!Failure("unregistered"))'
    <3>1. CASE d \in invalid
      BY <2>2, <3>1 DEF ReceiptInv, GoneOnProof
    <3>2. CASE d \notin invalid
      <4>1. d = Push!Device(a) /\ poll[a] # Push!NoRow /\ HasEnded(a, Push!Failure("unregistered"))
        BY <2>1, <2>3, <3>2
      <4>. QED BY <2>2, <4>1
    <3>. QED BY <3>1, <3>2
  <2>4. GoneOnProof'
    BY <2>3 DEF GoneOnProof, Sends, Push!Attempts, Push!Device
  <2>. QED BY <2>1, <2>4 DEF ReceiptInv
<1>. QED BY <1>1, <1>2 DEF Push!Next, OneStep, Sends
LEMMA ReceiptStart == Push!Init => ReceiptInv
<1>. SUFFICES ASSUME Push!Init PROVE ReceiptInv
  OBVIOUS
<1>1. /\ clock = 0 /\ poll = [a \in Sends |-> Push!NoRow] /\ resend = {} /\ references = {}
      /\ truth = [a \in Sends |-> <<>>] /\ invalid = {} /\ pollerFaults = 0
      /\ polling = [w \in Pollers \X Sends |-> Push!Idle]
  BY DEF Push!Init, Push!Live, Sends
<1>2. ReceiptTypes
  BY <1>1, WorkParts, PushConstants DEF ReceiptTypes, Push!ReceiptConstants
<1>3. ASSUME NEW a \in Sends
      PROVE  AttemptFits(a)
  BY <1>1 DEF AttemptFits, Unpolled
<1>. QED BY <1>1, <1>2, <1>3 DEF ReceiptInv, GoneOnProof

-----------------------------------------------------------------------------
(* The properties. *)

LEMMA RowsAre ==
    ASSUME ReceiptInv, NEW a \in Push!Rows
    PROVE  a \in Sends /\ poll[a] \in Push!RowSet /\ RowAgrees(a)
BY DEF Push!Rows, Push!Bound, Sends, ReceiptInv, ReceiptTypes, AttemptFits, Polled

\* The facts about an attempt whose receipt is polled.
LEMMA FactsOfRow ==
    ASSUME ReceiptInv, NEW a \in Push!Rows
    PROVE  \/ truth[a] = Bare(poll[a].id)
              /\ Push!Facts(a) = {Push!Attempted, Push!Accepted(poll[a].id)}
           \/ \E act \in Push!Staged :
                 /\ Speaks(a, act) /\ HasEnded(a, act)
                 /\ Push!Facts(a) = {Push!Attempted, Push!Accepted(poll[a].id),
                                     Push!Learnt(act, poll[a].id)}
<1>1. RowAgrees(a)
  BY RowsAre
<1>2. truth[a] = Bare(poll[a].id) =>
         Push!Facts(a) = {Push!Attempted, Push!Accepted(poll[a].id)}
  BY BareFacts DEF Push!Facts
<1>3. ASSUME NEW act, HasEnded(a, act)
      PROVE  Push!Facts(a) = {Push!Attempted, Push!Accepted(poll[a].id),
                              Push!Learnt(act, poll[a].id)}
  <2>1. Push!Facts(a) = {Ended(poll[a].id, act)[i] : i \in DOMAIN Ended(poll[a].id, act)}
    BY <1>3, Zenon DEF Push!Facts, HasEnded
  <2>. QED BY <2>1, EndedFacts, Zenon
<1>. QED BY <1>1, <1>2, <1>3 DEF RowAgrees

LEMMA ReceiptsTyped == ReceiptInv => Push!TypeOK
<1>. SUFFICES ASSUME ReceiptInv PROVE Push!TypeOK
  OBVIOUS
<1>1. ASSUME NEW a \in Sends, NEW f \in Push!Facts(a)
      PROVE  f.state \in Push!States
  <2>1. /\ Push!Attempted.state \in Push!States
        /\ \A id : Push!Accepted(id).state \in Push!States
        /\ \A id : \A act \in Push!Staged : Push!Learnt(act, id).state \in Push!States
    <3>1. \A id : \A act \in Push!Staged : Push!Learnt(act, id).state = act.state
      BY DEF Push!Learnt, Push!Fact
    <3>. QED BY <3>1, Ends DEF Push!Attempted, Push!Accepted, Push!Fact, Push!States
  <2>2. CASE poll[a] = Push!NoRow
    <3>1. Unpolled(a)
      BY <2>2 DEF ReceiptInv, AttemptFits
    <3>2. truth[a] = <<>> => Push!Facts(a) = {}
      BY DEF Push!Facts
    <3>3. ASSUME NEW id \in Ids, truth[a] = Bare(id)
          PROVE  Push!Facts(a) = {Push!Attempted, Push!Accepted(id)}
      <4>1. Push!Facts(a) = {Bare(id)[i] : i \in DOMAIN Bare(id)}
        BY <3>3, Zenon DEF Push!Facts
      <4>. QED BY <4>1, BareFacts, Zenon
    <3>. QED BY <1>1, <2>1, <3>1, <3>2, <3>3 DEF Unpolled
  <2>3. CASE poll[a] # Push!NoRow
    <3>1. a \in Push!Rows
      BY <2>3 DEF Push!Rows, Push!Bound, Sends
    <3>. QED BY <1>1, <2>1, <3>1, FactsOfRow
  <2>. QED BY <2>2, <2>3
<1>2. \A w \in Pollers \X Sends : polling[w].step \in PollSteps /\ polling[w].act \in PollActs
  BY DEF ReceiptInv, ReceiptTypes
<1>. QED BY <1>1, <1>2 DEF ReceiptInv, ReceiptTypes, Sends, Push!TypeOK, Push!Live, Push!Late,
     PollSteps, PollActs

LEMMA ReceiptsSpeak ==
    ASSUME ReceiptInv
    PROVE  /\ Push!CollisionSpeaksForNobody /\ Push!DecidedAsRecorded
           /\ Push!DeviceDroppedOnProof /\ Push!ResentMeansFailed
<1>1. ASSUME NEW a \in Push!Rows, poll[a].state = "conflict"
      PROVE  /\ {poll[a].pending, poll[a].decided} \subseteq {Push!NoAction, Push!Collision}
             /\ Push!Facts(a) \subseteq {Push!Attempted, Push!Accepted(poll[a].id),
                                         Push!Learnt(Push!Collision, poll[a].id)}
  <2>1. /\ poll[a] \in Push!RowSet /\ Said(a) \in {Push!NoAction, Push!Collision}
        /\ poll[a].decided # Push!NoAction => poll[a].pending = Push!NoAction
    BY <1>1, RowsAre DEF RowAgrees
  <2>2. {poll[a].pending, poll[a].decided} \subseteq {Push!NoAction, Push!Collision}
    BY <2>1 DEF Said
  <2>3. \A act : Speaks(a, act) => act = Push!Collision
    BY <2>1, Ends DEF Speaks
  <2>. QED BY <2>2, <2>3, FactsOfRow
<1>2. ASSUME NEW a \in Push!Rows
      PROVE  /\ poll[a].decided = Push!Completion =>
                   Push!Facts(a) = {Push!Attempted, Push!Accepted(poll[a].id)}
             /\ poll[a].decided \in Push!Staged =>
                   Push!Learnt(poll[a].decided, poll[a].id) \in Push!Facts(a)
             /\ poll[a].decided \in Push!Staged \cup {Push!NoAction, Push!Completion}
  <2>1. RowAgrees(a) /\ poll[a] \in Push!RowSet
    BY RowsAre
  <2>2. ASSUME poll[a].decided = Push!Completion
        PROVE  Push!Facts(a) = {Push!Attempted, Push!Accepted(poll[a].id)}
    <3>1. Said(a) = Push!Completion
      BY <2>1, <2>2, Ends DEF RowAgrees, Said
    <3>2. \A act : ~Speaks(a, act)
      BY <3>1, Ends DEF Speaks
    <3>. QED BY <3>2, FactsOfRow
  <2>3. ASSUME poll[a].decided \in Push!Staged
        PROVE  Push!Learnt(poll[a].decided, poll[a].id) \in Push!Facts(a)
    <3>1. HasEnded(a, poll[a].decided)
      BY <2>1, <2>3 DEF RowAgrees
    <3>. QED BY <3>1, EndedFacts DEF HasEnded, Push!Facts
  <2>. QED BY <2>1, <2>2, <2>3, RowParts
<1>3. Push!DecidedAsRecorded
  BY <1>2, Ends DEF Push!DecidedAsRecorded
<1>4. Push!DeviceDroppedOnProof
  <2>1. ASSUME NEW d \in invalid
        PROVE  \E a \in Push!Rows :
                  /\ Push!Device(a) = d /\ poll[a].state = "unique"
                  /\ Push!Learnt(Push!Failure("unregistered"), poll[a].id) \in Push!Facts(a)
    <3>1. PICK a \in Sends : /\ Push!Device(a) = d /\ poll[a] # Push!NoRow
                             /\ HasEnded(a, Push!Failure("unregistered"))
      BY DEF ReceiptInv, GoneOnProof
    <3>2. a \in Push!Rows
      BY <3>1 DEF Push!Rows, Push!Bound, Sends
    <3>3. Push!Learnt(Push!Failure("unregistered"), poll[a].id) \in Push!Facts(a)
      BY <3>1, EndedFacts DEF HasEnded, Push!Facts
    <3>4. poll[a].state # "conflict"
      <4>1. /\ Push!Learnt(Push!Failure("unregistered"), poll[a].id) # Push!Attempted
            /\ Push!Learnt(Push!Failure("unregistered"), poll[a].id) # Push!Accepted(poll[a].id)
            /\ Push!Learnt(Push!Failure("unregistered"), poll[a].id) #
                  Push!Learnt(Push!Collision, poll[a].id)
        BY DEF Push!Learnt, Push!Failure, Push!Collision, Push!Doubt, Push!Action, Push!Fact,
           Push!Attempted, Push!Accepted
      <4>. QED BY <1>1, <3>2, <3>3, <4>1
    <3>. QED BY <3>1, <3>2, <3>3, <3>4, RowsAre DEF Push!RowSet
  <2>. QED BY <2>1 DEF Push!DeviceDroppedOnProof
<1>5. Push!ResentMeansFailed
  <2>1. ASSUME NEW a \in resend
        PROVE  /\ Push!Resend \in {poll[a].pending, poll[a].decided}
               /\ Push!Facts(a) \subseteq {Push!Attempted, Push!Accepted(poll[a].id),
                                           Push!Learnt(Push!Resend, poll[a].id)}
    <3>1. a \in Sends
      BY DEF ReceiptInv, ReceiptTypes
    <3>2. a \in Push!Rows
      BY <3>1 DEF ReceiptInv, AttemptFits, Unpolled, Push!Rows, Push!Bound, Sends
    <3>3. Said(a) = Push!Resend
      BY <3>2, RowsAre DEF RowAgrees
    <3>4. \A act : Speaks(a, act) => act = Push!Resend
      BY <3>3 DEF Speaks
    <3>5. Push!Resend \in {poll[a].pending, poll[a].decided}
      BY <3>3 DEF Said
    <3>. QED BY <3>2, <3>4, <3>5, FactsOfRow
  <2>. QED BY <2>1 DEF Push!ResentMeansFailed
<1>. QED BY <1>1, <1>3, <1>4, <1>5 DEF Push!CollisionSpeaksForNobody

\* No poller, however late, speaks for an attempt but as its row was told: a
\* shared receipt id speaks for nobody, a row is decided as recorded, a device
\* goes only on proof of its own, and what is sent again had failed.
THEOREM ReceiptsSafe == ReceiptSpec => []ReceiptsSpeakForTheirOwn
<1>1. Push!Init => ReceiptInv
  BY ReceiptStart
<1>2. ReceiptInv /\ [Push!Next]_receipt => ReceiptInv'
  BY ReceiptStep
<1>3. ReceiptInv => ReceiptsSpeakForTheirOwn
  BY ReceiptsTyped, ReceiptsSpeak DEF ReceiptsSpeakForTheirOwn
<1>. QED BY <1>1, <1>2, <1>3, PTL DEF ReceiptSpec

\* What is staged stays staged until the row is decided so, and a decided row
\* never changes again, whoever still holds or once held its lease.
THEOREM StagedForGood == ReceiptSpec => StagedIsFinal
<1>1. Push!Init => ReceiptInv
  BY ReceiptStart
<1>2. ReceiptInv /\ [Push!Next]_receipt => ReceiptInv'
  BY ReceiptStep
<1>3. ReceiptInv /\ [Push!Next]_receipt => [Push!StagedKept]_receipt
  <2>. SUFFICES ASSUME ReceiptInv, [Push!Next]_receipt
                PROVE  Push!StagedKept
    OBVIOUS
  <2>1. \A b \in Sends : RowGoesOn(b)
    BY ReceiptStep
  <2>. QED BY <2>1 DEF Push!StagedKept, RowGoesOn, Push!Rows, Push!Bound, Sends
<1>. QED BY <1>1, <1>2, <1>3, PTL DEF ReceiptSpec, StagedIsFinal
=============================================================================
