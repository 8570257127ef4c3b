------------------------ MODULE CommittedRecordsProofs -----------------------
(***************************************************************************)
(* Proofs about the two tables of CommittedRecords.                        *)
(*                                                                         *)
(* First the outbox (OutboxDispatch), for any numbers of rows, dispatchers,*)
(* channels and attempts, and any lease and backoff.                       *)
(*                                                                         *)
(* Then the audit, for every number of requests and verifications, every   *)
(* page size and every way of appending.  The argument has four parts.     *)
(* AuditTyped says what the tables hold: as many rows as anchors, in the   *)
(* same order.  Entered says that nobody writes twice: a request that may  *)
(* still write has no entry, and whoever was told an outcome has one that  *)
(* says so.  Blamed says that damage is never undone and is behind every   *)
(* refusal and every bad verdict.  Walked says that what a verification    *)
(* found good it holds locked until its verdict, so that it is still good  *)
(* then.                                                                   *)
(***************************************************************************)
EXTENDS CommittedRecords, Sequences, FiniteSetTheorems, TLAPS

-----------------------------------------------------------------------------
(* The outbox and its dispatchers. *)

\* Whoever sends or settles knows what it claimed.
HoldersHaveClaims == \A d \in Dispatchers : Holding(d) => claim[d] \in Claims

Typed == TypeOK /\ HoldersHaveClaims

\* What a claim writes is a row of the table, locked unless it failed.
LEMMA ClaimedRowType ==
    ASSUME TypeOK, NEW r \in Rows, Waiting(r)
    PROVE  /\ ClaimedRow(r) \in OutboxRow
           /\ LockState(ClaimedRow(r))
           /\ ClaimedRow(r).status \in {"processing", "failed"}
<1>. DEFINE e == row[r]
<1>1. e \in OutboxRow /\ now \in Nat /\ Lease \in Nat /\ Lease # 0
  BY BoundsAssumption DEF TypeOK
<1>2. CASE e.status = "pending" /\ e.attempts >= MaxAttempts
  <2>1. ClaimedRow(r) =
          [status |-> "failed", attempts |-> e.attempts + 1,
           availableAt |-> e.availableAt, lockedUntil |-> 0]
    BY <1>1, <1>2 DEF ClaimedRow, ExhaustedRow, OutboxRow
  <2>. QED BY <1>1, <2>1 DEF OutboxRow, Statuses, LockState
<1>3. CASE ~(e.status = "pending" /\ e.attempts >= MaxAttempts)
  <2>1. ClaimedRow(r) =
          [status |-> "processing",
           attempts |-> IF e.status = "pending" THEN e.attempts + 1 ELSE e.attempts,
           availableAt |-> e.availableAt, lockedUntil |-> now + Lease]
    BY <1>1, <1>3 DEF ClaimedRow, ExhaustedRow, OutboxRow
  <2>2. now + Lease \in Nat /\ now + Lease # 0
    BY <1>1
  <2>. QED BY <1>1, <2>1, <2>2 DEF OutboxRow, Statuses, LockState
<1>. QED BY <1>2, <1>3

\* The ids a claim stores are numbers.
LEMMA StableBatchesType ==
    ASSUME TypeOK, NEW r \in Rows
    PROVE  StableBatches(r) \in [Channels -> Nat]
BY DEF TypeOK, StableBatches

\* The settlements leave rows of the table behind.
LEMMA SettledRowType ==
    ASSUME now \in Nat, NEW e \in OutboxRow
    PROVE  /\ PublishedRow(e) \in OutboxRow /\ LockState(PublishedRow(e))
           /\ RetryRow(e) \in OutboxRow /\ LockState(RetryRow(e))
           /\ FailedRow(e) \in OutboxRow /\ LockState(FailedRow(e))
<1>1. /\ PublishedRow(e) \in OutboxRow
      /\ PublishedRow(e).status = "published" /\ PublishedRow(e).lockedUntil = 0
  BY DEF PublishedRow, OutboxRow, Statuses
<1>2. /\ RetryRow(e) \in OutboxRow
      /\ RetryRow(e).status = "pending" /\ RetryRow(e).lockedUntil = 0
  <2>1. now + Backoff \in Nat
    BY BoundsAssumption
  <2>2. \A t \in Nat :
          LET x == [e EXCEPT !.status = "pending", !.lockedUntil = 0, !.availableAt = t]
          IN  x \in OutboxRow
    BY DEF OutboxRow, Statuses
  <2>3. \A t \in Nat :
          LET x == [e EXCEPT !.status = "pending", !.lockedUntil = 0, !.availableAt = t]
          IN  x.status = "pending" /\ x.lockedUntil = 0
    BY DEF OutboxRow
  <2>. QED BY <2>1, <2>2, <2>3 DEF RetryRow
<1>3. /\ FailedRow(e) \in OutboxRow
      /\ FailedRow(e).status = "failed" /\ FailedRow(e).lockedUntil = 0
  BY DEF FailedRow, OutboxRow, Statuses
<1>. QED BY <1>1, <1>2, <1>3 DEF LockState

LEMMA InitTyped == Init => Typed
BY DEF Init, Typed, TypeOK, HoldersHaveClaims, Holding, NoRow, OutboxRow, Statuses,
       LockState, Results

LEMMA StepTyped == Typed /\ [Next]_vars => Typed'
<1>. SUFFICES ASSUME Typed, [Next]_vars PROVE Typed'
  OBVIOUS
<1>. USE DEF Typed
<1>1. ASSUME NEW d \in Dispatchers, NEW r \in Rows, Commit(d, r) PROVE Typed'
  <2>1. LET e == [NoRow EXCEPT !.status = "pending", !.availableAt = now]
        IN  e \in OutboxRow /\ LockState(e)
    BY DEF NoRow, OutboxRow, Statuses, LockState, TypeOK
  <2>2. /\ row' \in [Rows -> OutboxRow] /\ \A s \in Rows : LockState(row'[s])
    BY <1>1, <2>1 DEF Commit, TypeOK
  <2>. QED BY <1>1, <2>2 DEF Commit, TypeOK, HoldersHaveClaims, Holding, LockState
<1>2. ASSUME NEW d \in Dispatchers, HookStarts(d) PROVE Typed'
  BY <1>2 DEF HookStarts, TypeOK, HoldersHaveClaims, Holding, table, LockState
<1>3. ASSUME NEW d \in Dispatchers, ListReady(d) PROVE Typed'
  BY <1>3 DEF ListReady, ReadyPages, TypeOK, HoldersHaveClaims, Holding, table, LockState
<1>4. ASSUME NEW d \in Dispatchers, NEW r \in Rows, SkipRow(d, r) PROVE Typed'
  BY <1>4 DEF SkipRow, TypeOK, HoldersHaveClaims, Holding, table, LockState
<1>5. ASSUME NEW d \in Dispatchers, NEW r \in Rows, ClaimRow(d, r) PROVE Typed'
  <2>. Ready(r) /\ Waiting(r)
    BY <1>5 DEF ClaimRow, Ready
  <2>1. /\ row' \in [Rows -> OutboxRow] /\ \A s \in Rows : LockState(row'[s])
    BY <1>5, ClaimedRowType DEF ClaimRow, TypeOK
  <2>2. todo' \in [Dispatchers -> SUBSET Rows]
    BY <1>5 DEF ClaimRow, TypeOK
  <2>3. CASE ClaimedRow(r).status = "failed"
    BY <1>5, <2>1, <2>2, <2>3 DEF ClaimRow, TypeOK, HoldersHaveClaims, Holding, LockState
  <2>4. CASE ClaimedRow(r).status # "failed"
    <3>. DEFINE c == [row |-> r, attempt |-> ClaimedRow(r).attempts,
                      until |-> ClaimedRow(r).lockedUntil,
                      batch |-> StableBatches(r)]
    <3>1. c \in Claims
      BY ClaimedRowType, StableBatchesType DEF Claims, OutboxRow
    <3>2. /\ batch' = [batch EXCEPT ![r] = StableBatches(r)]
          /\ lastBatch' \in {lastBatch, lastBatch + 1}
          /\ pc' = [pc EXCEPT ![d] = "send"]
          /\ claim' = [claim EXCEPT ![d] = c]
          /\ UNCHANGED <<now, queue, result, failures, faults>>
      BY <1>5, <2>4 DEF ClaimRow
    <3>3. batch' \in [Rows -> [Channels -> Nat]] /\ lastBatch' \in Nat
      BY <3>2, StableBatchesType DEF TypeOK
    <3>4. claim' \in [Dispatchers -> Claims \cup {NoClaim}]
      BY <3>1, <3>2 DEF TypeOK
    <3>5. HoldersHaveClaims'
      BY <3>1, <3>2 DEF TypeOK, HoldersHaveClaims, Holding
    <3>. QED BY <2>1, <2>2, <3>2, <3>3, <3>4, <3>5 DEF TypeOK, LockState
  <2>. QED BY <2>3, <2>4
<1>6. ASSUME NEW d \in Dispatchers, Send(d) PROVE Typed'
  <2>1. PICK o \in SendOutcomes :
          /\ queue' = queue \cup
                {<<claim[d].row, c, claim[d].batch[c]>> : c \in o[1]}
          /\ result' = [result EXCEPT ![d] = o[2]]
    BY <1>6 DEF Send
  <2>2. o[1] \subseteq Channels /\ o[2] \in Results
    BY DEF SendOutcomes, Results
  <2>3. claim[d] \in Claims
    BY <1>6 DEF Send, HoldersHaveClaims, Holding
  <2>4. queue' \subseteq Rows \X Channels \X Nat
    BY <2>1, <2>2, <2>3 DEF TypeOK, Claims
  <2>5. result' \in [Dispatchers -> Results]
    BY <2>1, <2>2 DEF TypeOK
  <2>. QED BY <1>6, <2>4, <2>5 DEF Send, TypeOK, HoldersHaveClaims, Holding, table, LockState
<1>7. ASSUME NEW d \in Dispatchers, DropClaim(d)
      PROVE  /\ pc' \in [Dispatchers -> {"idle", "list", "poll", "send", "settle"}]
             /\ todo' \in [Dispatchers -> SUBSET Rows]
             /\ claim' \in [Dispatchers -> Claims \cup {NoClaim}]
             /\ result' \in [Dispatchers -> Results]
             /\ HoldersHaveClaims'
  BY <1>7 DEF DropClaim, TypeOK, Results, HoldersHaveClaims, Holding
<1>8. ASSUME NEW d \in Dispatchers, pc[d] = "settle"
      PROVE  claim[d].row \in Rows
  BY <1>8 DEF HoldersHaveClaims, Holding, Claims
<1>9. ASSUME NEW d \in Dispatchers, MarkPublished(d) PROVE Typed'
  <2>1. DropClaim(d) /\ claim[d].row \in Rows
    BY <1>9, <1>8 DEF MarkPublished
  <2>2. /\ row' \in [Rows -> OutboxRow] /\ \A s \in Rows : LockState(row'[s])
    BY <1>9, <2>1, SettledRowType DEF MarkPublished, TypeOK
  <2>. QED BY <1>9, <2>1, <2>2, <1>7 DEF MarkPublished, TypeOK, LockState
<1>10. ASSUME NEW d \in Dispatchers, ScheduleRetry(d) PROVE Typed'
  <2>1. DropClaim(d) /\ claim[d].row \in Rows
    BY <1>10, <1>8 DEF ScheduleRetry
  <2>2. /\ row' \in [Rows -> OutboxRow] /\ \A s \in Rows : LockState(row'[s])
    BY <1>10, <2>1, SettledRowType DEF ScheduleRetry, TypeOK
  <2>. QED BY <1>10, <2>1, <2>2, <1>7 DEF ScheduleRetry, TypeOK, LockState
<1>11. ASSUME NEW d \in Dispatchers, RecordTerminalFailure(d) PROVE Typed'
  <2>1. DropClaim(d) /\ claim[d].row \in Rows
    BY <1>11, <1>8 DEF RecordTerminalFailure
  <2>2. /\ row' \in [Rows -> OutboxRow] /\ \A s \in Rows : LockState(row'[s])
    BY <1>11, <2>1, SettledRowType DEF RecordTerminalFailure, TypeOK
  <2>. QED BY <1>11, <2>1, <2>2, <1>7 DEF RecordTerminalFailure, TypeOK, LockState
<1>12. ASSUME NEW d \in Dispatchers, ClaimLost(d) \/ SettlementFails(d) PROVE Typed'
  <2>1. DropClaim(d)
    BY <1>12 DEF ClaimLost, SettlementFails
  <2>. QED BY <1>12, <2>1, <1>7 DEF ClaimLost, SettlementFails, TypeOK, table, LockState
<1>13. ASSUME NEW d \in Dispatchers, PollEnds(d) PROVE Typed'
  BY <1>13 DEF PollEnds, TypeOK, HoldersHaveClaims, Holding, table, LockState
<1>14. ASSUME NEW d \in Dispatchers, Crash(d) PROVE Typed'
  BY <1>14 DEF Crash, TypeOK, Results, HoldersHaveClaims, Holding, table, LockState
<1>15. ASSUME NEW d \in Dispatchers, NEW r \in Rows, ClaimFails(d, r) PROVE Typed'
  BY <1>15 DEF ClaimFails, TypeOK, HoldersHaveClaims, Holding, table, LockState
<1>16. CASE Tick
  BY <1>16 DEF Tick, TypeOK, HoldersHaveClaims, Holding, table, local, LockState
<1>17. CASE UNCHANGED vars
  BY <1>17 DEF vars, table, local, TypeOK, HoldersHaveClaims, Holding, LockState
<1>. QED
  BY <1>1, <1>2, <1>3, <1>4, <1>5, <1>6, <1>9, <1>10, <1>11, <1>12, <1>13,
     <1>14, <1>15, <1>16, <1>17 DEF Next, Step, Fault

\* Every reachable state is well typed: rows are locked exactly while they are
\* processed, and whoever sends or settles holds a claim.
THEOREM TypeCorrect == Spec => []TypeOK
<1>1. Spec => []Typed
  BY InitTyped, StepTyped, PTL DEF Spec
<1>2. Typed => TypeOK
  BY DEF Typed
<1>. QED BY <1>1, <1>2, PTL
-----------------------------------------------------------------------------
(* One holder.  A claim's fence names its attempt and its lease.  Claims of  *)
(* the same attempt follow each other by takeover, and a takeover happens    *)
(* after the lease it replaces and writes a later one, so every claim but    *)
(* the last is behind the row.                                               *)

ClaimsBehind ==
    \A d \in Dispatchers : Holding(d) =>
        LET c == claim[d]
            e == row[c.row]
        IN  /\ e.status # "absent"
            /\ c.attempt <= e.attempts
            /\ c.attempt = e.attempts /\ e.status = "processing"
                  => c.until <= e.lockedUntil

HolderInv == Typed /\ ClaimsBehind /\ SingleHolder

\* A step that changes no row and starts no claim.
Quiet ==
    /\ row' = row
    /\ \A d \in Dispatchers : Holding(d)' => Holding(d) /\ claim'[d] = claim[d]

\* A step that settles d's row one way or another and drops the claim.
SettlesAs(d, e) ==
    /\ Fence(d)
    /\ row' = [row EXCEPT ![claim[d].row] = e]
    /\ e.attempts = row[claim[d].row].attempts
    /\ e.status \notin {"absent", "processing"}
    /\ DropClaim(d)

LEMMA QuietSteps ==
    ASSUME Typed, NEW d \in Dispatchers,
           \/ HookStarts(d) \/ ListReady(d) \/ Send(d) \/ ClaimLost(d)
           \/ PollEnds(d) \/ Crash(d) \/ SettlementFails(d)
           \/ \E r \in Rows : SkipRow(d, r) \/ ClaimFails(d, r)
    PROVE  Quiet
<1>1. CASE HookStarts(d) \/ ListReady(d)
  BY <1>1 DEF HookStarts, ListReady, Quiet, Holding, table, Typed, TypeOK
<1>2. CASE \E r \in Rows : SkipRow(d, r) \/ ClaimFails(d, r)
  BY <1>2 DEF SkipRow, ClaimFails, Quiet, Holding, table, Typed, TypeOK
<1>3. CASE Send(d)
  BY <1>3 DEF Send, Quiet, Holding, table, Typed, TypeOK
<1>4. CASE ClaimLost(d) \/ SettlementFails(d)
  BY <1>4 DEF ClaimLost, SettlementFails, DropClaim, Quiet, Holding, table, Typed, TypeOK
<1>5. CASE PollEnds(d) \/ Crash(d)
  BY <1>5 DEF PollEnds, Crash, Quiet, Holding, table, Typed, TypeOK
<1>. QED BY <1>1, <1>2, <1>3, <1>4, <1>5

\* What the three settlements write, as far as the fences can tell.
LEMMA SettlingSteps ==
    ASSUME Typed, NEW d \in Dispatchers,
           MarkPublished(d) \/ ScheduleRetry(d) \/ RecordTerminalFailure(d)
    PROVE  \E e \in OutboxRow : SettlesAs(d, e)
<1>. DEFINE r == claim[d].row
<1>1. pc[d] = "settle" /\ Fence(d) /\ DropClaim(d)
  BY DEF MarkPublished, ScheduleRetry, RecordTerminalFailure
<1>2. r \in Rows /\ row[r] \in OutboxRow /\ now \in Nat
  BY <1>1 DEF Typed, TypeOK, HoldersHaveClaims, Holding, Claims
<1>3. CASE MarkPublished(d)
  <2>1. /\ PublishedRow(row[r]).attempts = row[r].attempts
        /\ PublishedRow(row[r]).status = "published"
    BY <1>2 DEF PublishedRow, OutboxRow
  <2>2. SettlesAs(d, PublishedRow(row[r]))
    BY <1>1, <1>2, <1>3, <2>1 DEF MarkPublished, SettlesAs, Typed, TypeOK
  <2>. QED BY <1>2, <2>2, SettledRowType
<1>4. CASE ScheduleRetry(d)
  <2>1. /\ RetryRow(row[r]).attempts = row[r].attempts
        /\ RetryRow(row[r]).status = "pending"
    BY <1>2 DEF RetryRow, OutboxRow
  <2>2. SettlesAs(d, RetryRow(row[r]))
    BY <1>1, <1>2, <1>4, <2>1 DEF ScheduleRetry, SettlesAs, Typed, TypeOK
  <2>. QED BY <1>2, <2>2, SettledRowType
<1>5. CASE RecordTerminalFailure(d)
  <2>1. /\ FailedRow(row[r]).attempts = row[r].attempts
        /\ FailedRow(row[r]).status = "failed"
    BY <1>2 DEF FailedRow, OutboxRow
  <2>2. SettlesAs(d, FailedRow(row[r]))
    BY <1>1, <1>2, <1>5, <2>1 DEF RecordTerminalFailure, SettlesAs, Typed, TypeOK
  <2>. QED BY <1>2, <2>2, SettledRowType
<1>. QED BY <1>3, <1>4, <1>5

LEMMA QuietKeepsHolder ==
    ASSUME HolderInv, Quiet PROVE ClaimsBehind' /\ SingleHolder'
<1>1. \A d \in Dispatchers : Holding(d)' => (Fence(d)' <=> Fence(d))
  BY DEF Quiet, Fence, FenceMatches
<1>2. SingleHolder'
  BY <1>1 DEF HolderInv, SingleHolder, Quiet
<1>3. ClaimsBehind'
  BY DEF HolderInv, ClaimsBehind, Quiet
<1>. QED BY <1>2, <1>3

LEMMA SettlingKeepsHolder ==
    ASSUME HolderInv, NEW d \in Dispatchers, Holding(d),
           NEW e \in OutboxRow, SettlesAs(d, e)
    PROVE  ClaimsBehind' /\ SingleHolder'
<1>. DEFINE r == claim[d].row
<1>1. r \in Rows
  BY DEF HolderInv, Typed, HoldersHaveClaims, Claims
<1>2. row'[r] = e /\ \A s \in Rows \ {r} : row'[s] = row[s]
  BY <1>1 DEF SettlesAs, HolderInv, Typed, TypeOK
<1>3. ASSUME NEW c \in Dispatchers, Holding(c)'
      PROVE  Holding(c) /\ claim'[c] = claim[c] /\ claim[c].row \in Rows
  BY <1>3 DEF SettlesAs, DropClaim, Holding, HolderInv, Typed, TypeOK,
              HoldersHaveClaims, Claims
<1>4. ASSUME NEW c \in Dispatchers, Holding(c)', Fence(c)'
      PROVE  claim[c].row # r /\ Fence(c)
  <2>1. row'[claim[c].row].status = "processing"
    BY <1>3, <1>4 DEF Fence, FenceMatches
  <2>2. claim[c].row # r
    BY <1>2, <2>1 DEF SettlesAs
  <2>3. row'[claim[c].row] = row[claim[c].row]
    BY <1>2, <1>3, <1>4, <2>2
  <2>. QED BY <1>3, <1>4, <2>2, <2>3 DEF Fence, FenceMatches
<1>5. SingleHolder'
  BY <1>3, <1>4 DEF HolderInv, SingleHolder
<1>6. ASSUME NEW c \in Dispatchers, Holding(c)'
      PROVE  /\ row'[claim[c].row].status # "absent"
             /\ claim[c].attempt <= row'[claim[c].row].attempts
             /\ claim[c].attempt = row'[claim[c].row].attempts
                  /\ row'[claim[c].row].status = "processing"
                => claim[c].until <= row'[claim[c].row].lockedUntil
  <2>1. CASE claim[c].row = r
    BY <1>2, <1>3, <1>6, <2>1 DEF SettlesAs, HolderInv, ClaimsBehind
  <2>2. CASE claim[c].row # r
    BY <1>2, <1>3, <1>6, <2>2 DEF HolderInv, ClaimsBehind
  <2>. QED BY <2>1, <2>2
<1>7. ClaimsBehind'
  BY <1>3, <1>6 DEF ClaimsBehind
<1>. QED BY <1>5, <1>7

LEMMA StepHolder == HolderInv /\ [Next]_vars => HolderInv'
<1>. SUFFICES ASSUME HolderInv, [Next]_vars PROVE ClaimsBehind' /\ SingleHolder'
  BY StepTyped DEF HolderInv
<1>. USE DEF HolderInv
<1>1. ASSUME NEW d \in Dispatchers, NEW r \in Rows, Commit(d, r)
      PROVE  ClaimsBehind' /\ SingleHolder'
  <2>1. /\ row[r].status = "absent"
        /\ row' = [row EXCEPT ![r] = [NoRow EXCEPT !.status = "pending",
                                                   !.availableAt = now]]
        /\ pc[d] = "idle" /\ pc' = [pc EXCEPT ![d] = "list"] /\ claim' = claim
    BY <1>1 DEF Commit
  <2>2. ASSUME NEW c \in Dispatchers, Holding(c)'
        PROVE  /\ Holding(c) /\ claim'[c] = claim[c]
               /\ row'[claim[c].row] = row[claim[c].row]
    <3>1. Holding(c) /\ claim'[c] = claim[c]
      BY <2>1, <2>2 DEF Holding, Typed, TypeOK
    <3>2. claim[c].row \in Rows /\ claim[c].row # r
      BY <2>1, <3>1 DEF ClaimsBehind, Typed, HoldersHaveClaims, Claims
    <3>. QED BY <2>1, <3>1, <3>2 DEF Typed, TypeOK
  <2>3. ClaimsBehind'
    BY <2>2 DEF ClaimsBehind
  <2>4. \A c \in Dispatchers : Holding(c)' => (Fence(c)' <=> Fence(c))
    BY <2>2 DEF Fence, FenceMatches
  <2>5. SingleHolder'
    BY <2>2, <2>4 DEF SingleHolder
  <2>. QED BY <2>3, <2>5
<1>2. ASSUME NEW d \in Dispatchers, NEW r \in Rows, ClaimRow(d, r)
      PROVE  ClaimsBehind' /\ SingleHolder'
  <2>. DEFINE e == ClaimedRow(r)
  <2>1. /\ Ready(r) /\ Waiting(r) /\ pc[d] = "poll"
        /\ row' = [row EXCEPT ![r] = e]
        /\ row[r] \in OutboxRow /\ now \in Nat /\ Lease \in Nat /\ Lease # 0
    BY <1>2, BoundsAssumption DEF ClaimRow, Ready, Typed, TypeOK
  <2>2. e \in OutboxRow /\ e.status \in {"processing", "failed"}
    BY <2>1, ClaimedRowType DEF Typed
  <2>3. row'[r] = e /\ \A s \in Rows \ {r} : row'[s] = row[s]
    BY <2>1 DEF Typed, TypeOK
  <2>4. /\ row[r].status = "pending" => e.attempts = row[r].attempts + 1
        /\ row[r].status = "processing" =>
              e.attempts = row[r].attempts /\ e.lockedUntil = now + Lease
    BY <2>1 DEF ClaimedRow, ExhaustedRow, OutboxRow
  <2>5. row[r].status = "processing" => row[r].lockedUntil < e.lockedUntil
    BY <2>1, <2>4 DEF Ready, Deadline, OutboxRow
  \* Whoever else holds a claim on r is behind the new row for good.
  <2>6. ASSUME NEW c \in Dispatchers, c # d, Holding(c)'
        PROVE  /\ Holding(c) /\ claim'[c] = claim[c] /\ claim[c] \in Claims
               /\ claim[c].row = r => ~Fence(c)'
               /\ claim[c].row # r => (Fence(c)' <=> Fence(c))
               /\ row'[claim[c].row].status # "absent"
               /\ claim[c].attempt <= row'[claim[c].row].attempts
               /\ claim[c].attempt = row'[claim[c].row].attempts
                    /\ row'[claim[c].row].status = "processing"
                  => claim[c].until <= row'[claim[c].row].lockedUntil
    <3>1. Holding(c) /\ claim'[c] = claim[c]
      BY <1>2, <2>6 DEF ClaimRow, Holding, Typed, TypeOK
    <3>2. claim[c] \in Claims
      BY <3>1 DEF Typed, HoldersHaveClaims
    <3>3. CASE claim[c].row = r
      <4>1. /\ claim[c].attempt <= row[r].attempts
            /\ claim[c].attempt = row[r].attempts /\ row[r].status = "processing"
                  => claim[c].until <= row[r].lockedUntil
        BY <3>1, <3>3 DEF ClaimsBehind
      <4>2. /\ claim[c].attempt \in Nat /\ claim[c].until \in Nat
            /\ row[r].attempts \in Nat /\ row[r].lockedUntil \in Nat
            /\ e.attempts \in Nat /\ e.lockedUntil \in Nat
        BY <2>1, <2>2, <3>2 DEF Claims, OutboxRow
      <4>3. /\ claim[c].attempt <= e.attempts
            /\ claim[c].attempt = e.attempts => claim[c].until < e.lockedUntil
        BY <2>1, <2>4, <2>5, <4>1, <4>2 DEF Waiting
      <4>4. ~Fence(c)'
        BY <2>3, <3>1, <3>3, <4>2, <4>3 DEF Fence, FenceMatches
      <4>. QED BY <2>2, <2>3, <3>1, <3>2, <3>3, <4>2, <4>3, <4>4
    <3>4. CASE claim[c].row # r
      <4>1. row'[claim[c].row] = row[claim[c].row]
        BY <2>3, <3>2, <3>4 DEF Claims
      <4>2. Fence(c)' <=> Fence(c)
        BY <3>1, <4>1 DEF Fence, FenceMatches
      <4>. QED BY <3>1, <3>2, <3>4, <4>1, <4>2 DEF ClaimsBehind
    <3>. QED BY <3>3, <3>4
  <2>7. Holding(d)' => /\ claim'[d].row = r /\ claim'[d].attempt = e.attempts
                       /\ claim'[d].until = e.lockedUntil
    BY <1>2 DEF ClaimRow, Holding, Typed, TypeOK
  <2>8. ClaimsBehind'
    <3>1. ASSUME NEW c \in Dispatchers, Holding(c)'
          PROVE  /\ row'[claim'[c].row].status # "absent"
                 /\ claim'[c].attempt <= row'[claim'[c].row].attempts
                 /\ claim'[c].attempt = row'[claim'[c].row].attempts
                      /\ row'[claim'[c].row].status = "processing"
                    => claim'[c].until <= row'[claim'[c].row].lockedUntil
      <4>1. CASE c = d
        BY <2>2, <2>3, <2>7, <3>1, <4>1 DEF OutboxRow
      <4>2. CASE c # d
        BY <2>6, <3>1, <4>2
      <4>. QED BY <4>1, <4>2
    <3>. QED BY <3>1 DEF ClaimsBehind
  <2>9. SingleHolder'
    BY <2>6, <2>7 DEF SingleHolder
  <2>. QED BY <2>8, <2>9
<1>3. ASSUME NEW d \in Dispatchers,
             MarkPublished(d) \/ ScheduleRetry(d) \/ RecordTerminalFailure(d)
      PROVE  ClaimsBehind' /\ SingleHolder'
  <2>1. Holding(d)
    BY <1>3 DEF MarkPublished, ScheduleRetry, RecordTerminalFailure, Holding
  <2>. QED BY <1>3, <2>1, SettlingSteps, SettlingKeepsHolder
<1>4. ASSUME NEW d \in Dispatchers,
             \/ HookStarts(d) \/ ListReady(d) \/ Send(d) \/ ClaimLost(d)
             \/ PollEnds(d) \/ Crash(d) \/ SettlementFails(d)
             \/ \E r \in Rows : SkipRow(d, r) \/ ClaimFails(d, r)
      PROVE  ClaimsBehind' /\ SingleHolder'
  <2>1. Quiet
    BY <1>4, QuietSteps
  <2>. QED BY <2>1, QuietKeepsHolder
<1>5. CASE Tick \/ UNCHANGED vars
  <2>1. Quiet
    BY <1>5 DEF Tick, vars, local, Quiet, Holding, table
  <2>. QED BY <2>1, QuietKeepsHolder
<1>. QED
  <2>1. CASE \E d \in Dispatchers : \E r \in Rows : Commit(d, r)
    BY <2>1, <1>1
  <2>2. CASE \E d \in Dispatchers : HookStarts(d)
    BY <2>2, <1>4
  <2>3. CASE \E d \in Dispatchers : Step(d)
    BY <2>3, <1>2, <1>3, <1>4 DEF Step
  <2>4. CASE \E d \in Dispatchers : Fault(d)
    BY <2>4, <1>4 DEF Fault
  <2>. QED BY <2>1, <2>2, <2>3, <2>4, <1>5 DEF Next

\* At most one dispatcher can settle a row, whatever leases run out and
\* whatever claims survive them: the fence of claimOutbox is enough.
THEOREM OneHolder == Spec => []SingleHolder
<1>1. Init => HolderInv
  BY InitTyped DEF Init, HolderInv, ClaimsBehind, SingleHolder, Holding
<1>2. HolderInv => SingleHolder
  BY DEF HolderInv
<1>. QED BY <1>1, <1>2, StepHolder, PTL DEF Spec
-----------------------------------------------------------------------------
(* Settled rows.  A row changes only under a claim or a fence, and both ask  *)
(* for a row that still waits.                                               *)

\* No step changes a published or failed row.
LEMMA StepSettled ==
    ASSUME Typed, [Next]_vars, NEW q \in Rows, row[q].status \in Settled
    PROVE  row'[q] = row[q]
<1>1. ASSUME NEW d \in Dispatchers, NEW r \in Rows, Commit(d, r) \/ ClaimRow(d, r)
      PROVE  row'[q] = row[q]
  <2>1. q # r
    BY <1>1 DEF Commit, ClaimRow, Ready, Waiting, Settled
  <2>. QED BY <1>1, <2>1 DEF Commit, ClaimRow, Typed, TypeOK
<1>2. ASSUME NEW d \in Dispatchers,
             MarkPublished(d) \/ ScheduleRetry(d) \/ RecordTerminalFailure(d)
      PROVE  row'[q] = row[q]
  <2>1. q # claim[d].row
    BY <1>2 DEF MarkPublished, ScheduleRetry, RecordTerminalFailure, Fence,
                FenceMatches, Settled
  <2>. QED
    BY <1>2, <2>1 DEF MarkPublished, ScheduleRetry, RecordTerminalFailure, Typed, TypeOK
<1>3. ASSUME row' = row PROVE row'[q] = row[q]
  BY <1>3
<1>4. ASSUME NEW d \in Dispatchers,
             \/ HookStarts(d) \/ ListReady(d) \/ Send(d) \/ ClaimLost(d)
             \/ PollEnds(d) \/ Crash(d) \/ SettlementFails(d)
             \/ \E r \in Rows : SkipRow(d, r) \/ ClaimFails(d, r)
      PROVE  row'[q] = row[q]
  BY <1>3, <1>4, QuietSteps DEF Quiet
<1>5. CASE Tick \/ UNCHANGED vars
  BY <1>5 DEF Tick, vars, table
<1>. QED
  <2>1. CASE \E d \in Dispatchers : \E r \in Rows : Commit(d, r)
    BY <2>1, <1>1
  <2>2. CASE \E d \in Dispatchers : HookStarts(d)
    BY <2>2, <1>4
  <2>3. CASE \E d \in Dispatchers : Step(d)
    BY <2>3, <1>1, <1>2, <1>4 DEF Step
  <2>4. CASE \E d \in Dispatchers : Fault(d)
    BY <2>4, <1>4 DEF Fault
  <2>. QED BY <2>1, <2>2, <2>3, <2>4, <1>5 DEF Next

\* A published or failed row never changes again, whatever claims outlive it.
THEOREM SettledStaysPut == Spec => SettledIsFinal
<1>1. Typed /\ [Next]_vars
        => [\A r \in Rows : row[r].status \in Settled => row'[r] = row[r]]_vars
  BY StepSettled
<1>2. Spec => []Typed
  BY InitTyped, StepTyped, PTL DEF Spec
<1>. QED BY <1>1, <1>2, PTL DEF Spec, SettledIsFinal
-----------------------------------------------------------------------------
(* The handoff.  Batch ids are stored once and never replaced, so what a     *)
(* claim carries is what the table holds, and what the queue holds was sent  *)
(* under the id in the table.  An acknowledged send covers every channel.    *)

ClaimsCarryStored ==
    \A d \in Dispatchers : Holding(d) =>
        /\ claim[d].batch = batch[claim[d].row]
        /\ \A c \in Channels : claim[d].batch[c] # 0

QueuedUnderStored ==
    \A q \in queue : q[3] = batch[q[1]][q[2]] /\ q[3] # 0

AckedIsQueued ==
    \A d \in Dispatchers : pc[d] = "settle" /\ result[d] = "acked" =>
        \A c \in Channels : <<claim[d].row, c, claim[d].batch[c]>> \in queue

HandoffInv == /\ Typed
              /\ ClaimsCarryStored
              /\ QueuedUnderStored
              /\ AckedIsQueued
              /\ PublishedIsQueued

\* A step that stores and sends nothing and publishes no row.
Calm ==
    /\ batch' = batch /\ queue' = queue
    /\ \A d \in Dispatchers : Holding(d)' =>
          /\ Holding(d) /\ claim'[d] = claim[d]
          /\ pc'[d] = "settle" /\ result'[d] = "acked"
                => pc[d] = "settle" /\ result[d] = "acked"
    /\ \A r \in Rows : row'[r].status = "published" => row[r].status = "published"

LEMMA CalmSteps ==
    ASSUME Typed, NEW d \in Dispatchers,
           \/ HookStarts(d) \/ ListReady(d) \/ ClaimLost(d) \/ PollEnds(d)
           \/ Crash(d) \/ SettlementFails(d)
           \/ ScheduleRetry(d) \/ RecordTerminalFailure(d)
           \/ \E r \in Rows : Commit(d, r) \/ SkipRow(d, r) \/ ClaimFails(d, r)
    PROVE  Calm
<1>. USE DEF Calm, Holding, Typed, TypeOK
<1>1. CASE HookStarts(d) \/ ListReady(d) \/ PollEnds(d) \/ Crash(d)
  BY <1>1 DEF HookStarts, ListReady, PollEnds, Crash, table
<1>2. CASE ClaimLost(d) \/ SettlementFails(d)
  BY <1>2 DEF ClaimLost, SettlementFails, DropClaim, table
<1>3. CASE ScheduleRetry(d) \/ RecordTerminalFailure(d)
  <2>1. /\ batch' = batch /\ queue' = queue /\ DropClaim(d)
        /\ claim[d].row \in Rows /\ row[claim[d].row] \in OutboxRow
    BY <1>3 DEF ScheduleRetry, RecordTerminalFailure, HoldersHaveClaims, Claims
  <2>2. /\ RetryRow(row[claim[d].row]).status = "pending"
        /\ FailedRow(row[claim[d].row]).status = "failed"
    BY <2>1 DEF RetryRow, FailedRow, OutboxRow
  <2>3. \A r \in Rows : row'[r].status = "published" => row[r].status = "published"
    BY <1>3, <2>1, <2>2 DEF ScheduleRetry, RecordTerminalFailure
  <2>. QED BY <2>1, <2>3 DEF DropClaim
<1>4. CASE \E r \in Rows : SkipRow(d, r) \/ ClaimFails(d, r)
  BY <1>4 DEF SkipRow, ClaimFails, table
<1>5. ASSUME NEW r \in Rows, Commit(d, r) PROVE Calm
  <2>1. [NoRow EXCEPT !.status = "pending", !.availableAt = now].status = "pending"
    BY DEF NoRow
  <2>. QED BY <1>5, <2>1 DEF Commit
<1>. QED BY <1>1, <1>2, <1>3, <1>4, <1>5

LEMMA CalmKeepsHandoff ==
    ASSUME HandoffInv, Calm
    PROVE  /\ ClaimsCarryStored' /\ QueuedUnderStored'
           /\ AckedIsQueued' /\ PublishedIsQueued'
<1>. USE DEF HandoffInv, Calm
<1>1. ClaimsCarryStored'
  BY DEF ClaimsCarryStored
<1>2. QueuedUnderStored'
  BY DEF QueuedUnderStored
<1>3. AckedIsQueued'
  BY DEF AckedIsQueued, Holding
<1>4. PublishedIsQueued'
  BY DEF PublishedIsQueued
<1>. QED BY <1>1, <1>2, <1>3, <1>4

\* A claim fills the empty ids of its row and leaves every stored one alone.
LEMMA ClaimKeepsHandoff ==
    ASSUME HandoffInv, NEW d \in Dispatchers, NEW r \in Rows, ClaimRow(d, r)
    PROVE  /\ ClaimsCarryStored' /\ QueuedUnderStored'
           /\ AckedIsQueued' /\ PublishedIsQueued'
<1>. USE DEF HandoffInv
<1>1. /\ Ready(r) /\ Waiting(r) /\ pc[d] = "poll" /\ row[r] \in OutboxRow
      /\ row' = [row EXCEPT ![r] = ClaimedRow(r)]
      /\ queue' = queue /\ result' = result
  BY DEF ClaimRow, Ready, Typed, TypeOK
<1>2. /\ ClaimedRow(r).status \in {"processing", "failed"}
      /\ \A s \in Rows : row'[s].status = "published"
                            => s # r /\ row[s].status = "published"
  BY <1>1, ClaimedRowType DEF Typed, TypeOK
<1>3. CASE ClaimedRow(r).status = "failed"
  <2>1. batch' = batch /\ pc' = pc /\ claim' = claim
    BY <1>3 DEF ClaimRow
  <2>2. Calm
    BY <1>1, <1>2, <2>1 DEF Calm, Holding
  <2>. QED BY <2>2, CalmKeepsHandoff
<1>4. CASE ClaimedRow(r).status # "failed"
  <2>1. /\ batch' = [batch EXCEPT ![r] = StableBatches(r)]
        /\ pc' = [pc EXCEPT ![d] = "send"]
        /\ claim' = [claim EXCEPT ![d] = [row |-> r, attempt |-> ClaimedRow(r).attempts,
                                          until |-> ClaimedRow(r).lockedUntil,
                                          batch |-> StableBatches(r)]]
    BY <1>4 DEF ClaimRow
  <2>2. /\ \A s \in Rows : s # r => batch'[s] = batch[s]
        /\ batch'[r] = StableBatches(r)
        /\ \A c \in Channels : /\ batch'[r][c] # 0
                               /\ batch[r][c] # 0 => batch'[r][c] = batch[r][c]
    BY <2>1 DEF StableBatches, Typed, TypeOK
  <2>3. /\ claim'[d].row = r /\ claim'[d].batch = batch'[r] /\ pc'[d] = "send"
        /\ \A e \in Dispatchers : e # d => claim'[e] = claim[e] /\ pc'[e] = pc[e]
    BY <2>1, <2>2 DEF Typed, TypeOK
  <2>4. \A e \in Dispatchers : Holding(e) =>
           claim[e] \in Claims /\ batch[claim[e].row] \in [Channels -> Nat]
    BY DEF Typed, TypeOK, HoldersHaveClaims, Claims
  <2>5. ASSUME NEW e \in Dispatchers, e # d, Holding(e), claim[e].row = r
        PROVE  claim[e].batch = batch'[r]
    <3>1. /\ claim[e].batch = batch[r] /\ batch[r] \in [Channels -> Nat]
          /\ \A c \in Channels : batch[r][c] # 0
      BY <2>5, <2>4 DEF ClaimsCarryStored
    <3>2. batch'[r] \in [Channels -> Nat]
      BY <2>2, StableBatchesType DEF Typed
    <3>. QED BY <2>2, <3>1, <3>2
  <2>6. ClaimsCarryStored'
    <3>1. ASSUME NEW e \in Dispatchers, Holding(e)'
          PROVE  /\ claim'[e].batch = batch'[claim'[e].row]
                 /\ \A c \in Channels : claim'[e].batch[c] # 0
      <4>1. CASE e = d
        BY <2>2, <2>3, <4>1
      <4>2. CASE e # d
        <5>1. Holding(e) /\ claim'[e] = claim[e] /\ claim[e].row \in Rows
          BY <3>1, <4>2, <2>3, <2>4 DEF Holding, Claims
        <5>. QED BY <5>1, <4>2, <2>2, <2>5 DEF ClaimsCarryStored
      <4>. QED BY <4>1, <4>2
    <3>. QED BY <3>1 DEF ClaimsCarryStored
  <2>7. QueuedUnderStored'
    BY <1>1, <2>2 DEF QueuedUnderStored, Typed, TypeOK
  <2>8. AckedIsQueued'
    BY <1>1, <2>3 DEF AckedIsQueued
  <2>9. PublishedIsQueued'
    BY <1>1, <1>2, <2>2 DEF PublishedIsQueued
  <2>. QED BY <2>6, <2>7, <2>8, <2>9
<1>. QED BY <1>3, <1>4

\* A send puts stored ids in the queue, and all of them if it is acknowledged.
LEMMA SendKeepsHandoff ==
    ASSUME HandoffInv, NEW d \in Dispatchers, Send(d)
    PROVE  /\ ClaimsCarryStored' /\ QueuedUnderStored'
           /\ AckedIsQueued' /\ PublishedIsQueued'
<1>. USE DEF HandoffInv
<1>1. PICK o \in SendOutcomes :
        /\ queue' = queue \cup {<<claim[d].row, c, claim[d].batch[c]>> : c \in o[1]}
        /\ result' = [result EXCEPT ![d] = o[2]]
  BY DEF Send
<1>2. o[1] \subseteq Channels /\ (o[2] = "acked" => o[1] = Channels)
  BY DEF SendOutcomes
<1>3. /\ Holding(d) /\ claim[d] \in Claims
      /\ pc' = [pc EXCEPT ![d] = "settle"] /\ row' = row /\ batch' = batch
      /\ claim' = claim /\ queue \subseteq queue'
  BY <1>1 DEF Send, Holding, table, Typed, HoldersHaveClaims
<1>4. ClaimsCarryStored'
  BY <1>3 DEF ClaimsCarryStored, Holding, Typed, TypeOK
<1>5. QueuedUnderStored'
  BY <1>1, <1>2, <1>3 DEF QueuedUnderStored, ClaimsCarryStored
<1>6. AckedIsQueued'
  BY <1>1, <1>2, <1>3 DEF AckedIsQueued, Typed, TypeOK
<1>7. PublishedIsQueued'
  BY <1>3 DEF PublishedIsQueued
<1>. QED BY <1>4, <1>5, <1>6, <1>7

\* The row is published on the strength of the acknowledged send.
LEMMA PublishKeepsHandoff ==
    ASSUME HandoffInv, NEW d \in Dispatchers, MarkPublished(d)
    PROVE  /\ ClaimsCarryStored' /\ QueuedUnderStored'
           /\ AckedIsQueued' /\ PublishedIsQueued'
<1>. USE DEF HandoffInv
<1>1. /\ pc[d] = "settle" /\ result[d] = "acked" /\ DropClaim(d)
      /\ Holding(d) /\ claim[d].row \in Rows
      /\ row' = [row EXCEPT ![claim[d].row] = PublishedRow(@)]
      /\ batch' = batch /\ queue' = queue
  BY DEF MarkPublished, Holding, Typed, HoldersHaveClaims, Claims
<1>2. \A e \in Dispatchers : Holding(e)' =>
        e # d /\ Holding(e) /\ claim'[e] = claim[e] /\ pc'[e] = pc[e] /\ result'[e] = result[e]
  BY <1>1 DEF DropClaim, Holding, Typed, TypeOK
<1>3. ClaimsCarryStored' /\ QueuedUnderStored' /\ AckedIsQueued'
  BY <1>1, <1>2 DEF ClaimsCarryStored, QueuedUnderStored, AckedIsQueued, Holding
<1>4. PublishedIsQueued'
  BY <1>1 DEF PublishedIsQueued, ClaimsCarryStored, AckedIsQueued, Typed, TypeOK
<1>. QED BY <1>3, <1>4

LEMMA StepHandoff == HandoffInv /\ [Next]_vars => HandoffInv'
<1>. SUFFICES ASSUME HandoffInv, [Next]_vars
              PROVE  /\ ClaimsCarryStored' /\ QueuedUnderStored'
                     /\ AckedIsQueued' /\ PublishedIsQueued'
  BY StepTyped DEF HandoffInv
<1>0. Typed
  BY DEF HandoffInv
<1>1. CASE \E d \in Dispatchers : \E r \in Rows : Commit(d, r)
  BY <1>0, <1>1, CalmSteps, CalmKeepsHandoff
<1>2. CASE \E d \in Dispatchers : HookStarts(d)
  BY <1>0, <1>2, CalmSteps, CalmKeepsHandoff
<1>3. ASSUME NEW d \in Dispatchers, Step(d)
      PROVE  /\ ClaimsCarryStored' /\ QueuedUnderStored'
             /\ AckedIsQueued' /\ PublishedIsQueued'
  BY <1>0, <1>3, CalmSteps, CalmKeepsHandoff, ClaimKeepsHandoff, SendKeepsHandoff,
     PublishKeepsHandoff DEF Step
<1>4. CASE \E d \in Dispatchers : Fault(d)
  BY <1>0, <1>4, CalmSteps, CalmKeepsHandoff DEF Fault
<1>5. CASE Tick \/ UNCHANGED vars
  <2>1. Calm
    BY <1>5 DEF Tick, vars, local, table, Calm, Holding
  <2>. QED BY <2>1, CalmKeepsHandoff
<1>. QED BY <1>1, <1>2, <1>3, <1>4, <1>5 DEF Next

LEMMA InitHandoff == Init => HandoffInv
BY InitTyped DEF Init, HandoffInv, ClaimsCarryStored, QueuedUnderStored, AckedIsQueued,
                 PublishedIsQueued, Holding, NoRow

\* A row is published only when SQS holds the stored batch of every channel.
THEOREM PublishedMeansQueued == Spec => []PublishedIsQueued
<1>1. Spec => []HandoffInv
  BY InitHandoff, StepHandoff, PTL DEF Spec
<1>2. HandoffInv => PublishedIsQueued
  BY DEF HandoffInv
<1>. QED BY <1>1, <1>2, PTL

\* SQS never sees two batch ids for one channel of a row.
THEOREM BatchIdsAreStable == Spec => []OneBatchPerChannel
<1>1. Spec => []HandoffInv
  BY InitHandoff, StepHandoff, PTL DEF Spec
<1>2. HandoffInv => OneBatchPerChannel
  BY DEF HandoffInv, QueuedUnderStored, OneBatchPerChannel
<1>. QED BY <1>1, <1>2, PTL
-----------------------------------------------------------------------------
(* The refinement.  Each step of a dispatcher is one step of DurableHandoff  *)
(* about one row, or leaves every phase and every handed-off channel alone.  *)

RefinementInv == HolderInv /\ HandoffInv

\* A phase is read off the status.
LEMMA PhaseOfStatus ==
    ASSUME NEW r \in Rows
    PROVE  /\ row[r].status = "absent" => Phase(r) = "absent"
           /\ Waiting(r) => Phase(r) = "retained"
           /\ row[r].status = "published" => Phase(r) = "handed-off"
           /\ row[r].status = "failed" => Phase(r) = "abandoned"
           /\ (row[r].status)' = "absent" => Phase(r)' = "absent"
           /\ Waiting(r)' => Phase(r)' = "retained"
           /\ (row[r].status)' = "published" => Phase(r)' = "handed-off"
           /\ (row[r].status)' = "failed" => Phase(r)' = "abandoned"
BY DEF Phase, Waiting

\* Rows and batches untouched, nothing sent: nothing abstract happens.
LEMMA StutterMaps ==
    ASSUME \A r \in Rows : Phase(r)' = Phase(r) /\ Reached(r)' = Reached(r)
    PROVE  UNCHANGED Handoff!vars
BY DEF Handoff!vars

\* The state function of one row follows its row, its batches and the queue.
LEMMA RowFixesAbstract ==
    ASSUME NEW r \in Rows, row'[r] = row[r]
    PROVE  Phase(r)' = Phase(r)
BY DEF Phase, Waiting

LEMMA CommitMaps ==
    ASSUME RefinementInv, NEW d \in Dispatchers, NEW r \in Rows, Commit(d, r)
    PROVE  Handoff!Retain(r)
<1>. USE DEF RefinementInv, HolderInv, Typed, TypeOK
<1>1. /\ row[r].status = "absent" /\ batch' = batch /\ queue' = queue
      /\ (row[r].status)' = "pending"
      /\ \A s \in Rows : s # r => row'[s] = row[s]
  BY DEF Commit, NoRow
<1>2. Phase(r) = "absent" /\ Phase(r)' = "retained"
  BY <1>1, PhaseOfStatus DEF Waiting
<1>3. \A s \in Rows : (s # r => Phase(s)' = Phase(s)) /\ Reached(s)' = Reached(s)
  BY <1>1, RowFixesAbstract DEF Reached
<1>. QED BY <1>2, <1>3 DEF Handoff!Retain

LEMMA QuietMaps ==
    ASSUME Quiet, batch' = batch, queue' = queue
    PROVE  UNCHANGED Handoff!vars
<1>1. \A r \in Rows : Phase(r)' = Phase(r) /\ Reached(r)' = Reached(r)
  BY RowFixesAbstract DEF Quiet, Reached
<1>. QED BY <1>1, StutterMaps

\* New ids stand for nothing that was sent before.
LEMMA ClaimMaps ==
    ASSUME RefinementInv, NEW d \in Dispatchers, NEW r \in Rows, ClaimRow(d, r)
    PROVE  Handoff!Abandon(r) \/ UNCHANGED Handoff!vars
<1>. USE DEF RefinementInv, HolderInv, Typed, TypeOK
<1>1. /\ Waiting(r) /\ queue' = queue
      /\ (row[r].status)' = ClaimedRow(r).status
      /\ ClaimedRow(r).status \in {"processing", "failed"}
      /\ \A s \in Rows : s # r => row'[s] = row[s]
  BY ClaimedRowType DEF ClaimRow, Ready
<1>2. \A s \in Rows : s # r => Phase(s)' = Phase(s)
  BY <1>1, RowFixesAbstract
<1>3. Phase(r) = "retained"
  BY <1>1, PhaseOfStatus
<1>4. \A s \in Rows : Reached(s)' = Reached(s)
  <2>1. CASE ClaimedRow(r).status = "failed"
    BY <1>1, <2>1 DEF ClaimRow, Reached
  <2>2. CASE ClaimedRow(r).status # "failed"
    <3>1. batch' = [batch EXCEPT ![r] = StableBatches(r)]
      BY <2>2 DEF ClaimRow
    <3>2. \A s \in Rows, c \in Channels :
            /\ batch[s][c] \in Nat /\ batch'[s][c] \in Nat
            /\ batch'[s][c] = batch[s][c] \/ batch[s][c] = 0
      BY <3>1, StableBatchesType DEF StableBatches
    <3>3. \A s \in Rows, c \in Channels, n \in Nat :
            <<s, c, n>> \in queue => n = batch[s][c] /\ n # 0
      BY DEF HandoffInv, QueuedUnderStored
    <3>4. \A s \in Rows, c \in Channels :
            <<s, c, batch'[s][c]>> \in queue <=> <<s, c, batch[s][c]>> \in queue
      BY <3>2, <3>3
    <3>. QED BY <1>1, <3>4 DEF Reached
  <2>. QED BY <2>1, <2>2
<1>5. CASE ClaimedRow(r).status = "failed"
  <2>1. Phase(r)' = "abandoned"
    BY <1>1, <1>5, PhaseOfStatus
  <2>. QED BY <1>2, <1>3, <1>4, <2>1 DEF Handoff!Abandon
<1>6. CASE ClaimedRow(r).status = "processing"
  <2>1. Phase(r)' = "retained"
    BY <1>1, <1>6, PhaseOfStatus DEF Waiting
  <2>. QED BY <1>2, <1>3, <1>4, <2>1, StutterMaps
<1>. QED BY <1>1, <1>5, <1>6

LEMMA SendMaps ==
    ASSUME RefinementInv, NEW d \in Dispatchers, Send(d)
    PROVE  \E r \in Rows : Handoff!Enqueue(r)
<1>0. Holding(d) /\ claim[d] \in Claims
  BY DEF Send, Holding, RefinementInv, HolderInv, Typed, HoldersHaveClaims
<1>. PICK r \in Rows : r = claim[d].row
  BY <1>0 DEF Claims
<1>1. PICK o \in SendOutcomes :
        queue' = queue \cup {<<claim[d].row, c, claim[d].batch[c]>> : c \in o[1]}
  BY DEF Send
<1>2. o[1] \in SUBSET Channels
  BY DEF SendOutcomes
<1>3. /\ row' = row /\ batch' = batch
      /\ row[r].status \in Statuses \ {"absent"}
      /\ claim[d].batch = batch[r]
  BY <1>0 DEF Send, table, RefinementInv, HolderInv, Typed, TypeOK, ClaimsBehind,
              HandoffInv, ClaimsCarryStored, OutboxRow
<1>4. /\ Reached(r)' = Reached(r) \cup o[1]
      /\ \A s \in Rows : s # r => Reached(s)' = Reached(s)
  BY <1>1, <1>2, <1>3 DEF Reached
<1>5. Phase(r) # "absent" /\ \A s \in Rows : Phase(s)' = Phase(s)
  BY <1>3, PhaseOfStatus, RowFixesAbstract DEF Statuses, Waiting
<1>6. Handoff!Enqueue(r)
  BY <1>2, <1>3, <1>4, <1>5 DEF Handoff!Enqueue
<1>. QED BY <1>3, <1>6

LEMMA SettleMaps ==
    ASSUME RefinementInv, NEW d \in Dispatchers,
           MarkPublished(d) \/ ScheduleRetry(d) \/ RecordTerminalFailure(d)
    PROVE  \/ \E r \in Rows : Handoff!HandOff(r) \/ Handoff!Abandon(r)
           \/ UNCHANGED Handoff!vars
<1>. USE DEF RefinementInv, HolderInv, Typed, TypeOK
<1>0. pc[d] = "settle" /\ Fence(d) /\ Holding(d) /\ claim[d] \in Claims
  BY DEF MarkPublished, ScheduleRetry, RecordTerminalFailure, Holding, HoldersHaveClaims
<1>. PICK r \in Rows : r = claim[d].row
  BY <1>0 DEF Claims
<1>1. /\ row[r] \in OutboxRow
      /\ batch' = batch /\ queue' = queue
      /\ \A s \in Rows : s # r => row'[s] = row[s]
  BY DEF MarkPublished, ScheduleRetry, RecordTerminalFailure
<1>2. \A s \in Rows : (s # r => Phase(s)' = Phase(s)) /\ Reached(s)' = Reached(s)
  BY <1>1, RowFixesAbstract DEF Reached
<1>3. Phase(r) = "retained"
  BY <1>0, PhaseOfStatus DEF Fence, FenceMatches, Waiting
<1>4. CASE MarkPublished(d)
  <2>1. (row[r].status)' = "published"
    BY <1>1, <1>4 DEF MarkPublished, PublishedRow, OutboxRow
  <2>2. Phase(r)' = "handed-off"
    BY <1>1, <2>1, PhaseOfStatus
  <2>3. Reached(r) = Channels
    BY <1>0, <1>4 DEF MarkPublished, HandoffInv, AckedIsQueued, ClaimsCarryStored, Reached
  <2>4. Handoff!HandOff(r)
    BY <1>1, <1>2, <1>3, <2>2, <2>3 DEF Handoff!HandOff
  <2>. QED BY <1>1, <2>4
<1>5. CASE ScheduleRetry(d)
  <2>1. (row[r].status)' = "pending"
    BY <1>1, <1>5 DEF ScheduleRetry, RetryRow, OutboxRow
  <2>2. Phase(r)' = "retained"
    BY <1>1, <2>1, PhaseOfStatus DEF Waiting
  <2>. QED BY <1>2, <1>3, <2>2, StutterMaps
<1>6. CASE RecordTerminalFailure(d)
  <2>1. (row[r].status)' = "failed"
    BY <1>1, <1>6 DEF RecordTerminalFailure, FailedRow, OutboxRow
  <2>2. Phase(r)' = "abandoned"
    BY <1>1, <2>1, PhaseOfStatus
  <2>3. Handoff!Abandon(r)
    BY <1>1, <1>2, <1>3, <2>2 DEF Handoff!Abandon
  <2>. QED BY <1>1, <2>3
<1>. QED BY <1>4, <1>5, <1>6

\* The steps that touch neither rows nor queue.
LEMMA QuietStepsMap ==
    ASSUME RefinementInv, NEW d \in Dispatchers,
           \/ HookStarts(d) \/ ListReady(d) \/ ClaimLost(d) \/ PollEnds(d)
           \/ Crash(d) \/ SettlementFails(d)
           \/ \E r \in Rows : SkipRow(d, r) \/ ClaimFails(d, r)
    PROVE  UNCHANGED Handoff!vars
<1>1. Quiet
  BY QuietSteps DEF RefinementInv, HolderInv
<1>2. Calm
  BY CalmSteps DEF RefinementInv, HolderInv
<1>. QED BY <1>1, <1>2, QuietMaps DEF Calm

LEMMA StepMaps ==
    ASSUME RefinementInv, [Next]_vars
    PROVE  [Handoff!Next]_(Handoff!vars)
<1>1. CASE \E d \in Dispatchers : \E r \in Rows : Commit(d, r)
  BY <1>1, CommitMaps DEF Handoff!Next
<1>2. CASE \E d \in Dispatchers : HookStarts(d)
  BY <1>2, QuietStepsMap
<1>3. ASSUME NEW d \in Dispatchers, Step(d)
      PROVE  Handoff!Next \/ UNCHANGED Handoff!vars
  BY <1>3, QuietStepsMap, ClaimMaps, SendMaps, SettleMaps DEF Step, Handoff!Next
<1>4. CASE \E d \in Dispatchers : Fault(d)
  BY <1>4, QuietStepsMap DEF Fault
<1>5. CASE Tick \/ UNCHANGED vars
  BY <1>5, QuietMaps DEF Tick, vars, local, table, Quiet, Holding
<1>. QED BY <1>1, <1>2, <1>3, <1>4, <1>5 DEF Next

LEMMA InitMaps == Init => Handoff!Init
<1>. SUFFICES ASSUME Init PROVE Handoff!Init
  OBVIOUS
<1>1. \A r \in Rows : Phase(r) = "absent" /\ Reached(r) = {}
  BY PhaseOfStatus DEF Init, NoRow, Reached
<1>. QED BY <1>1 DEF Handoff!Init

\* The dispatchers keep the promise of DurableHandoff: a retained notification
\* stays retained until every channel's batch is in the queue or it is given
\* up, and neither verdict is ever taken back.
THEOREM DispatchersKeepPromise == Spec => KeepsHandoffPromise
<1>1. Init => RefinementInv
  BY InitHandoff, InitTyped DEF RefinementInv, Init, HolderInv, ClaimsBehind,
                                SingleHolder, Holding
<1>2. RefinementInv /\ [Next]_vars => RefinementInv'
  BY StepHolder, StepHandoff DEF RefinementInv
<1>3. RefinementInv /\ [Next]_vars => [Handoff!Next]_(Handoff!vars)
  BY StepMaps
<1>. QED
  BY <1>1, <1>2, <1>3, InitMaps, PTL DEF Spec, KeepsHandoffPromise, Handoff!Spec
-----------------------------------------------------------------------------
(* The retry budget.  An attempt is opened by the claim of a pending row and *)
(* closed by a recorded failure or by success.  The fence makes the row's    *)
(* attempt the one that failed, so a retry always leaves an attempt over.    *)

\* What the budget says of one row; a row not yet committed has spent nothing.
InBudget(e, n) ==
    /\ e.attempts = n + (IF e.status \in {"processing", "published"} THEN 1 ELSE 0)
    /\ e.attempts <= MaxAttempts
    /\ e.status = "pending" => e.attempts < MaxAttempts
    /\ e.status = "absent" => e.attempts = 0

BudgetInv == Typed /\ \A r \in Rows : InBudget(row[r], failures[r])

LEMMA StepBudget == BudgetInv /\ [Next]_vars => BudgetInv'
<1>. SUFFICES ASSUME BudgetInv, [Next]_vars
              PROVE  \A s \in Rows : InBudget(row'[s], failures'[s])
  BY StepTyped DEF BudgetInv
<1>. USE DEF BudgetInv, Typed, TypeOK
<1>1. /\ MaxAttempts \in Nat \ {0}
      /\ \A r \in Rows : row[r] \in OutboxRow /\ failures[r] \in Nat
  BY BoundsAssumption
<1>2. ASSUME row' = row, failures' = failures
      PROVE  \A s \in Rows : InBudget(row'[s], failures'[s])
  BY <1>1, <1>2
<1>3. ASSUME NEW d \in Dispatchers, NEW r \in Rows, Commit(d, r)
      PROVE  \A s \in Rows : InBudget(row'[s], failures'[s])
  <2>1. /\ row[r].status = "absent" /\ failures' = failures
        /\ row' = [row EXCEPT ![r] = [NoRow EXCEPT !.status = "pending",
                                                   !.availableAt = now]]
    BY <1>3 DEF Commit
  <2>2. failures[r] = 0
    BY <1>1, <2>1 DEF InBudget
  <2>3. InBudget([NoRow EXCEPT !.status = "pending", !.availableAt = now], 0)
    BY <1>1 DEF NoRow, InBudget
  <2>. QED BY <1>1, <2>1, <2>2, <2>3
<1>4. ASSUME NEW d \in Dispatchers, NEW r \in Rows, ClaimRow(d, r)
      PROVE  \A s \in Rows : InBudget(row'[s], failures'[s])
  <2>1. /\ Waiting(r) /\ row' = [row EXCEPT ![r] = ClaimedRow(r)]
        /\ failures' = failures
    BY <1>4 DEF ClaimRow, Ready
  <2>2. InBudget(ClaimedRow(r), failures[r])
    BY <1>1, <2>1 DEF InBudget, ClaimedRow, ExhaustedRow, Waiting, OutboxRow
  <2>. QED BY <1>1, <2>1, <2>2
<1>5. ASSUME NEW d \in Dispatchers,
             MarkPublished(d) \/ ScheduleRetry(d) \/ RecordTerminalFailure(d)
      PROVE  \A s \in Rows : InBudget(row'[s], failures'[s])
  <2>1. Fence(d) /\ Holding(d) /\ claim[d] \in Claims
    BY <1>5 DEF MarkPublished, ScheduleRetry, RecordTerminalFailure, Holding,
                HoldersHaveClaims
  <2>. PICK r \in Rows : r = claim[d].row
    BY <2>1 DEF Claims
  <2>2. row[r].status = "processing" /\ row[r].attempts = claim[d].attempt
    BY <2>1 DEF Fence, FenceMatches
  <2>3. \A s \in Rows : s # r => row'[s] = row[s] /\ failures'[s] = failures[s]
    BY <1>5 DEF MarkPublished, ScheduleRetry, RecordTerminalFailure
  <2>4. CASE MarkPublished(d)
    <3>1. InBudget(row'[r], failures'[r])
      BY <1>1, <2>2, <2>4 DEF MarkPublished, PublishedRow, InBudget, OutboxRow
    <3>. QED BY <1>1, <2>3, <3>1
  <2>5. CASE ScheduleRetry(d)
    <3>1. /\ row'[r].status = "pending" /\ row'[r].attempts = row[r].attempts
          /\ failures'[r] = failures[r] + 1 /\ row[r].attempts < MaxAttempts
      BY <1>1, <2>2, <2>5 DEF ScheduleRetry, RetryRow, RetriesLeft, OutboxRow
    <3>2. InBudget(row'[r], failures'[r])
      BY <1>1, <2>2, <3>1 DEF InBudget, OutboxRow
    <3>. QED BY <1>1, <2>3, <3>2
  <2>6. CASE RecordTerminalFailure(d)
    <3>1. /\ row'[r].status = "failed" /\ row'[r].attempts = row[r].attempts
          /\ failures'[r] = failures[r] + 1
      BY <1>1, <2>6 DEF RecordTerminalFailure, FailedRow, OutboxRow
    <3>2. InBudget(row'[r], failures'[r])
      BY <1>1, <2>2, <3>1 DEF InBudget, OutboxRow
    <3>. QED BY <1>1, <2>3, <3>2
  <2>. QED BY <1>5, <2>4, <2>5, <2>6
<1>6. ASSUME NEW d \in Dispatchers,
             \/ HookStarts(d) \/ ListReady(d) \/ Send(d) \/ ClaimLost(d)
             \/ PollEnds(d) \/ Crash(d) \/ SettlementFails(d)
             \/ \E r \in Rows : SkipRow(d, r) \/ ClaimFails(d, r)
      PROVE  \A s \in Rows : InBudget(row'[s], failures'[s])
  BY <1>2, <1>6 DEF HookStarts, ListReady, Send, ClaimLost, PollEnds, Crash,
                    SettlementFails, SkipRow, ClaimFails, table
<1>7. CASE Tick \/ UNCHANGED vars
  BY <1>2, <1>7 DEF Tick, vars, table
<1>. QED
  <2>1. CASE \E d \in Dispatchers : Step(d)
    BY <2>1, <1>4, <1>5, <1>6 DEF Step
  <2>2. CASE \E d \in Dispatchers : Fault(d)
    BY <2>2, <1>6 DEF Fault
  <2>. QED BY <2>1, <2>2, <1>3, <1>6, <1>7 DEF Next

\* An attempt is spent by a recorded queue failure and by nothing else, the
\* budget is never exceeded, and no row waits with an empty one.
THEOREM BudgetIsKept == Spec => [](BudgetSpentByFailures /\ RetryBudget)
<1>1. Init => BudgetInv
  BY InitTyped, BoundsAssumption DEF Init, BudgetInv, InBudget, NoRow
<1>2. BudgetInv => BudgetSpentByFailures /\ RetryBudget
  BY DEF BudgetInv, InBudget, BudgetSpentByFailures, RetryBudget
<1>. QED BY <1>1, <1>2, StepBudget, PTL DEF Spec

-----------------------------------------------------------------------------
(* The audit. *)

People   == Writer \cup Verifier
Outcomes == {"success", "failure"}
Harms    == {"intact", "changed", "rehashed", "lost"}
Places   == {"idle", "working", "refused", "turned-away", "was-turned-away",
             "failing", "reading", "judging", "done", "dead"}
Answers  == {"nothing", "success", "refused", "unclear", "valid", "invalid"}

AuditTyped ==
    /\ anchors \in Seq([by : People, outcome : Outcomes])
    /\ rows \in Seq(Harms) /\ Len(rows) = Len(anchors)
    /\ place \in [People -> Places]
    /\ seen \in [Writer -> Nat] /\ \A q \in Writer : seen[q] <= Len(anchors)
    /\ told \in [People -> Answers]
    /\ through \in [Verifier -> Nat] /\ reached \in [Verifier -> Nat]
    /\ \A v \in Verifier : reached[v] <= Len(anchors) /\ through[v] <= Len(anchors)
    /\ sound \in [Verifier -> BOOLEAN]
    /\ auditFaults \in 0..MaxAuditFaults

\* Where nobody has written an entry yet; a request that waits to enter its
\* failure may have one, from a commit whose answer was lost.
MayWrite(p) == \/ place[p] \in {"idle", "working", "refused", "turned-away",
                               "reading", "judging"}
               \/ p \in Verifier /\ place[p] = "failing"

Says(p, outcome) == \E i \in Audit!Entries(p) : anchors[i].outcome = outcome

Entered ==
    /\ \A p \in People : \A i, j \in Audit!Entries(p) : i = j
    /\ \A p \in People : MayWrite(p) => Audit!Entries(p) = {}
    /\ \A p \in People : told[p] \in {"success", "valid"} => Says(p, "success")
    /\ \A p \in People : told[p] \in {"refused", "invalid"} => Says(p, "failure")

Blamed ==
    /\ Audit!NobodyTurnedAway
    /\ Audit!NoFalseAlarm
    /\ \A v \in Verifier : ~sound[v] => Audit!Damaged # {}

Walked ==
    \A v \in Verifier :
        /\ place[v] = "idle" => reached[v] = 0 /\ sound[v]
        /\ place[v] = "reading" => sound[v]
        /\ place[v] = "judging" /\ sound[v] => reached[v] = through[v]
        /\ place[v] \in {"reading", "judging"} /\ sound[v]
              => (1..reached[v]) \cap Audit!Damaged = {}

AuditInv == AuditTyped /\ Entered /\ Blamed /\ Walked

-----------------------------------------------------------------------------
(* What an entry does to the tables. *)

\* An entry that somebody appends is the newest of his own and leaves every
\* other one, and what storage did to the rows, as it was.
LEMMA Appended ==
    ASSUME NEW p \in People, NEW outcome \in Outcomes, AuditTyped,
           Audit!AppendEntry(p, outcome)
    PROVE  /\ anchors' \in Seq([by : People, outcome : Outcomes])
           /\ rows' \in Seq(Harms)
           /\ Len(anchors') = Len(anchors) + 1 /\ Len(rows') = Len(rows) + 1
           /\ Audit!Damaged' = Audit!Damaged
           /\ Audit!Entries(p)' = Audit!Entries(p) \cup {Len(anchors) + 1}
           /\ \A r : r # p => Audit!Entries(r)' = Audit!Entries(r)
           /\ \A i \in DOMAIN anchors : anchors'[i] = anchors[i]
           /\ anchors'[Len(anchors) + 1].outcome = outcome
<1> DEFINE e == [by |-> p, outcome |-> outcome]
<1>1. anchors' = Append(anchors, e) /\ rows' = Append(rows, "intact")
  BY DEF Audit!AppendEntry
<1>2. e \in [by : People, outcome : Outcomes] /\ "intact" \in Harms  BY DEF Harms
<1>3. Len(anchors) \in Nat /\ Len(rows) \in Nat
      /\ DOMAIN anchors = 1..Len(anchors) /\ DOMAIN rows = 1..Len(rows)
  BY DEF AuditTyped
<1>4. /\ anchors' \in Seq([by : People, outcome : Outcomes])
      /\ Len(anchors') = Len(anchors) + 1
      /\ anchors'[Len(anchors) + 1] = e
      /\ \A i \in DOMAIN anchors : anchors'[i] = anchors[i]
  <2> HIDE DEF e
  <2> QED  BY <1>1, <1>2, <1>3 DEF AuditTyped
<1>5. /\ rows' \in Seq(Harms)
      /\ Len(rows') = Len(rows) + 1
      /\ rows'[Len(rows) + 1] = "intact"
      /\ \A i \in DOMAIN rows : rows'[i] = rows[i]
  BY <1>1, <1>2, <1>3 DEF AuditTyped
<1>6. DOMAIN anchors' = 1..(Len(anchors) + 1) /\ DOMAIN rows' = 1..(Len(rows) + 1)
  BY <1>4, <1>5
<1>7. Audit!Damaged' = Audit!Damaged
  BY <1>3, <1>5, <1>6 DEF Audit!Damaged
<1>8. \A r : \A i : i \in Audit!Entries(r)' <=>
           \/ i \in Audit!Entries(r)
           \/ i = Len(anchors) + 1 /\ r = p
  <2> TAKE r
  <2> TAKE i
  <2>1. i \in 1..(Len(anchors) + 1) <=> i \in 1..Len(anchors) \/ i = Len(anchors) + 1
    BY <1>3
  <2>2. Len(anchors) + 1 \notin 1..Len(anchors)
    BY <1>3
  <2>3. anchors'[Len(anchors) + 1].by = p
    BY <1>4
  <2>4. i \in Audit!Entries(r)' <=> i \in DOMAIN anchors' /\ anchors'[i].by = r
    BY DEF Audit!Entries
  <2>5. i \in Audit!Entries(r) <=> i \in DOMAIN anchors /\ anchors[i].by = r
    BY DEF Audit!Entries
  <2> QED  BY <2>1, <2>2, <2>3, <2>4, <2>5, <1>3, <1>4, <1>6
<1>9. anchors'[Len(anchors) + 1].outcome = outcome  BY <1>4
<1>10. Audit!Entries(p)' = Audit!Entries(p) \cup {Len(anchors) + 1}  BY <1>8
<1>11. ASSUME NEW r, r # p  PROVE Audit!Entries(r)' = Audit!Entries(r)
  <2>1. \A i : i \in Audit!Entries(r)' <=> i \in Audit!Entries(r)  BY <1>8, <1>11
  <2> QED  BY <2>1
<1> HIDE DEF e
<1> QED  BY <1>4, <1>5, <1>7, <1>9, <1>10, <1>11

\* The entries of everybody are among the anchors, so that the next one is new.
LEMMA EntriesAreAnchors ==
    ASSUME AuditTyped, NEW p
    PROVE  /\ Audit!Entries(p) \subseteq DOMAIN anchors
           /\ DOMAIN anchors = 1..Len(anchors) /\ Len(anchors) \in Nat
           /\ DOMAIN rows = 1..Len(rows)
           /\ Len(anchors) + 1 \notin Audit!Entries(p)
  BY DEF AuditTyped, Audit!Entries

\* Nobody's entry is lost and no outcome rewritten when somebody appends.
LEMMA SayingIsKept ==
    ASSUME NEW p \in People, NEW outcome \in Outcomes, AuditTyped,
           Audit!AppendEntry(p, outcome), NEW r \in People, NEW word,
           Says(r, word)
    PROVE  Says(r, word)'
<1>1. PICK i \in Audit!Entries(r) : anchors[i].outcome = word  BY DEF Says
<1>2. i \in DOMAIN anchors  BY <1>1, EntriesAreAnchors, Zenon
<1>3. i \in Audit!Entries(r)'  BY <1>1, Appended, Zenon
<1>4. anchors'[i].outcome = word  BY <1>1, <1>2, Appended, Zenon
<1> QED  BY <1>3, <1>4 DEF Says

\* Somebody who had no entry has exactly the one that he appends, and it is
\* what he was told.
LEMMA WritesOnce ==
    ASSUME NEW p \in People, NEW outcome \in Outcomes, AuditTyped, Entered,
           Audit!AppendEntry(p, outcome), Audit!Entries(p) = {},
           \A r \in People : r # p => told'[r] = told[r] /\ place'[r] = place[r],
           ~MayWrite(p)',
           told'[p] \in {"success", "valid"} => outcome = "success",
           told'[p] \in {"refused", "invalid"} => outcome = "failure"
    PROVE  Entered'
<1>1. Audit!Entries(p)' = {Len(anchors) + 1}
      /\ anchors'[Len(anchors) + 1].outcome = outcome
  BY Appended
<1>2. Says(p, outcome)'  BY <1>1 DEF Says
<1>3. \A r \in People : r # p =>
        /\ Audit!Entries(r)' = Audit!Entries(r)
        /\ MayWrite(r)' = MayWrite(r)
  BY Appended, Zenon DEF MayWrite
<1>4. \A r \in People : \A i, j \in Audit!Entries(r)' : i = j
  BY <1>1, <1>3 DEF Entered
<1>5. \A r \in People : MayWrite(r)' => Audit!Entries(r)' = {}
  BY <1>3 DEF Entered
<1>6. \A r \in People : told'[r] \in {"success", "valid"} => Says(r, "success")'
  BY <1>2, SayingIsKept DEF Entered, Outcomes
<1>7. \A r \in People : told'[r] \in {"refused", "invalid"} => Says(r, "failure")'
  BY <1>2, SayingIsKept DEF Entered, Outcomes
<1> QED  BY <1>4, <1>5, <1>6, <1>7 DEF Entered

-----------------------------------------------------------------------------
(* AuditTyped. *)

\* What storage harms is still a row, and stays harmed.
LEMMA HarmStays ==
    ASSUME AuditTyped, NEW i \in DOMAIN rows, Audit!Damage(i)
    PROVE  /\ rows' \in Seq(Harms) /\ Len(rows') = Len(rows)
           /\ Audit!Damaged' = Audit!Damaged \cup {i}
           /\ \A v \in Verifier : place[v] \in {"reading", "judging"}
                  => i \notin 1..reached[v]
<1>1. PICK harm \in {"changed", "rehashed", "lost"} : rows' = [rows EXCEPT ![i] = harm]
  BY DEF Audit!Damage
<1>2. rows' \in Seq(Harms) /\ Len(rows') = Len(rows) /\ DOMAIN rows' = DOMAIN rows
  BY <1>1 DEF AuditTyped, Harms
<1>3. rows'[i] # "intact" /\ \A j \in DOMAIN rows : j # i => rows'[j] = rows[j]
  BY <1>1 DEF AuditTyped
<1>4. Audit!Damaged' = Audit!Damaged \cup {i}
  BY <1>2, <1>3 DEF Audit!Damaged
<1>5. ASSUME NEW v \in Verifier, place[v] \in {"reading", "judging"}
      PROVE  i \notin 1..reached[v]
  BY <1>5 DEF Audit!Damage, Audit!Locked
<1> QED  BY <1>2, <1>4, <1>5

\* No step of the audit leaves the types.
LEMMA TypedKept == AuditTyped /\ [Audit!Next]_(Audit!vars) => AuditTyped'
<1> SUFFICES ASSUME AuditTyped, [Audit!Next]_(Audit!vars)  PROVE AuditTyped'
    OBVIOUS
<1> USE DEF Audit!reading
<1>a. /\ Style \in [Writer -> Audit!Styles] /\ Writer \cap Verifier = {}
      /\ PageSize \in Nat \ {0} /\ MaxAuditFaults \in Nat
  BY AuditConstants DEF Audit!AuditAssumption
<1>b. ASSUME NEW p \in People, NEW outcome \in Outcomes,
             Audit!AppendEntry(p, outcome)
      PROVE  /\ anchors' \in Seq([by : People, outcome : Outcomes])
             /\ rows' \in Seq(Harms) /\ Len(rows') = Len(anchors')
             /\ Len(anchors) \in Nat /\ Len(anchors') = Len(anchors) + 1
  <2>1. /\ anchors' \in Seq([by : People, outcome : Outcomes])
        /\ rows' \in Seq(Harms)
        /\ Len(anchors') = Len(anchors) + 1 /\ Len(rows') = Len(rows) + 1
    BY <1>b, Appended, Zenon
  <2> QED  BY <2>1 DEF AuditTyped
<1>c. Writer \subseteq People /\ Verifier \subseteq People  BY DEF People
<1>d. ASSUME NEW p \in People,
             \/ \E outcome \in Outcomes : Audit!AppendEntry(p, outcome)
             \/ UNCHANGED <<anchors, rows>>
      PROVE  /\ anchors' \in Seq([by : People, outcome : Outcomes])
             /\ rows' \in Seq(Harms) /\ Len(rows') = Len(anchors')
             /\ \A n \in Nat : n <= Len(anchors) => n <= Len(anchors')
  <2>1. CASE UNCHANGED <<anchors, rows>>  BY <2>1 DEF AuditTyped
  <2>2. ASSUME NEW outcome \in Outcomes, Audit!AppendEntry(p, outcome)
        PROVE  /\ anchors' \in Seq([by : People, outcome : Outcomes])
               /\ rows' \in Seq(Harms) /\ Len(rows') = Len(anchors')
               /\ \A n \in Nat : n <= Len(anchors) => n <= Len(anchors')
    <3>1. /\ anchors' \in Seq([by : People, outcome : Outcomes])
          /\ rows' \in Seq(Harms) /\ Len(rows') = Len(anchors')
          /\ Len(anchors) \in Nat /\ Len(anchors') = Len(anchors) + 1
      BY <2>2, <1>b, Zenon
    <3> QED  BY <3>1
  <2> QED  BY <1>d, <2>1, <2>2
<1>1. ASSUME NEW q \in Writer, Audit!Begin(q)  PROVE AuditTyped'
  BY <1>1, <1>c DEF Audit!Begin, AuditTyped, Places
<1>2. ASSUME NEW q \in Writer, Audit!Succeed(q)  PROVE AuditTyped'
  BY <1>2, <1>b, <1>c DEF Audit!Succeed, AuditTyped, Places, Outcomes, Answers
<1>3. ASSUME NEW q \in Writer, Audit!LoseCommit(q)  PROVE AuditTyped'
  <2>1. CASE Audit!AppendEntry(q, "success")
    BY <1>3, <2>1, <1>a, <1>b, <1>c DEF Audit!LoseCommit, AuditTyped, Places, Outcomes
  <2>2. CASE UNCHANGED <<anchors, rows>>
    BY <1>3, <2>2, <1>a, <1>c DEF Audit!LoseCommit, AuditTyped, Places
  <2> QED  BY <1>3, <2>1, <2>2 DEF Audit!LoseCommit
<1>4. ASSUME NEW q \in Writer, Audit!Refuse(q) \/ Audit!TurnAway(q)  PROVE AuditTyped'
  BY <1>4, <1>c DEF Audit!Refuse, Audit!TurnAway, AuditTyped, Places
<1>5. ASSUME NEW q \in Writer, Audit!RecordFailure(q)  PROVE AuditTyped'
  <2>1. /\ place' \in [People -> Places] /\ told' \in [People -> Answers]
        /\ UNCHANGED <<seen, through, reached, sound, auditFaults>>
    BY <1>5, <1>c DEF Audit!RecordFailure, AuditTyped, Places, Answers
  <2>2. Audit!AppendEntry(q, "failure") \/ UNCHANGED <<anchors, rows>>
    BY <1>5, Zenon DEF Audit!RecordFailure
  <2>3. /\ anchors' \in Seq([by : People, outcome : Outcomes])
        /\ rows' \in Seq(Harms) /\ Len(rows') = Len(anchors')
        /\ \A n \in Nat : n <= Len(anchors) => n <= Len(anchors')
    BY <2>2, <1>c, <1>d DEF Outcomes
  <2> QED  BY <2>1, <2>3 DEF AuditTyped
<1>6. ASSUME NEW v \in Verifier, Audit!Pin(v)  PROVE AuditTyped'
  BY <1>6, <1>c DEF Audit!Pin, AuditTyped, Places
<1>7. ASSUME NEW v \in Verifier, Audit!ReadPage(v)  PROVE AuditTyped'
  BY <1>7, <1>a, <1>c DEF Audit!ReadPage, Audit!UpTo, AuditTyped, Places
<1>8. ASSUME NEW v \in Verifier, Audit!Judge(v)  PROVE AuditTyped'
  <2>1. Audit!Verdict(v) \in {"valid", "invalid"}  BY DEF Audit!Verdict
  <2>2. \E outcome \in Outcomes : Audit!AppendEntry(v, outcome)
    BY <1>8 DEF Audit!Judge, Outcomes
  <2>3. /\ anchors' \in Seq([by : People, outcome : Outcomes])
        /\ rows' \in Seq(Harms) /\ Len(rows') = Len(anchors')
        /\ \A n \in Nat : n <= Len(anchors) => n <= Len(anchors')
    BY <2>2, <1>c, <1>d
  <2>4. /\ place' \in [People -> Places] /\ told' \in [People -> Answers]
        /\ UNCHANGED <<seen, through, reached, sound, auditFaults>>
    BY <1>8, <2>1, <1>c DEF Audit!Judge, AuditTyped, Places, Answers
  <2> QED  BY <2>3, <2>4 DEF AuditTyped
<1>9. ASSUME NEW v \in Verifier, Audit!SessionFails(v)  PROVE AuditTyped'
  BY <1>9, <1>a, <1>c DEF Audit!SessionFails, AuditTyped, Places
<1>10. ASSUME NEW v \in Verifier, Audit!RecordSessionFailure(v)  PROVE AuditTyped'
  <2>1. /\ place' \in [People -> Places] /\ told' \in [People -> Answers]
        /\ UNCHANGED <<seen, through, reached, sound, auditFaults>>
    BY <1>10, <1>c DEF Audit!RecordSessionFailure, AuditTyped, Places, Answers
  <2>2. Audit!AppendEntry(v, "failure") \/ UNCHANGED <<anchors, rows>>
    BY <1>10 DEF Audit!RecordSessionFailure
  <2>3. /\ anchors' \in Seq([by : People, outcome : Outcomes])
        /\ rows' \in Seq(Harms) /\ Len(rows') = Len(anchors')
        /\ \A n \in Nat : n <= Len(anchors) => n <= Len(anchors')
    BY <2>2, <1>c, <1>d DEF Outcomes
  <2> QED  BY <2>1, <2>3 DEF AuditTyped
<1>11. ASSUME NEW i \in DOMAIN rows, Audit!Damage(i)  PROVE AuditTyped'
  BY <1>11, HarmStays DEF Audit!Damage, AuditTyped
<1>12. ASSUME NEW p \in People, Audit!Die(p)  PROVE AuditTyped'
  BY <1>12, <1>a DEF Audit!Die, AuditTyped, Places
<1>13. CASE UNCHANGED Audit!vars
  BY <1>13 DEF Audit!vars, AuditTyped
<1> QED  BY <1>1, <1>2, <1>3, <1>4, <1>5, <1>6, <1>7, <1>8, <1>9, <1>10, <1>11,
            <1>12, <1>13 DEF Audit!Next, People

-----------------------------------------------------------------------------
(* Entered. *)

\* A step that writes no entry and tells nobody an outcome disturbs nothing.
LEMMA WritesNothing ==
    ASSUME Entered, UNCHANGED anchors,
           \A p \in People : MayWrite(p)' => MayWrite(p),
           \A p \in People : told'[p] \in {told[p], "unclear"}
    PROVE  Entered'
<1>1. \A p : Audit!Entries(p)' = Audit!Entries(p)  BY DEF Audit!Entries
<1>2. \A p, word : Says(p, word) => Says(p, word)'  BY <1>1, Zenon DEF Says
<1> QED  BY <1>1, <1>2, Zenon DEF Entered

\* Nobody writes twice, and whoever is told an outcome has the entry.
LEMMA EnteredKept == AuditTyped /\ Entered /\ [Audit!Next]_(Audit!vars) => Entered'
<1> SUFFICES ASSUME AuditTyped, Entered, [Audit!Next]_(Audit!vars)  PROVE Entered'
    OBVIOUS
<1> USE DEF Audit!reading
<1>a. Writer \cap Verifier = {}  BY AuditConstants DEF Audit!AuditAssumption
<1>c. Writer \subseteq People /\ Verifier \subseteq People  BY DEF People
<1>1. ASSUME NEW q \in Writer,
             Audit!Begin(q) \/ Audit!Refuse(q) \/ Audit!TurnAway(q)
      PROVE  Entered'
  <2>1. /\ UNCHANGED <<anchors, told>>
        /\ \A p \in People : MayWrite(p)' => MayWrite(p)
    BY <1>1, <1>c DEF Audit!Begin, Audit!Refuse, Audit!TurnAway, MayWrite, AuditTyped
  <2> QED  BY <2>1, WritesNothing, Zenon
<1>2. ASSUME NEW q \in Writer, Audit!Succeed(q)  PROVE Entered'
  <2>1. q \in People /\ "success" \in Outcomes /\ Audit!AppendEntry(q, "success")
    BY <1>2, <1>c DEF Audit!Succeed, Outcomes
  <2>2. Audit!Entries(q) = {}  BY <1>2, <2>1 DEF Audit!Succeed, Entered, MayWrite
  <2>3. /\ \A r \in People : r # q => told'[r] = told[r] /\ place'[r] = place[r]
        /\ ~MayWrite(q)' /\ told'[q] = "success"
    BY <1>2, <2>1 DEF Audit!Succeed, MayWrite, AuditTyped
  <2> QED  BY <2>1, <2>2, <2>3, WritesOnce
<1>3. ASSUME NEW q \in Writer, Audit!LoseCommit(q)  PROVE Entered'
  <2>1. CASE Audit!AppendEntry(q, "success")
    <3>1. q \in People /\ "success" \in Outcomes  BY <1>c DEF Outcomes
    <3>2. Audit!Entries(q) = {}
      BY <1>3, <3>1 DEF Audit!LoseCommit, Entered, MayWrite
    <3>3. /\ \A r \in People : r # q => told'[r] = told[r] /\ place'[r] = place[r]
          /\ ~MayWrite(q)' /\ told'[q] = told[q]
      BY <1>3, <1>a, <3>1 DEF Audit!LoseCommit, MayWrite, AuditTyped
    <3>4. told[q] \notin {"success", "valid", "refused", "invalid"}
      BY <3>1, <3>2 DEF Entered, Says
    <3> QED  BY <2>1, <3>1, <3>2, <3>3, <3>4, WritesOnce
  <2>2. CASE UNCHANGED <<anchors, rows>>
    <3>1. /\ UNCHANGED <<anchors, told>>
          /\ \A p \in People : MayWrite(p)' => MayWrite(p)
      BY <1>3, <1>a, <1>c, <2>2 DEF Audit!LoseCommit, MayWrite, AuditTyped
    <3> QED  BY <3>1, WritesNothing, Zenon
  <2> QED  BY <1>3, <2>1, <2>2 DEF Audit!LoseCommit
<1>4. ASSUME NEW q \in Writer, Audit!RecordFailure(q)  PROVE Entered'
  <2>1. CASE Audit!Unentered(q) /\ Audit!Fits(q)
    <3>1. q \in People /\ "failure" \in Outcomes /\ Audit!AppendEntry(q, "failure")
      BY <1>4, <1>c, <2>1, Zenon DEF Audit!RecordFailure, Outcomes
    <3>2. Audit!Entries(q) = {}  BY <2>1 DEF Audit!Unentered
    <3>3. /\ \A r \in People : r # q => told'[r] = told[r] /\ place'[r] = place[r]
          /\ ~MayWrite(q)' /\ told'[q] \in {"refused", "unclear"}
      BY <1>4, <1>a, <3>1 DEF Audit!RecordFailure, MayWrite, AuditTyped
    <3> QED  BY <3>1, <3>2, <3>3, WritesOnce
  <2>2. CASE ~(Audit!Unentered(q) /\ Audit!Fits(q))
    <3>1. /\ UNCHANGED anchors
          /\ \A p \in People : told'[p] \in {told[p], "unclear"}
          /\ \A p \in People : MayWrite(p)' => MayWrite(p)
      BY <1>4, <1>a, <1>c, <2>2 DEF Audit!RecordFailure, MayWrite, AuditTyped
    <3> QED  BY <3>1, WritesNothing, Zenon
  <2> QED  BY <2>1, <2>2
<1>5. ASSUME NEW v \in Verifier,
             Audit!Pin(v) \/ Audit!ReadPage(v) \/ Audit!SessionFails(v)
      PROVE  Entered'
  <2>1. /\ UNCHANGED <<anchors, told>>
        /\ \A p \in People : MayWrite(p)' => MayWrite(p)
    BY <1>5, <1>c DEF Audit!Pin, Audit!ReadPage, Audit!SessionFails, MayWrite, AuditTyped
  <2> QED  BY <2>1, WritesNothing, Zenon
<1>6. ASSUME NEW v \in Verifier, Audit!Judge(v)  PROVE Entered'
  <2> DEFINE outcome == IF Audit!Verdict(v) = "valid" THEN "success" ELSE "failure"
  <2>1. v \in People /\ outcome \in Outcomes /\ Audit!AppendEntry(v, outcome)
    BY <1>6, <1>c DEF Audit!Judge, Outcomes
  <2>2. Audit!Entries(v) = {}  BY <1>6, <2>1 DEF Audit!Judge, Entered, MayWrite
  <2>3. /\ \A r \in People : r # v => told'[r] = told[r] /\ place'[r] = place[r]
        /\ ~MayWrite(v)' /\ told'[v] = Audit!Verdict(v)
    BY <1>6, <1>a, <2>1 DEF Audit!Judge, MayWrite, AuditTyped
  <2>4. Audit!Verdict(v) \in {"valid", "invalid"}  BY DEF Audit!Verdict
  <2>5. /\ told'[v] \in {"success", "valid"} => outcome = "success"
        /\ told'[v] \in {"refused", "invalid"} => outcome = "failure"
    BY <2>3, <2>4
  <2> HIDE DEF outcome
  <2> QED  BY <2>1, <2>2, <2>3, <2>5, WritesOnce
<1>7. ASSUME NEW v \in Verifier, Audit!RecordSessionFailure(v)  PROVE Entered'
  <2>1. v \in People /\ "failure" \in Outcomes  BY <1>c DEF Outcomes
  <2>2. Audit!Entries(v) = {}
    BY <1>7, <2>1 DEF Audit!RecordSessionFailure, Entered, MayWrite
  <2>3. /\ \A r \in People : r # v => told'[r] = told[r] /\ place'[r] = place[r]
        /\ ~MayWrite(v)' /\ told'[v] = "unclear"
    BY <1>7, <1>a, <2>1 DEF Audit!RecordSessionFailure, MayWrite, AuditTyped
  <2>4. CASE Audit!AppendEntry(v, "failure")
    BY <2>1, <2>2, <2>3, <2>4, WritesOnce
  <2>5. CASE UNCHANGED anchors
    <3>1. /\ \A p \in People : told'[p] \in {told[p], "unclear"}
          /\ \A p \in People : MayWrite(p)' => MayWrite(p)
      BY <2>3 DEF MayWrite
    <3> QED  BY <2>5, <3>1, WritesNothing, Zenon
  <2> QED  BY <1>7, <2>4, <2>5, Zenon DEF Audit!RecordSessionFailure
<1>8. ASSUME NEW i \in DOMAIN rows, Audit!Damage(i)  PROVE Entered'
  <2>1. UNCHANGED <<anchors, told, place>>  BY <1>8 DEF Audit!Damage
  <2> QED  BY <2>1, WritesNothing DEF MayWrite
<1>9. ASSUME NEW p \in People, Audit!Die(p)  PROVE Entered'
  <2>1. /\ UNCHANGED <<anchors, told>>
        /\ \A r \in People : MayWrite(r)' => MayWrite(r)
    BY <1>9 DEF Audit!Die, MayWrite, AuditTyped
  <2> QED  BY <2>1, WritesNothing, Zenon
<1>10. CASE UNCHANGED Audit!vars
  <2>1. UNCHANGED <<anchors, told, place>>  BY <1>10 DEF Audit!vars
  <2> QED  BY <2>1, WritesNothing DEF MayWrite
<1> QED  BY <1>1, <1>2, <1>3, <1>4, <1>5, <1>6, <1>7, <1>8, <1>9, <1>10
         DEF Audit!Next, People

-----------------------------------------------------------------------------
(* Blamed. *)

\* On an undamaged chain every check of the newest row succeeds.
LEMMA UndamagedFits ==
    ASSUME AuditTyped, Audit!Damaged = {}
    PROVE  Audit!RowComputes /\ \A q \in Writer : Audit!Fits(q)
<1>1. rows # <<>> => Len(rows) \in DOMAIN rows  BY DEF AuditTyped
<1>2. rows # <<>> => rows[Len(rows)] = "intact"  BY <1>1 DEF Audit!Damaged
<1> QED  BY <1>2 DEF Audit!RowComputes, Audit!RowFits, Audit!Fits

\* What storage has harmed stays so, and storage alone harms.
LEMMA DamageStays ==
    ASSUME AuditTyped, [Audit!Next]_(Audit!vars)
    PROVE  /\ Audit!Damaged \subseteq Audit!Damaged'
           /\ \/ Audit!Damaged' = Audit!Damaged
              \/ \E i \in DOMAIN rows : Audit!Damage(i)
<1>c. Writer \subseteq People /\ Verifier \subseteq People  BY DEF People
<1>1. \/ \E p \in People, outcome \in Outcomes : Audit!AppendEntry(p, outcome)
      \/ UNCHANGED rows
      \/ \E i \in DOMAIN rows : Audit!Damage(i)
  <2>1. ASSUME NEW q \in Writer,
               \/ Audit!Begin(q) \/ Audit!Succeed(q) \/ Audit!LoseCommit(q)
               \/ Audit!Refuse(q) \/ Audit!TurnAway(q) \/ Audit!RecordFailure(q)
        PROVE  \/ Audit!AppendEntry(q, "success") \/ Audit!AppendEntry(q, "failure")
               \/ UNCHANGED rows
    BY <2>1, Zenon DEF Audit!Begin, Audit!Succeed, Audit!LoseCommit, Audit!Refuse,
                       Audit!TurnAway, Audit!RecordFailure
  <2>2. ASSUME NEW v \in Verifier,
               \/ Audit!Pin(v) \/ Audit!ReadPage(v) \/ Audit!Judge(v)
               \/ Audit!SessionFails(v) \/ Audit!RecordSessionFailure(v)
        PROVE  \/ Audit!AppendEntry(v, "success") \/ Audit!AppendEntry(v, "failure")
               \/ UNCHANGED rows
    BY <2>2, Zenon DEF Audit!Pin, Audit!ReadPage, Audit!Judge, Audit!SessionFails,
                       Audit!RecordSessionFailure
  <2>3. ASSUME NEW p, Audit!Die(p)  PROVE UNCHANGED rows
    BY <2>3 DEF Audit!Die
  <2>4. CASE UNCHANGED Audit!vars  BY <2>4 DEF Audit!vars
  <2> QED  BY <1>c, <2>1, <2>2, <2>3, <2>4, Zenon DEF Audit!Next, Outcomes
<1>2. ASSUME NEW p \in People, NEW outcome \in Outcomes, Audit!AppendEntry(p, outcome)
      PROVE  Audit!Damaged' = Audit!Damaged
  BY <1>2, Appended, Zenon
<1>3. ASSUME UNCHANGED rows  PROVE Audit!Damaged' = Audit!Damaged
  BY <1>3 DEF Audit!Damaged
<1>4. ASSUME NEW i \in DOMAIN rows, Audit!Damage(i)
      PROVE  Audit!Damaged \subseteq Audit!Damaged'
  BY <1>4, HarmStays
<1> QED  BY <1>1, <1>2, <1>3, <1>4

\* A step that does not judge, refuse or read blames nobody anew.
LEMMA BlamesNobody ==
    ASSUME AuditTyped, Blamed, [Audit!Next]_(Audit!vars),
           \A q \in Writer : place'[q] \in {"turned-away", "was-turned-away"}
               => place[q] \in {"turned-away", "was-turned-away"},
           \A v \in Verifier : told'[v] = "invalid" => told[v] = "invalid",
           UNCHANGED sound
    PROVE  Blamed'
<1>1. Audit!Damaged # {} => Audit!Damaged' # {}  BY DamageStays
<1> QED  BY <1>1 DEF Blamed, Audit!NobodyTurnedAway, Audit!NoFalseAlarm

\* Damage is behind every refusal and every bad verdict.
LEMMA BlamedKept ==
    AuditTyped /\ Blamed /\ Walked /\ [Audit!Next]_(Audit!vars) => Blamed'
<1> SUFFICES ASSUME AuditTyped, Blamed, Walked, [Audit!Next]_(Audit!vars)
             PROVE  Blamed'
    OBVIOUS
<1> USE DEF Audit!reading
<1>a. Writer \cap Verifier = {}  BY AuditConstants DEF Audit!AuditAssumption
<1>c. Writer \subseteq People /\ Verifier \subseteq People  BY DEF People
<1>d. Audit!Damaged # {} => Audit!Damaged' # {}  BY DamageStays
<1> DEFINE Aside == /\ \A q \in Writer : place'[q] \in {"turned-away", "was-turned-away"}
                           => place[q] \in {"turned-away", "was-turned-away"}
                    /\ \A v \in Verifier : told'[v] = "invalid" => told[v] = "invalid"
                    /\ UNCHANGED sound
<1>1. ASSUME NEW q \in Writer,
             \/ Audit!Begin(q) \/ Audit!Succeed(q) \/ Audit!LoseCommit(q)
             \/ Audit!Refuse(q) \/ Audit!RecordFailure(q)
      PROVE  Aside
  BY <1>1, <1>a, <1>c DEF Audit!Begin, Audit!Succeed, Audit!LoseCommit, Audit!Refuse,
                    Audit!RecordFailure, AuditTyped
<1>2. ASSUME NEW q \in Writer, Audit!TurnAway(q)  PROVE Blamed'
  <2>1. Style[q] # "snapshot" => Audit!Damaged # {}
    BY <1>2, UndamagedFits DEF Audit!TurnAway, Audit!Appendable, Audit!Predecessor
  <2>2. /\ \A r \in Writer : r # q => place'[r] = place[r]
        /\ UNCHANGED <<told, sound>>
    BY <1>2, <1>c DEF Audit!TurnAway, AuditTyped
  <2> QED  BY <1>d, <2>1, <2>2 DEF Blamed, Audit!NobodyTurnedAway, Audit!NoFalseAlarm
<1>3. ASSUME NEW v \in Verifier,
             Audit!Pin(v) \/ Audit!SessionFails(v) \/ Audit!RecordSessionFailure(v)
      PROVE  Aside
  BY <1>3, <1>a, <1>c DEF Audit!Pin, Audit!SessionFails, Audit!RecordSessionFailure, AuditTyped
<1>4. ASSUME NEW v \in Verifier, Audit!ReadPage(v)  PROVE Blamed'
  <2>1. ~sound'[v] => Audit!Damaged # {}
    BY <1>4 DEF Audit!ReadPage, AuditTyped
  <2>2. /\ \A u \in Verifier : u # v => sound'[u] = sound[u]
        /\ \A q \in Writer : place'[q] = place[q]
        /\ UNCHANGED told
    BY <1>4, <1>a, <1>c DEF Audit!ReadPage, AuditTyped
  <2> QED  BY <1>d, <2>1, <2>2 DEF Blamed, Audit!NobodyTurnedAway, Audit!NoFalseAlarm
<1>5. ASSUME NEW v \in Verifier, Audit!Judge(v)  PROVE Blamed'
  <2>1. Audit!Verdict(v) = "invalid" => Audit!Damaged # {}
    BY <1>5, UndamagedFits DEF Audit!Judge, Audit!Verdict, Walked, Blamed
  <2>2. /\ \A p \in People : p # v => told'[p] = told[p] /\ place'[p] = place[p]
        /\ told'[v] = Audit!Verdict(v)
        /\ UNCHANGED sound
    BY <1>5, <1>c DEF Audit!Judge, AuditTyped
  <2> QED  BY <1>a, <1>c, <1>d, <2>1, <2>2
           DEF Blamed, Audit!NobodyTurnedAway, Audit!NoFalseAlarm
<1>6. ASSUME NEW i \in DOMAIN rows, Audit!Damage(i)  PROVE Aside
  BY <1>6 DEF Audit!Damage
<1>7. ASSUME NEW p \in People, Audit!Die(p)  PROVE Aside
  BY <1>7 DEF Audit!Die, AuditTyped
<1>8. CASE UNCHANGED Audit!vars
  BY <1>8, BlamesNobody DEF Audit!vars
<1>9. Aside => Blamed'  BY BlamesNobody
<1> HIDE DEF Aside
<1> QED  BY <1>1, <1>2, <1>3, <1>4, <1>5, <1>6, <1>7, <1>8, <1>9
         DEF Audit!Next, People

-----------------------------------------------------------------------------
(* Walked. *)

\* A step that neither harms a row nor lets this verification read leaves what
\* it has walked over as it was.
LEMMA StaysWalked ==
    ASSUME AuditTyped, Walked, NEW v \in Verifier,
           Audit!Damaged' = Audit!Damaged,
           place'[v] \in {place[v], "failing", "done", "dead"},
           reached'[v] = reached[v], through'[v] = through[v], sound'[v] = sound[v]
    PROVE  /\ place'[v] = "idle" => reached'[v] = 0 /\ sound'[v]
           /\ place'[v] = "reading" => sound'[v]
           /\ place'[v] = "judging" /\ sound'[v] => reached'[v] = through'[v]
           /\ place'[v] \in {"reading", "judging"} /\ sound'[v]
                 => (1..reached'[v]) \cap Audit!Damaged' = {}
  BY DEF Walked

\* What a verification has found good is good until it has its verdict.
LEMMA WalkedKept == AuditTyped /\ Walked /\ [Audit!Next]_(Audit!vars) => Walked'
<1> SUFFICES ASSUME AuditTyped, Walked, [Audit!Next]_(Audit!vars)
             PROVE  Walked'
    OBVIOUS
<1> USE DEF Audit!reading
<1> DEFINE Aside(u) == /\ place'[u] \in {place[u], "failing", "done", "dead"}
                       /\ reached'[u] = reached[u] /\ through'[u] = through[u]
                       /\ sound'[u] = sound[u]
<1>a. Writer \cap Verifier = {} /\ PageSize \in Nat \ {0}
  BY AuditConstants DEF Audit!AuditAssumption
<1>c. Writer \subseteq People /\ Verifier \subseteq People  BY DEF People
<1>d. \/ Audit!Damaged' = Audit!Damaged
      \/ \E i \in DOMAIN rows : Audit!Damage(i)
  BY DamageStays
<1>e. ASSUME Audit!Damaged' = Audit!Damaged, \A u \in Verifier : Aside(u)
      PROVE  Walked'
  BY <1>e, StaysWalked DEF Walked
<1>1. ASSUME NEW i \in DOMAIN rows, Audit!Damage(i)  PROVE Walked'
  <2>1. /\ Audit!Damaged' = Audit!Damaged \cup {i}
        /\ \A v \in Verifier : place[v] \in {"reading", "judging"}
              => i \notin 1..reached[v]
    BY <1>1, HarmStays
  <2>2. UNCHANGED <<place, reached, through, sound>>  BY <1>1 DEF Audit!Damage
  <2> QED  BY <2>1, <2>2 DEF Walked
<1>2. ASSUME NEW q \in Writer,
             \/ Audit!Begin(q) \/ Audit!Succeed(q) \/ Audit!LoseCommit(q)
             \/ Audit!Refuse(q) \/ Audit!TurnAway(q) \/ Audit!RecordFailure(q)
      PROVE  \A u \in Verifier : Aside(u)
  BY <1>2, <1>a, <1>c DEF Audit!Begin, Audit!Succeed, Audit!LoseCommit, Audit!Refuse,
                    Audit!TurnAway, Audit!RecordFailure, AuditTyped
<1>3. ASSUME NEW v \in Verifier,
             Audit!Judge(v) \/ Audit!SessionFails(v) \/ Audit!RecordSessionFailure(v)
      PROVE  \A u \in Verifier : Aside(u)
  BY <1>3, <1>c DEF Audit!Judge, Audit!SessionFails, Audit!RecordSessionFailure, AuditTyped
<1>4. ASSUME NEW p \in People, Audit!Die(p)  PROVE \A u \in Verifier : Aside(u)
  BY <1>4, <1>c DEF Audit!Die, AuditTyped
<1>5. CASE UNCHANGED Audit!vars
  BY <1>5, <1>e DEF Audit!vars, Audit!Damaged
<1>6. ASSUME NEW v \in Verifier, Audit!Pin(v), Audit!Damaged' = Audit!Damaged
      PROVE  Walked'
  <2>1. \A u \in Verifier : u # v => Aside(u)
    BY <1>6, <1>c DEF Audit!Pin, AuditTyped
  <2>2. /\ place[v] = "idle" /\ through'[v] = Len(anchors)
        /\ place'[v] \in {"reading", "judging"}
        /\ place'[v] = "judging" => Len(anchors) = 0
        /\ reached' = reached /\ sound' = sound
    BY <1>6, <1>c DEF Audit!Pin, AuditTyped
  <2>3. reached[v] = 0 /\ sound[v] /\ 1..0 = {}
    BY <2>2 DEF Walked
  <2> HIDE DEF Aside
  <2>4. /\ place'[v] = "idle" => reached'[v] = 0 /\ sound'[v]
        /\ place'[v] = "reading" => sound'[v]
        /\ place'[v] = "judging" /\ sound'[v] => reached'[v] = through'[v]
        /\ place'[v] \in {"reading", "judging"} /\ sound'[v]
              => (1..reached'[v]) \cap Audit!Damaged' = {}
    BY <2>2, <2>3
  <2> USE DEF Aside
  <2> QED  BY <1>6, <2>1, <2>4, StaysWalked DEF Walked
<1>7. ASSUME NEW v \in Verifier, Audit!ReadPage(v), Audit!Damaged' = Audit!Damaged
      PROVE  Walked'
  <2> DEFINE next == IF reached[v] + PageSize < through[v]
                     THEN reached[v] + PageSize ELSE through[v]
             good == (reached[v] + 1)..next \cap Audit!Damaged = {}
  <2>1. \A u \in Verifier : u # v => Aside(u)
    BY <1>7, <1>c DEF Audit!ReadPage, AuditTyped
  <2>2. /\ place[v] = "reading" /\ reached'[v] = next /\ sound'[v] = good
        /\ place'[v] = (IF good /\ next < through[v] THEN "reading" ELSE "judging")
        /\ through' = through
    BY <1>7, <1>c DEF Audit!ReadPage, Audit!UpTo, AuditTyped
  <2>3. /\ next \in Nat /\ through[v] \in Nat /\ reached[v] \in Nat
        /\ next <= through[v]
    BY <1>a DEF AuditTyped
  <2>4. sound[v] /\ (1..reached[v]) \cap Audit!Damaged = {}
    BY <2>2 DEF Walked
  <2>5. good => (1..next) \cap Audit!Damaged = {}
    BY <2>3, <2>4
  <2> HIDE DEF next, good
  <2>6. /\ place'[v] = "idle" => reached'[v] = 0 /\ sound'[v]
        /\ place'[v] = "reading" => sound'[v]
        /\ place'[v] = "judging" /\ sound'[v] => reached'[v] = through'[v]
        /\ place'[v] \in {"reading", "judging"} /\ sound'[v]
              => (1..reached'[v]) \cap Audit!Damaged' = {}
    BY <1>7, <2>2, <2>3, <2>5
  <2> QED  BY <1>7, <2>1, <2>6, StaysWalked DEF Walked
<1> HIDE DEF Aside
<1> QED  BY <1>d, <1>e, <1>1, <1>2, <1>3, <1>4, <1>5, <1>6, <1>7
         DEF Audit!Next, People
-----------------------------------------------------------------------------
(* The invariant, and what follows from it. *)

\* It holds at first.
LEMMA AuditInvInit == Audit!Init => AuditInv
<1> SUFFICES ASSUME Audit!Init  PROVE AuditInv
    OBVIOUS
<1>1. anchors = <<>> /\ rows = <<>>  BY DEF Audit!Init
<1>2. DOMAIN anchors = {} /\ DOMAIN rows = {} /\ Len(anchors) = 0 /\ Len(rows) = 0
  BY <1>1
<1>3. MaxAuditFaults \in Nat  BY AuditConstants DEF Audit!AuditAssumption
<1>4. AuditTyped
  <2>1. anchors \in Seq([by : People, outcome : Outcomes]) /\ rows \in Seq(Harms)
    BY <1>1
  <2> QED  BY <1>2, <1>3, <2>1 DEF Audit!Init, AuditTyped, People, Places, Answers
<1>5. Audit!Damaged = {} /\ \A p : Audit!Entries(p) = {}
  BY <1>2 DEF Audit!Damaged, Audit!Entries
<1>6. Entered  BY <1>5 DEF Audit!Init, Entered, People
<1>7. Blamed
  BY DEF Audit!Init, Blamed, Audit!NobodyTurnedAway, Audit!NoFalseAlarm
<1>8. Walked  BY <1>5 DEF Audit!Init, Walked
<1> QED  BY <1>4, <1>6, <1>7, <1>8 DEF AuditInv

\* Every step of either table keeps it.
LEMMA AuditInvKept == AuditInv /\ [RecordsNext]_both => AuditInv'
<1> SUFFICES ASSUME AuditInv, [RecordsNext]_both  PROVE AuditInv'
    OBVIOUS
<1>1. [Audit!Next]_(Audit!vars)
  BY DEF RecordsNext, both, audit, Audit!vars, Audit!reading
<1> QED  BY <1>1, TypedKept, EnteredKept, BlamedKept, WalkedKept DEF AuditInv

\* The audit's invariant holds in every behaviour of the two tables.
THEOREM AuditInductive == RecordsSpec => []AuditInv
<1>1. RecordsInit => AuditInv  BY AuditInvInit DEF RecordsInit
<1> QED  BY <1>1, AuditInvKept, PTL DEF RecordsSpec

\* AuditChain brings its own copy of the library's Cardinality.
LEMMA SameCount == \A S : Audit!Cardinality(S) = Cardinality(S)
  BY DEF Audit!Cardinality, Cardinality

\* A set no two members of which differ has one at most.
LEMMA OneAtMost ==
    ASSUME NEW S, \A i, j \in S : i = j
    PROVE  Audit!Cardinality(S) <= 1
<1>1. CASE S = {}
  BY <1>1, FS_EmptySet, SameCount
<1>2. CASE S # {}
  <2>1. PICK i \in S : TRUE  BY <1>2
  <2>2. S = {i}  BY <2>1
  <2>3. Cardinality(S) = 1  BY <2>2, FS_Singleton, Zenon
  <2> QED  BY <2>3, SameCount
<1> QED  BY <1>1, <1>2

\* The audit says what happened: a request has one entry at most, whoever was
\* told an outcome has the entry that says so, nobody is refused because
\* others append, and the chain is called invalid only when it is damaged
\* (capabilities/persistence.ts, audit/service.ts).
THEOREM AuditIsTrue == RecordsSpec => []AuditedAsHappened
<1>1. AuditInv => AuditedAsHappened
  <2> SUFFICES ASSUME AuditInv  PROVE AuditedAsHappened
      OBVIOUS
  <2>1. Audit!TypeOK
    <3>1. seen \in [Writer -> 0..Len(anchors)]  BY DEF AuditInv, AuditTyped
    <3> QED  BY <3>1 DEF AuditInv, AuditTyped, Audit!TypeOK, People, Outcomes
  <2>2. Audit!EnteredAsHappened
    BY OneAtMost DEF AuditInv, Entered, Says, Audit!EnteredAsHappened, People
  <2>3. Audit!NobodyTurnedAway /\ Audit!NoFalseAlarm  BY DEF AuditInv, Blamed
  <2> QED  BY <2>1, <2>2, <2>3 DEF AuditedAsHappened
<1> QED  BY <1>1, AuditInductive, PTL

\* A verification that calls the chain valid says so while every row up to the
\* anchor that it pinned, and the newest one, is intact (SecurityAuditService.verify).
THEOREM ValidMeansIntact == RecordsSpec => ValidWhenSaid
<1> DEFINE Seen == \A v \in Verifier :
                told[v] # "valid" /\ told'[v] = "valid"
                    => (1..through[v] \cup {Len(anchors)}) \cap Audit!Damaged = {}
<1>1. AuditInv /\ [RecordsNext]_both => [Seen]_(Audit!vars)
  <2> SUFFICES ASSUME AuditInv, [Audit!Next]_(Audit!vars), NEW v \in Verifier,
                      told[v] # "valid", told'[v] = "valid"
               PROVE  (1..through[v] \cup {Len(anchors)}) \cap Audit!Damaged = {}
    BY DEF RecordsNext, both, audit, Audit!vars, Audit!reading
  <2>1. Writer \cap Verifier = {}  BY AuditConstants DEF Audit!AuditAssumption
  <2>2. AuditTyped /\ Walked  BY DEF AuditInv
  <2>3. Audit!Judge(v)
    <3>1. ASSUME NEW q \in Writer,
                 \/ Audit!Begin(q) \/ Audit!Succeed(q) \/ Audit!LoseCommit(q)
                 \/ Audit!Refuse(q) \/ Audit!TurnAway(q) \/ Audit!RecordFailure(q)
          PROVE  told'[v] = told[v]
      BY <2>1, <2>2, <3>1 DEF Audit!Begin, Audit!Succeed, Audit!LoseCommit, Audit!Refuse,
            Audit!TurnAway, Audit!RecordFailure, AuditTyped, People
    <3>2. ASSUME NEW u \in Verifier,
                 \/ Audit!Pin(u) \/ Audit!ReadPage(u) \/ Audit!SessionFails(u)
                 \/ Audit!RecordSessionFailure(u)
                 \/ u # v /\ Audit!Judge(u)
          PROVE  told'[v] = told[v] \/ told'[v] = "unclear"
      BY <2>2, <3>2 DEF Audit!Pin, Audit!ReadPage, Audit!SessionFails,
            Audit!RecordSessionFailure, Audit!Judge, AuditTyped, People
    <3>3. ASSUME NEW i, Audit!Damage(i)  PROVE told'[v] = told[v]
      BY <3>3 DEF Audit!Damage
    <3>4. ASSUME NEW p, Audit!Die(p)  PROVE told'[v] = told[v]
      BY <3>4 DEF Audit!Die
    <3>5. CASE UNCHANGED Audit!vars  BY <3>5 DEF Audit!vars
    <3> QED  BY <3>1, <3>2, <3>3, <3>4, <3>5 DEF Audit!Next
  <2>4. Audit!Verdict(v) = "valid"
    BY <2>2, <2>3 DEF Audit!Judge, AuditTyped, People
  <2>5. sound[v] /\ reached[v] = through[v] /\ Audit!RowComputes
    BY <2>4 DEF Audit!Verdict
  <2>6. 1..through[v] \cap Audit!Damaged = {}
    BY <2>2, <2>3, <2>5 DEF Audit!Judge, Walked
  <2>7. Len(anchors) \notin Audit!Damaged
    BY <2>2, <2>5 DEF Audit!RowComputes, Audit!Damaged, AuditTyped
  <2> QED  BY <2>6, <2>7
<1>2. AuditInv /\ [RecordsNext]_both
        => [\A v \in Verifier :
                told[v] # "valid" /\ told'[v] = "valid"
                    => (1..through[v] \cup {Len(anchors)}) \cap Audit!Damaged = {}]_(Audit!vars)
  BY <1>1
<1> QED  BY <1>2, AuditInductive, PTL DEF RecordsSpec, ValidWhenSaid, Audit!ValidWhenSaid
=============================================================================
