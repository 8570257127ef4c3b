------------------------------ MODULE AuditChain ------------------------------
(***************************************************************************)
(* The security audit (packages/server/lib/audit, the audit appends of     *)
(* packages/server/lib/capabilities and lib/auth, and the triggers of      *)
(* packages/server/drizzle/migrations/0003_many_ezekiel_stane.sql).        *)
(*                                                                         *)
(* Every audited request commits its effect and one entry together.  An    *)
(* entry names its predecessor's hash, and the database keeps an anchor    *)
(* for each entry that nothing may change.  All appends take one advisory  *)
(* lock and hold it to the end of their transaction, so locking, reading   *)
(* the head, inserting and committing are one step here; what a            *)
(* transaction read before that is not.  A verification pins the newest    *)
(* anchor, reads the chain page by page under row locks and records its    *)
(* verdict as one more entry.                                              *)
(***************************************************************************)
EXTENDS Naturals, Sequences, FiniteSets

CONSTANTS
    Writer,     \* audited requests
    Style,      \* how each writer appends, see Styles
    Verifier,   \* verifications of the whole chain
    PageSize,   \* VERIFICATION_PAGE_SIZE
    MaxDamage,  \* bound: rows that storage loses or changes
    MaxFaults   \* bound: deaths and lost answers

\* By the anchor; by the newest row; by both, their hashes compared; the same
\* with the row's hash computed again; and by the anchor as a repeatable-read
\* transaction saw it when it began.
Styles == {"anchor", "row", "compared", "computed", "snapshot"}

\* What the constants must be.
AuditAssumption ==
    /\ Style \in [Writer -> Styles]
    /\ Writer \cap Verifier = {}
    /\ PageSize \in Nat \ {0}
    /\ MaxDamage \in Nat /\ MaxFaults \in Nat

VARIABLES
    anchors,   \* security_audit_chain_anchors: the entries as they were committed
    rows,      \* security_audit_entries: what storage has made of each
    pc,        \* where a request or a verification is
    seen,      \* the newest anchor when its transaction began
    told,      \* what it was answered
    through,   \* the anchor a verification has pinned
    at,        \* how far it has read
    sound,     \* whether what it has read was
    faults     \* deaths and lost answers so far

vars == <<anchors, rows, pc, seen, told, through, at, sound, faults>>
reading == <<through, at, sound>>

Damaged == {i \in DOMAIN rows : rows[i] # "intact"}
Entries(q) == {i \in DOMAIN anchors : anchors[i].by = q}

-----------------------------------------------------------------------------
\* Appending.

\* The newest row is there and has its anchor's hash; and it hashes to it.
RowFits == rows # <<>> => rows[Len(rows)] \in {"intact", "changed"}
RowComputes == rows # <<>> => rows[Len(rows)] = "intact"

Fits(q) == /\ Style[q] \in {"row", "compared"} => RowFits
           /\ Style[q] = "computed" => RowComputes

\* Variant: the head is read before the lock is taken.
PredecessorBeforeLock(q) == seen[q]

\* The anchor whose successor a writer builds, read once it has the lock.
Predecessor(q) == IF Style[q] = "snapshot" THEN seen[q] ELSE Len(anchors)

\* The triggers and the unique sequence let only the next entry in.
Appendable(q) == Predecessor(q) = Len(anchors) /\ Fits(q)

AppendEntry(q, outcome) ==
    /\ anchors' = Append(anchors, [by |-> q, outcome |-> outcome])
    /\ rows' = Append(rows, "intact")

-----------------------------------------------------------------------------
\* Audited requests.

Begin(q) ==
    /\ pc[q] = "idle"
    /\ pc' = [pc EXCEPT ![q] = "working"]
    /\ seen' = [seen EXCEPT ![q] = Len(anchors)]
    /\ UNCHANGED <<anchors, rows, told, reading, faults>>

\* The handler has done its work: the success entry commits with it.
Succeed(q) ==
    /\ pc[q] = "working" /\ Appendable(q)
    /\ AppendEntry(q, "success")
    /\ pc' = [pc EXCEPT ![q] = "done"]
    /\ told' = [told EXCEPT ![q] = "success"]
    /\ UNCHANGED <<seen, reading, faults>>

\* The answer to the commit is lost, whether it took effect or not.
LoseCommit(q) ==
    /\ pc[q] = "working" /\ Appendable(q) /\ faults < MaxFaults
    /\ \/ AppendEntry(q, "success")
       \/ UNCHANGED <<anchors, rows>>
    /\ pc' = [pc EXCEPT ![q] = "failing"]
    /\ faults' = faults + 1
    /\ UNCHANGED <<seen, told, reading>>

\* The handler refuses the request.
Refuse(q) ==
    /\ pc[q] = "working"
    /\ pc' = [pc EXCEPT ![q] = "refused"]
    /\ UNCHANGED <<anchors, rows, seen, told, reading, faults>>

\* The success entry is refused and takes the handler's work with it.
TurnAway(q) ==
    /\ pc[q] = "working" /\ ~Appendable(q)
    /\ pc' = [pc EXCEPT ![q] = "turned-away"]
    /\ UNCHANGED <<anchors, rows, seen, told, reading, faults>>

\* One entry for each request id.
Unentered(q) == Entries(q) = {}

\* The failure is entered in a transaction of its own.  A refusal is told as
\* such when it could be entered; after any other failure the client learns
\* only that something went wrong.
RecordFailure(q) ==
    /\ pc[q] \in {"failing", "refused", "turned-away"}
    /\ LET entered == Unentered(q) /\ Fits(q)
       IN  /\ IF entered THEN AppendEntry(q, "failure") ELSE UNCHANGED <<anchors, rows>>
           /\ told' = [told EXCEPT ![q] =
                         IF pc[q] = "refused" /\ entered THEN "refused" ELSE "unclear"]
    /\ pc' = [pc EXCEPT ![q] = IF @ = "turned-away" THEN "was-turned-away" ELSE "done"]
    /\ UNCHANGED <<seen, reading, faults>>

-----------------------------------------------------------------------------
\* Verifications.

Pin(v) ==
    /\ pc[v] = "idle"
    /\ through' = [through EXCEPT ![v] = Len(anchors)]
    /\ pc' = [pc EXCEPT ![v] = IF anchors = <<>> THEN "judging" ELSE "reading"]
    /\ UNCHANGED <<anchors, rows, seen, told, at, sound, faults>>

UpTo(v) == through[v]

\* One page of anchors and the rows that belong to them, all locked.
ReadPage(v) ==
    /\ pc[v] = "reading"
    /\ LET next == IF at[v] + PageSize < UpTo(v) THEN at[v] + PageSize ELSE UpTo(v)
           good == (at[v] + 1)..next \cap Damaged = {}
       IN  /\ at' = [at EXCEPT ![v] = next]
           /\ sound' = [sound EXCEPT ![v] = good]
           /\ pc' = [pc EXCEPT ![v] = IF good /\ next < UpTo(v) THEN "reading" ELSE "judging"]
    /\ UNCHANGED <<anchors, rows, seen, told, through, faults>>

Verdict(v) ==
    IF sound[v] /\ at[v] = through[v] /\ RowComputes THEN "valid" ELSE "invalid"

\* The verdict is entered in the session that read the chain; a valid one only
\* while the newest row still fits its anchor.
Judge(v) ==
    /\ pc[v] = "judging"
    /\ AppendEntry(v, IF Verdict(v) = "valid" THEN "success" ELSE "failure")
    /\ told' = [told EXCEPT ![v] = Verdict(v)]
    /\ pc' = [pc EXCEPT ![v] = "done"]
    /\ UNCHANGED <<seen, reading, faults>>

\* The session fails, or its commit does; only the failure is entered.
SessionFails(v) ==
    /\ pc[v] \in {"reading", "judging"} /\ faults < MaxFaults
    /\ pc' = [pc EXCEPT ![v] = "failing"]
    /\ faults' = faults + 1
    /\ UNCHANGED <<anchors, rows, seen, told, reading>>

RecordSessionFailure(v) ==
    /\ pc[v] = "failing"
    /\ IF RowComputes
       THEN AppendEntry(v, "failure") /\ told' = [told EXCEPT ![v] = "unclear"]
       ELSE UNCHANGED <<anchors, rows>> /\ told' = [told EXCEPT ![v] = "unclear"]
    /\ pc' = [pc EXCEPT ![v] = "done"]
    /\ UNCHANGED <<seen, reading, faults>>

-----------------------------------------------------------------------------
\* What storage does to a row that no session has locked.

\* Variant: a verification reads without locks.
LockedByNobody == {}

Locked == UNION {1..at[v] : v \in {u \in Verifier : pc[u] \in {"reading", "judging"}}}

Damage(i) ==
    /\ Cardinality(Damaged) < MaxDamage
    /\ i \notin Locked \cup Damaged
    /\ \E harm \in {"changed", "rehashed", "lost"} : rows' = [rows EXCEPT ![i] = harm]
    /\ UNCHANGED <<anchors, pc, seen, told, reading, faults>>

\* A process dies; its transaction is undone.
Die(p) ==
    /\ pc[p] \in {"working", "failing", "refused", "turned-away", "reading", "judging"}
    /\ faults < MaxFaults
    /\ pc' = [pc EXCEPT ![p] = "dead"]
    /\ faults' = faults + 1
    /\ UNCHANGED <<anchors, rows, seen, told, reading>>

-----------------------------------------------------------------------------
Init ==
    /\ anchors = <<>> /\ rows = <<>>
    /\ pc = [p \in Writer \cup Verifier |-> "idle"]
    /\ seen = [q \in Writer |-> 0]
    /\ told = [p \in Writer \cup Verifier |-> "nothing"]
    /\ through = [v \in Verifier |-> 0]
    /\ at = [v \in Verifier |-> 0]
    /\ sound = [v \in Verifier |-> TRUE]
    /\ faults = 0

Next ==
    \/ \E q \in Writer : \/ Begin(q) \/ Succeed(q) \/ LoseCommit(q) \/ Refuse(q)
                         \/ TurnAway(q) \/ RecordFailure(q)
    \/ \E v \in Verifier : \/ Pin(v) \/ ReadPage(v) \/ Judge(v)
                           \/ SessionFails(v) \/ RecordSessionFailure(v)
    \/ \E i \in DOMAIN rows : Damage(i)
    \/ \E p \in Writer \cup Verifier : Die(p)

Spec == Init /\ [][Next]_vars

-----------------------------------------------------------------------------
TypeOK ==
    /\ anchors \in Seq([by : Writer \cup Verifier, outcome : {"success", "failure"}])
    /\ DOMAIN rows = DOMAIN anchors
    /\ seen \in [Writer -> 0..Len(anchors)]
    /\ \A v \in Verifier : at[v] <= Len(anchors) /\ through[v] <= Len(anchors)
    /\ faults \in 0..MaxFaults

\* A request has one entry at most, so that none says that a request failed
\* whose effect was committed with another, also when the answer to the commit
\* was lost; and whoever is told of an outcome finds the entry that says so
\* (engine.ts: the failure is entered after the transaction).
EnteredAsHappened ==
    \A p \in Writer \cup Verifier :
        /\ Cardinality(Entries(p)) <= 1
        /\ told[p] \in {"success", "valid"} =>
              \E i \in Entries(p) : anchors[i].outcome = "success"
        /\ told[p] \in {"refused", "invalid"} =>
              \E i \in Entries(p) : anchors[i].outcome = "failure"

\* No request loses its work because others append at the same time: an entry
\* is refused only on a damaged chain (SECURITY_AUDIT_APPEND_LOCK_SQL).  It is
\* not so for the records queries, which append by a snapshot that may be older
\* than the lock (createDrizzleRecordsCapabilityStore).
NobodyTurnedAway ==
    \A q \in Writer :
        pc[q] \in {"turned-away", "was-turned-away"} /\ Style[q] # "snapshot"
            => Damaged # {}

\* A verification calls the chain invalid only if it is, however much is
\* appended meanwhile (SecurityAuditService.verify).
NoFalseAlarm == \A v \in Verifier : told[v] = "invalid" => Damaged # {}

\* When a verification calls the chain valid, every row up to the anchor that
\* it pinned is intact at that moment, and so is the newest one.
ValidWhenSaid ==
    [][\A v \in Verifier :
          told[v] # "valid" /\ told'[v] = "valid"
              => (1..through[v] \cup {Len(anchors)}) \cap Damaged = {}]_vars
=============================================================================
