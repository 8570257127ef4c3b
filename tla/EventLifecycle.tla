--------------------------- MODULE EventLifecycle ---------------------------
(***************************************************************************)
(* Starting, ending and closing the events of one facility                 *)
(* (packages/server/lib/capabilities/events.ts, start.ts, journal.ts,      *)
(* engine.ts; lib/events/state-machine.ts;                                 *)
(* app/(app)/start/_lib/confirmation.ts, app/(app)/events/[id]/api).       *)
(*                                                                         *)
(* A client previews the consequence, confirms it and submits a command    *)
(* under an idempotency key; it may submit the same command again, while   *)
(* the first request still runs or long after it.  A request issues the    *)
(* human confirmation in a transaction of its own, reads its clock, and    *)
(* runs the capability in a second one: claim the key, lock the event row  *)
(* and the facility row, check, write everything, commit.  Locks are held  *)
(* to the end, and a transaction that does not commit leaves no trace.     *)
(***************************************************************************)
EXTENDS Naturals, Sequences, FiniteSets

CONSTANTS
    Event,          \* event records the facility may come to have
    Command,        \* submissions, one idempotency key each
    Request,        \* HTTP requests; several may carry one command
    Kind,           \* Kind[c]: the capability command c asks for
    Staff,          \* TRUE: staff roster, humans confirm; FALSE: synthetic
    Opening,        \* events that are already active when the model starts
    MaxPreviews,    \* bound on consequence previews
    None            \* nobody, nothing

Kinds == {"start", "all-clear", "reactivate", "close", "join", "post"}

ASSUME LifecycleAssumption ==
    /\ Kind \in [Command -> Kinds] /\ Staff \in BOOLEAN
    /\ Opening \subseteq Event /\ MaxPreviews \in Nat

VARIABLES
    clock,      \* last stamp handed out; every stamp is later than the last
    row,        \* row[e]: the event's row
    journal,    \* journal[e]: its lifecycle facts and posts, in sequence
    outbox,     \* notification intents retained with their outbox rows
    preview,    \* consequence previews on record
    confirmed,  \* human confirmations, by identity
    input,      \* input[c]: what the client put into command c
    idem,       \* idem[c]: the completed idempotency record, or None
    claim,      \* claim[c]: request whose open transaction inserted the record
    rowLock,    \* rowLock[e]: request that holds the event row
    facLock,    \* request that holds the facility row
    pc, cmd,    \* where each request is, and the command it carries
    stamp,      \* its server time
    read,       \* the row, and the active events, it read under its locks
    answer,     \* what it told the client
    among       \* history: among[e], the active events when e was started

records  == <<row, journal, outbox, idem, among>>
evidence == <<preview, confirmed, input, clock>>
locks    == <<claim, rowLock, facLock>>
request  == <<pc, cmd, stamp, read, answer>>
vars     == <<records, evidence, locks, request>>

NoPreview == [purpose |-> "none", event |-> None, seen |-> {},
              partners |-> FALSE, at |-> 0, epoch |-> 0]
NoRow     == [status |-> "none", activatedAt |-> 0, allClearAt |-> 0,
              reactivatedAt |-> 0, preview |-> NoPreview]
NoRead    == [row |-> NoRow, active |-> {}]
Unissued  == [status |-> "none", digest |-> <<>>]
Told(kind, result) == [kind |-> kind, result |-> result]
Untold    == Told("none", None)

InService == {e \in Event : row[e].status # "none"}
ActiveEvents == {e \in Event : row[e].status = "active"}

\* The statuses a transition leaves from and leads to.
StateMachine ==
    [k \in {"all-clear", "reactivate", "close"} |->
        CASE k = "all-clear"  -> [from |-> "active", to |-> "all-clear"]
          [] k = "reactivate" -> [from |-> "all-clear", to |-> "active"]
          [] k = "close"      -> [from |-> "all-clear", to |-> "closed"]]

Transitions == DOMAIN StateMachine
Purpose(k) == CASE k = "start" -> "activation" [] k = "all-clear" -> "all-clear"
                [] k = "reactivate" -> "reactivation" [] OTHER -> "none"

RowStatuses == {"none", "active", "all-clear", "closed"}

PreviewRecord == [purpose : {"none", "activation", "all-clear", "reactivation"},
                  event : Event \cup {None}, seen : SUBSET Event,
                  partners : BOOLEAN, at : Nat, epoch : Nat]
RowRecord     == [status : RowStatuses, activatedAt : Nat, allClearAt : Nat,
                  reactivatedAt : Nat, preview : PreviewRecord]
InputRecord   == [event : Event \cup {None}, preview : PreviewRecord]
IdemRecord    == [event : Event, upto : Nat]
ReadRecord    == [row : RowRecord, active : SUBSET Event]
Confirmation  == [status : {"none", "issued", "consumed"}, digest : Seq(Nat)]

\* None is nobody, and no record.
ASSUME NoneAssumption ==
    /\ None \notin Event \cup Command \cup Request
    /\ None \notin InputRecord \cup IdemRecord
    /\ None \notin [event : Event, status : RowStatuses]

TypeOK ==
    /\ clock \in Nat
    /\ row \in [Event -> RowRecord]
    /\ journal \in [Event -> Seq([kind : Kinds, cmd : Command \cup {None}])]
    /\ outbox \subseteq [event : Event, population : {"roster", "partner"},
                         purpose : {"activation", "all-clear", "reactivation"},
                         at : 0..clock]
    /\ preview \subseteq PreviewRecord /\ IsFiniteSet(preview)
    /\ Cardinality(preview) =< MaxPreviews
    /\ confirmed \in [Command \cup Request -> Confirmation]
    /\ input \in [Command -> InputRecord \cup {None}]
    /\ idem \in [Command -> IdemRecord \cup {None}]
    /\ claim \in [Command -> Request \cup {None}]
    /\ rowLock \in [Event -> Request \cup {None}]
    /\ facLock \in Request \cup {None}
    /\ pc \in [Request -> {"new", "confirm", "stamp", "claim", "row",
                           "facility", "locked", "done"}]
    /\ cmd \in [Request -> Command \cup {None}]
    /\ stamp \in [Request -> 0..clock]
    /\ read \in [Request -> ReadRecord]
    /\ \A q \in Request : answer[q].kind \in {"none", "done", "refused", "failed"}
    /\ among \in [Event -> SUBSET Event]

\* An event of Opening was started from a preview that saw no other event.
OpeningPreview(b) == [NoPreview EXCEPT !.purpose = "activation", !.partners = b]

Init ==
    /\ clock = 1
    /\ \E b \in BOOLEAN :
         /\ row = [e \in Event |->
               IF e \in Opening
               THEN [NoRow EXCEPT !.status = "active", !.activatedAt = 1,
                                  !.preview = OpeningPreview(b)]
               ELSE NoRow]
         /\ outbox = [event : Opening, purpose : {"activation"}, at : {1},
                      population : {"roster"} \cup {p \in {"partner"} : b}]
    /\ journal = [e \in Event |-> IF e \in Opening
                                  THEN <<[kind |-> "start", cmd |-> None]>>
                                  ELSE <<>>]
    /\ preview = {}
    /\ confirmed = [i \in Command \cup Request |-> Unissued]
    /\ input = [c \in Command |-> None]
    /\ idem = [c \in Command |-> None]
    /\ claim = [c \in Command |-> None]
    /\ rowLock = [e \in Event |-> None] /\ facLock = None
    /\ pc = [q \in Request |-> "new"]
    /\ cmd = [q \in Request |-> None]
    /\ stamp = [q \in Request |-> 0]
    /\ read = [q \in Request |-> NoRead]
    /\ answer = [q \in Request |-> Untold]
    /\ among = [e \in Event |-> {}]
-----------------------------------------------------------------------------
(* What a request works on. *)
AskedKind(q)    == Kind[cmd[q]]
AskedEvent(q)   == input[cmd[q]].event
AskedPreview(q) == input[cmd[q]].preview

\* Variant: nothing but the status decides whether a preview is current.
StateChangedAtIgnored(r, purpose) == 0
\* When the event entered the state a preview must have been made in.
StateChangedAt(r, purpose) ==
    IF purpose = "all-clear"
    THEN IF r.reactivatedAt # 0 THEN r.reactivatedAt ELSE r.activatedAt
    ELSE r.allClearAt

PreviewMatches(p, e, r, purpose) ==
    /\ p.event = e /\ p.purpose = purpose
    /\ p.at >= StateChangedAt(r, purpose)

CloseDigest(r) == <<r.activatedAt, r.allClearAt, r.reactivatedAt>>
Digest(q, r) == IF AskedKind(q) = "close" THEN CloseDigest(r)
                ELSE <<AskedPreview(q).at>>

NeedsHuman(k) == Staff /\ k \in {"start"} \cup Transitions

\* The confirmation of a start is named after its key; every other one is new.
ConfirmationId(q) == IF AskedKind(q) = "start" THEN cmd[q] ELSE q

\* Where the first n entries of the journal move the event.
Moves(e, n) == {i \in 1..n : journal[e][i].kind \in {"start"} \cup Transitions}
Epoch(e)    == Cardinality(Moves(e, Len(journal[e])))

LastOf(places) == CHOOSE i \in places : \A j \in places : j =< i

\* An event as the journal up to entry n leaves it.
EventAsOf(e, n) ==
    LET k == journal[e][LastOf(Moves(e, n))].kind IN
    IF k = "start" THEN "active" ELSE StateMachine[k].to

\* The result a retained reference stands for.
Hydrated(reference) == [event |-> reference.event,
                        status |-> EventAsOf(reference.event, reference.upto)]
-----------------------------------------------------------------------------
(* Consequence previews. *)
Tick == clock' = clock + 1
RoomForPreview == Cardinality(preview) < MaxPreviews

PreviewActivation ==
    /\ RoomForPreview /\ Tick
    /\ \E partners \in BOOLEAN :
          preview' = preview \cup
              {[NoPreview EXCEPT !.purpose = "activation", !.at = clock + 1,
                                 !.seen = ActiveEvents, !.partners = partners]}
    /\ UNCHANGED <<records, confirmed, input, locks, request>>

\* Variant: the partners are looked up again.
PartnersLookedUp(e) == BOOLEAN
\* Partners a lifecycle message reaches: those the activation reached.
PartnersReached(e) == {row[e].preview.partners}

\* The event row is read under a share lock: not while somebody holds it.
PreviewLifecycle(e) ==
    /\ RoomForPreview /\ rowLock[e] = None /\ Tick
    /\ \E purpose \in {"all-clear", "reactivation"}, b \in PartnersReached(e) :
          /\ row[e].status = IF purpose = "all-clear" THEN "active" ELSE "all-clear"
          /\ preview' = preview \cup
                 {[NoPreview EXCEPT !.purpose = purpose, !.event = e,
                      !.partners = b, !.at = clock + 1, !.epoch = Epoch(e)]}
    /\ UNCHANGED <<records, confirmed, input, locks, request>>
-----------------------------------------------------------------------------
(* A request: submission, confirmation, server time. *)
GoTo(q, step) == pc' = [pc EXCEPT ![q] = step]

Inputs(k) ==
    IF k \in {"start", "all-clear", "reactivate"}
    THEN {[event |-> p.event, preview |-> p] :
              p \in {p \in preview : p.purpose = Purpose(k)}}
    ELSE [event : InService, preview : {NoPreview}]

\* The first request of a command fixes its input; a retry repeats it.
Submit(q, c) ==
    /\ pc[q] = "new"
    /\ \E i \in Inputs(Kind[c]) :
          /\ input[c] \in {None, i}
          /\ input' = [input EXCEPT ![c] = i]
    /\ cmd' = [cmd EXCEPT ![q] = c]
    /\ GoTo(q, IF NeedsHuman(Kind[c]) THEN "confirm"
               ELSE IF Kind[c] \in {"start"} \cup Transitions THEN "stamp"
               ELSE "claim")
    /\ UNCHANGED <<records, preview, confirmed, clock, locks, stamp, read, answer>>

Answered(q, kind) ==
    /\ answer' = [answer EXCEPT ![q] = Told(kind, None)]
    /\ GoTo(q, "done")

Issue(id, digest) ==
    confirmed' = [confirmed EXCEPT ![id] = [status |-> "issued", digest |-> digest]]

\* Issuance is keyed by the submission: a retry finds the confirmation of the
\* first request, used or not, and the time it returns is the server time.
ConfirmStart(q) ==
    /\ pc[q] = "confirm" /\ AskedKind(q) = "start"
    /\ IF confirmed[cmd[q]] = Unissued
       THEN Issue(cmd[q], <<AskedPreview(q).at>>)
       ELSE UNCHANGED confirmed
    /\ Tick /\ stamp' = [stamp EXCEPT ![q] = clock + 1]
    /\ GoTo(q, "claim")
    /\ UNCHANGED <<records, preview, input, locks, cmd, read, answer>>

\* All-clear and close: a fresh confirmation while the event is in the state
\* the action leaves from, none when it has moved past it, else a refusal.
\* No route issues one for a reactivation.
ConfirmEnd(q) ==
    LET e == AskedEvent(q)  r == row[e]  k == AskedKind(q)
        current == /\ k \in {"all-clear", "close"}
                   /\ r.status = StateMachine[k].from
                   /\ k = "all-clear" =>
                         PreviewMatches(AskedPreview(q), e, r, "all-clear")
        past == \/ k = "all-clear" /\ r.status \in {"all-clear", "closed"}
                \/ k = "close" /\ r.status = "closed"
    IN  /\ pc[q] = "confirm" /\ k \in Transitions
        /\ rowLock[e] = None
        /\ \/ current /\ Issue(q, Digest(q, r)) /\ GoTo(q, "stamp")
                      /\ UNCHANGED answer
           \/ past /\ GoTo(q, "stamp") /\ UNCHANGED <<confirmed, answer>>
           \/ ~current /\ ~past /\ Answered(q, "refused") /\ UNCHANGED confirmed
        /\ UNCHANGED <<records, preview, input, clock, locks, cmd, stamp, read>>

\* new Date() on the application server, before the transaction opens.
ReadServerTime(q) ==
    /\ pc[q] = "stamp" /\ Tick
    /\ stamp' = [stamp EXCEPT ![q] = clock + 1]
    /\ GoTo(q, "claim")
    /\ UNCHANGED <<records, preview, confirmed, input, locks, cmd, read, answer>>
-----------------------------------------------------------------------------
(* A request: the capability's transaction. *)

\* The insert on the unique key waits for the transaction that inserted first
\* and finds its record once that has committed.
KeyUnclaimed(q) == claim[cmd[q]] = None /\ idem[cmd[q]] = None

Claim(q) ==
    /\ pc[q] = "claim" /\ KeyUnclaimed(q)
    /\ claim' = [claim EXCEPT ![cmd[q]] = q]
    /\ GoTo(q, IF AskedKind(q) = "start" THEN "facility" ELSE "row")
    /\ UNCHANGED <<records, evidence, rowLock, facLock, cmd, stamp, read, answer>>

\* What a request knew ends with it.
Forget(q) == /\ stamp' = [stamp EXCEPT ![q] = 0]
             /\ read' = [read EXCEPT ![q] = NoRead]

Replay(q) ==
    /\ pc[q] = "claim" /\ claim[cmd[q]] = None /\ idem[cmd[q]] # None
    /\ answer' = [answer EXCEPT ![q] = Told("done", Hydrated(idem[cmd[q]]))]
    /\ GoTo(q, "done") /\ Forget(q)
    /\ UNCHANGED <<records, evidence, locks, cmd>>

\* Variant: the event row is read without FOR UPDATE.
RowUnlocked(e) == TRUE
RowFree(e) == rowLock[e] = None

LockRow(q) ==
    /\ pc[q] = "row" /\ RowFree(AskedEvent(q))
    /\ rowLock' = [rowLock EXCEPT ![AskedEvent(q)] = q]
    /\ read' = [read EXCEPT ![q].row = row[AskedEvent(q)]]
    /\ GoTo(q, IF AskedKind(q) = "post" THEN "locked" ELSE "facility")
    /\ UNCHANGED <<records, evidence, claim, facLock, cmd, stamp, answer>>

\* Variant: the facility row is read without FOR UPDATE.
FacilityUnlocked == TRUE
FacilityFree == facLock = None

LockFacility(q) ==
    /\ pc[q] = "facility" /\ FacilityFree
    /\ facLock' = q
    /\ read' = [read EXCEPT ![q].active = ActiveEvents]
    /\ GoTo(q, "locked")
    /\ UNCHANGED <<records, evidence, claim, rowLock, cmd, stamp, answer>>

\* Variant: the record inserted first survives a rollback.
ReleaseLocksOnly(q) ==
    /\ claim' = claim
    /\ rowLock' = [e \in Event |-> IF rowLock[e] = q THEN None ELSE rowLock[e]]
    /\ facLock' = IF facLock = q THEN None ELSE facLock
\* Commit and rollback release everything the transaction held.
Release(q) ==
    /\ claim' = [c \in Command |-> IF claim[c] = q THEN None ELSE claim[c]]
    /\ rowLock' = [e \in Event |-> IF rowLock[e] = q THEN None ELSE rowLock[e]]
    /\ facLock' = IF facLock = q THEN None ELSE facLock

Authorized(q) ==
    NeedsHuman(AskedKind(q)) =>
        confirmed[ConfirmationId(q)] =
            [status |-> "issued", digest |-> Digest(q, read[q].row)]

\* Clocks of the row only move forward (the guard trigger on events).
KeepsTime(k, r, at) ==
    CASE k = "all-clear"  -> /\ at > r.allClearAt
                             /\ at >= StateChangedAt(r, "all-clear")
      [] k = "reactivate" -> at > r.reactivatedAt /\ at >= r.allClearAt
      [] k = "close"      -> at >= r.allClearAt

Permitted(q) ==
    LET k == AskedKind(q)  r == read[q].row IN
    /\ Authorized(q)
    /\ k = "start" => /\ read[q].active = AskedPreview(q).seen
                      /\ \E e \in Event : row[e].status = "none"
    /\ k \in Transitions =>
          /\ r.status = StateMachine[k].from
          /\ k # "close" =>
                PreviewMatches(AskedPreview(q), AskedEvent(q), r, Purpose(k))
          /\ row[AskedEvent(q)].status = StateMachine[k].from
          /\ KeepsTime(k, row[AskedEvent(q)], stamp[q])
    /\ k = "join" => r.status = "active"
    /\ k = "post" => r.status \notin {"none", "closed"}

Consume(q) ==
    confirmed' = IF NeedsHuman(AskedKind(q))
                 THEN [confirmed EXCEPT ![ConfirmationId(q)].status = "consumed"]
                 ELSE confirmed

Moved(r, k, at) ==
    [r EXCEPT !.status = StateMachine[k].to,
              !.allClearAt = IF k = "all-clear" THEN at ELSE @,
              !.reactivatedAt = IF k = "reactivate" THEN at ELSE @]

\* One outbox row for the roster, and one for the partners the preview pinned.
Notify(q, e) ==
    outbox' = outbox \cup
        {[event |-> e, purpose |-> Purpose(AskedKind(q)), at |-> stamp[q],
          population |-> p] :
            p \in {"roster"} \cup {x \in {"partner"} : AskedPreview(q).partners}}

\* Journal fact, completed idempotency record and answer for event e.
Record(q, e, status) ==
    /\ journal' = [journal EXCEPT ![e] =
                      Append(@, [kind |-> AskedKind(q), cmd |-> cmd[q]])]
    /\ idem' = [idem EXCEPT ![cmd[q]] =
                   [event |-> e, upto |-> Len(journal[e]) + 1]]
    /\ answer' = [answer EXCEPT ![q] =
                     Told("done", [event |-> e, status |-> status])]

CommitStart(q) ==
    \E e \in Event :
        /\ AskedKind(q) = "start" /\ row[e].status = "none"
        /\ row' = [row EXCEPT ![e] = [NoRow EXCEPT !.status = "active",
                                          !.activatedAt = stamp[q],
                                          !.preview = AskedPreview(q)]]
        /\ among' = [among EXCEPT ![e] = ActiveEvents]
        /\ Notify(q, e) /\ Record(q, e, "active")

CommitTransition(q) ==
    LET e == AskedEvent(q)  k == AskedKind(q) IN
        /\ k \in Transitions
        /\ row' = [row EXCEPT ![e] = Moved(@, k, stamp[q])]
        /\ IF k = "close" THEN UNCHANGED outbox ELSE Notify(q, e)
        /\ Record(q, e, StateMachine[k].to) /\ UNCHANGED among

CommitEntry(q) ==
    /\ AskedKind(q) \in {"join", "post"}
    /\ Record(q, AskedEvent(q), read[q].row.status)
    /\ UNCHANGED <<row, outbox, among>>

Commit(q) ==
    /\ pc[q] = "locked" /\ Permitted(q)
    /\ CommitStart(q) \/ CommitTransition(q) \/ CommitEntry(q)
    /\ Consume(q) /\ Release(q) /\ Forget(q) /\ GoTo(q, "done")
    /\ UNCHANGED <<preview, input, clock, cmd>>

Refuse(q) ==
    /\ pc[q] = "locked" /\ ~Permitted(q)
    /\ Answered(q, "refused") /\ Release(q) /\ Forget(q)
    /\ UNCHANGED <<records, evidence, cmd>>

\* The process or its connection dies, or a check left out here refuses (an
\* expired preview or confirmation, a channel switched off, wording missing).
Fail(q) ==
    /\ pc[q] \in {"facility", "row", "locked"}
    /\ Answered(q, "failed") /\ Release(q) /\ Forget(q)
    /\ UNCHANGED <<records, evidence, cmd>>

Step(q) == \/ ConfirmStart(q) \/ ConfirmEnd(q) \/ ReadServerTime(q)
           \/ Claim(q) \/ Replay(q) \/ LockRow(q) \/ LockFacility(q)
           \/ Commit(q) \/ Refuse(q)

Next == \/ PreviewActivation
        \/ \E e \in Event : PreviewLifecycle(e)
        \/ \E q \in Request : Step(q) \/ Fail(q) \/ \E c \in Command : Submit(q, c)

\* PostgreSQL serves a waiting lock and a running request goes on; nobody has
\* to submit anything.
Spec == Init /\ [][Next]_vars /\ \A q \in Request : WF_vars(Step(q))
-----------------------------------------------------------------------------
(* Properties. *)

\* Nobody starts an event without having been shown every event that was
\* active at that moment (startSource compares the list the operator saw with
\* the list read under the facility lock), whatever ran in between; and the
\* rows are well-formed.
StartedAsShown ==
    /\ TypeOK
    /\ \A e \in Event : row[e].status # "none" => among[e] = row[e].preview.seen

\* An all-clear or a reactivation follows a preview made in the very state it
\* ends: a preview of an earlier activation of the same event is never
\* enough, although its purpose and the event's status fit.
PreviewedInItsState ==
    \A e \in Event : \A i \in DOMAIN journal[e] :
        LET x == journal[e][i] IN
        (x.cmd # None /\ x.kind \in {"all-clear", "reactivate"}) =>
            input[x.cmd].preview.epoch = Cardinality(Moves(e, i - 1))

\* Whoever was alerted is told the end: the partners get a later message of an
\* event exactly when its activation went to partners.
SameAudience ==
    \A m \in outbox : m.population = "roster" =>
        (([m EXCEPT !.population = "partner"] \in outbox) <=>
            row[m.event].preview.partners)

\* Every request gets an answer: no order of waits for the key, the event row
\* and the facility row leaves requests waiting for each other, and a
\* request that died leaves nothing behind that the next one waits for.
AllAnswered == \A q \in Request : pc[q] \in {"new", "done"}
EveryRequestAnswered == <>[]AllAnswered

\* Commands are atomic, happen at most once whatever is sent again, and every
\* client that is told of success is told the command's own result, also when
\* the event has moved on since.  Nobody joins an event that is not active
\* and nobody posts to a closed one: only the row lock orders a post
\* against a close.
Abstract == INSTANCE AtomicCommands WITH
    status <- [e \in Event |-> row[e].status],
    done   <- [c \in Command |->
                  IF idem[c] = None THEN None
                  ELSE [event |-> idem[c].event,
                        status |-> EventAsOf(idem[c].event, idem[c].upto)]],
    told   <- {<<cmd[q], answer[q].result>> :
                  q \in {q \in Request : answer[q].kind = "done"}}

CommandsAreAtomic == Abstract!Spec
=============================================================================
