------------------------- MODULE RosterPublication -------------------------
(***************************************************************************)
(* Publishing the staff roster while what it is made of changes            *)
(* (packages/server/lib/roster/groups-sync.ts, scheduled-publish.ts,       *)
(* lib/capabilities/sms-consent.ts, app/(admin)/facilities/                *)
(* roster-publish.ts, scripts/operations/sync-access-membership.ts).       *)
(*                                                                         *)
(* An activation reaches whom the latest snapshot names.  A publication    *)
(* reserves an idempotency key, reads the configuration and the snapshot   *)
(* in force, each source's list, and the contacts, every one in a          *)
(* transaction of its own, and then publishes in one more.  It is started  *)
(* by the schedule, by a consent or a withdrawal that has committed, by a  *)
(* list that was saved, or by hand; any may run at the same time.          *)
(* Ids and stamps count the edits: the n-th edit makes consent, device     *)
(* registration or configuration n.                                        *)
(***************************************************************************)
EXTENDS Naturals, FiniteSets

CONSTANTS
    Person,
    Subscriber,              \* people whose consents and devices change
    Source,             \* the configuration's building sources
    Manual,             \* sources whose list is kept by hand
    Lists,              \* lists that occur
    Call,               \* publications at one time
    MinimumRemovals,    \* 5: fewer removals are never suspicious
    RemainingPercent,   \* 80: so many percent left are never suspicious
    Edits,              \* kinds of edit that happen
    MaxEdits,           \* bound on edits
    MaxCommands,        \* bound on consent changes, saves and hand publications
    MaxFaults,          \* bound on deaths, repeated requests and lost updates
    None

EditKinds == {"refresh", "save", "consent", "device", "configuration"}

\* Everybody is a list that occurs, and nobody where Google may have no group.
ASSUME RosterAssumption ==
    /\ Subscriber \subseteq Person /\ IsFiniteSet(Person)
    /\ Lists \subseteq SUBSET Person /\ Person \in Lists
    /\ Source # Manual => {} \in Lists
    /\ Manual \subseteq Source /\ Edits \subseteq EditKinds
    /\ MinimumRemovals \in Nat /\ RemainingPercent \in 0..100
    /\ MaxEdits \in Nat /\ MaxCommands \in Nat /\ MaxFaults \in Nat

VARIABLES
    edits,      \* number of edits so far
    members,    \* members[s]: the list of source s
    waiting,    \* sources for which Google has no group yet
    config,     \* the latest configuration
    consent,    \* consent[p]: live consent to texts, or 0
    device,     \* device[p]: live push registration, or 0
    snapshot,   \* the snapshot in force
    record,     \* record[k]: idempotency record of key k
    issued,     \* keys of commands made so far
    call,       \* call[c]: one publication
    faults,
    published   \* history: published[k], snapshots published under key k

facts == <<edits, members, waiting, config, consent, device>>
keys  == <<record, issued>>
vars  == <<facts, snapshot, keys, call, faults, published>>

\* Keys of commands, and the key of the scheduled occurrence.
Occurrence == MaxCommands + 1
Key == 1..Occurrence
Stamp == 0..MaxEdits
ASSUME NoneAssumption == None \notin Key

Contacts == [Subscriber -> [sms : Stamp, push : Stamp]]
NoContacts == [p \in Subscriber |-> [sms |-> 0, push |-> 0]]

NoRecord == [status |-> "none", by |-> "none", config |-> 0, since |-> 0,
             result |-> "none", holds |-> 0]
Resting == [at |-> "idle", by |-> "none", key |-> None, config |-> 0, since |-> 0,
            waiting |-> {}, unread |-> {}, was |-> [s \in Source |-> 0],
            lists |-> [s \in Source |-> None], contacts |-> NoContacts,
            from |-> 0, upto |-> 0, current |-> FALSE, answer |-> "none"]

Origins  == {"none", "scheduled", "consent", "save", "hand"}
Results  == {"none", "published", "refused", "shrunk"}
RowType  == [status : {"none", "in-progress", "completed", "failed"}, by : Origins,
             config : Stamp, since : Stamp, result : Results, holds : Stamp]
CallType == [at : {"idle", "reserve", "load", "baseline", "read", "contacts",
                   "publish", "failing", "done"},
             by : Origins, key : Key \cup {None}, config : Stamp, since : Stamp,
             waiting : SUBSET Source, unread : SUBSET Source,
             was : [Source -> Nat], lists : [Source -> Lists \cup {None}],
             contacts : Contacts, from : Stamp, upto : Stamp, current : BOOLEAN,
             answer : Results \cup {"failed"}]

TypeOK ==
    /\ edits \in Stamp /\ config \in Stamp
    /\ members \in [Source -> Lists] /\ waiting \subseteq Source \ Manual
    /\ consent \in [Subscriber -> Stamp] /\ device \in [Subscriber -> Stamp]
    /\ snapshot \in [config : Stamp, lists : [Source -> Lists],
                     contacts : Contacts, from : Stamp, upto : Stamp]
    /\ record \in [Key -> RowType] /\ issued \in 0..MaxCommands
    /\ call \in [Call -> CallType]
    /\ faults \in 0..MaxFaults
    /\ published \in [Key -> Nat]

Init ==
    /\ edits = 0 /\ config = 0
    /\ waiting \in SUBSET (Source \ Manual)
    /\ members = [s \in Source |-> IF s \in waiting THEN {} ELSE Person]
    /\ consent = [p \in Subscriber |-> 0] /\ device = [p \in Subscriber |-> 0]
    /\ snapshot = [config |-> 0, lists |-> members, contacts |-> NoContacts,
                   from |-> 0, upto |-> 0]
    /\ record = [k \in Key |-> NoRecord]
    /\ issued = 0
    /\ call = [c \in Call |-> Resting]
    /\ faults = 0
    /\ published = [k \in Key |-> 0]
-----------------------------------------------------------------------------
(* Edits. *)
Edit(kind) == kind \in Edits /\ edits < MaxEdits /\ edits' = edits + 1
Fault == faults < MaxFaults /\ faults' = faults + 1

\* The membership run replaces the lists of the groups Google holds, in one
\* transaction; a group that was waited for is recorded by it.
Refresh ==
    /\ Edit("refresh")
    /\ waiting' \in SUBSET waiting
    /\ members' \in [Source -> Lists] /\ <<members, waiting>>' # <<members, waiting>>
    /\ \A s \in Manual \cup waiting' : members'[s] = members[s]
    /\ UNCHANGED <<config, consent, device, snapshot, keys, call, faults, published>>

\* A phone registers for push, or is unregistered.
DeviceChange(p) ==
    /\ Edit("device")
    /\ device' \in {[device EXCEPT ![p] = edits + 1], [device EXCEPT ![p] = 0]}
    /\ device' # device
    /\ UNCHANGED <<members, waiting, config, consent, snapshot, keys, call, faults,
                   published>>

Reconfigure ==
    /\ Edit("configuration") /\ config' = edits + 1
    /\ UNCHANGED <<members, waiting, consent, device, snapshot, keys, call, faults,
                   published>>
-----------------------------------------------------------------------------
(* How a publication begins. *)
Ended(c) == call[c].at \in {"idle", "done"}

Begins(c, by, k, since) ==
    call' = [call EXCEPT ![c] = [Resting EXCEPT !.at = "reserve", !.by = by,
                 !.key = k, !.config = config, !.since = since]]

\* Variant: the key names the hour and not the change.
ConstantKey == Occurrence
\* The key of the next command: it names the change or the save.
CommandKey == issued + 1

Command(c, by, since) ==
    /\ Ended(c) /\ issued < MaxCommands /\ issued' = issued + 1
    /\ Begins(c, by, CommandKey, since)

\* The consent commits first, then its publication begins.
ConsentChange(c, p) ==
    /\ Edit("consent")
    /\ consent' \in {[consent EXCEPT ![p] = edits + 1], [consent EXCEPT ![p] = 0]}
    /\ consent' # consent
    /\ Command(c, "consent", edits + 1)
    /\ UNCHANGED <<members, waiting, config, device, snapshot, record, faults,
                   published>>

Save(c, s) ==
    /\ Edit("save")
    /\ s \in Manual
    /\ \E list \in Lists :
          list # members[s] /\ members' = [members EXCEPT ![s] = list]
    /\ Command(c, "save", edits + 1)
    /\ UNCHANGED <<waiting, config, consent, device, snapshot, record, faults,
                   published>>

PublishByHand(c) ==
    /\ Command(c, "hand", edits)
    /\ UNCHANGED <<facts, snapshot, record, faults, published>>

\* Variant: every occurrence has the same key.
SameForever == record
\* Each occurrence has a key of its own.
Renewed == [record EXCEPT ![Occurrence] = NoRecord]

\* Every two hours.  An execution lasts minutes: none of the occurrence before
\* is left.
Scheduled(c) ==
    /\ Ended(c) /\ \A d \in Call : ~Ended(d) => call[d].key # Occurrence
    /\ record' = Renewed
    /\ published' = [published EXCEPT ![Occurrence] = 0]
    /\ Begins(c, "scheduled", Occurrence, 0)
    /\ UNCHANGED <<facts, snapshot, issued, faults>>

\* A form sent again, a redelivered occurrence, a replayed consent.
Repeat(c) ==
    /\ Ended(c) /\ Fault
    /\ \E k \in {k \in Key : record[k].status # "none"} :
          Begins(c, record[k].by, k, record[k].since)
    /\ UNCHANGED <<facts, snapshot, keys, published>>
-----------------------------------------------------------------------------
(* The steps of a publication. *)
Goes(c, step) == call' = [call EXCEPT ![c].at = step]
Ends(c, answer) ==
    call' = [call EXCEPT ![c] = [Resting EXCEPT !.at = "done", !.answer = answer,
                 !.by = call[c].by, !.key = call[c].key, !.since = call[c].since]]

\* The record is in progress and may be older than 15 minutes: then whoever
\* finds it calls it abandoned, dead or not.
Reserve(c) ==
    LET k == call[c].key  r == record[k] IN
    /\ call[c].at = "reserve"
    /\ \/ /\ r.status = "none"
          /\ record' = [record EXCEPT ![k] = [NoRecord EXCEPT
                 !.status = "in-progress", !.by = call[c].by,
                 !.config = call[c].config,
                 !.since = call[c].since]]
          /\ Goes(c, "load")
       \/ /\ r.status # "none" /\ r.config # call[c].config
          /\ Ends(c, "failed") /\ UNCHANGED record
       \/ /\ r.status = "in-progress" /\ r.config = call[c].config
          /\ record' \in {record, [record EXCEPT ![k].status = "failed"]}
          /\ Ends(c, "failed")
       \/ /\ r.status = "failed" /\ r.config = call[c].config
          /\ Ends(c, "failed") /\ UNCHANGED record
       \/ /\ r.status = "completed" /\ r.config = call[c].config
          /\ Ends(c, r.result) /\ UNCHANGED record
    /\ UNCHANGED <<facts, snapshot, issued, faults, published>>

\* The configuration's sources.
Load(c) ==
    /\ call[c].at = "load"
    /\ call' = [call EXCEPT ![c].at = "baseline", ![c].waiting = waiting]
    /\ UNCHANGED <<facts, snapshot, keys, faults, published>>

\* The snapshot in force: the publication is going to replace that one and no
\* other.
LoadBaseline(c) ==
    /\ call[c].at = "baseline"
    /\ call' = [call EXCEPT
           ![c].at = IF call[c].config < snapshot.config THEN "failing" ELSE "read",
           ![c].from = edits, ![c].current = TRUE,
           ![c].was = [s \in Source |-> Cardinality(snapshot.lists[s])]]
    /\ UNCHANGED <<facts, snapshot, keys, faults, published>>

ToRead(c) == {s \in Source : call[c].lists[s] = None} \ call[c].unread

ReadList(c, s) ==
    /\ call[c].at = "read" /\ s \in ToRead(c)
    /\ \/ call' = [call EXCEPT ![c].lists[s] = members[s]] /\ UNCHANGED faults
       \/ call' = [call EXCEPT ![c].unread = @ \cup {s}] /\ Fault
    /\ UNCHANGED <<facts, snapshot, keys, published>>

\* A building that names nobody, or lost many at once.
Suspicious(was, is) ==
    \/ is = 0
    \/ was >= is + MinimumRemovals /\ is * 100 < was * RemainingPercent

\* A source that is waited for is expected to name nobody.
Shrunk(c) == {s \in Source \ (call[c].unread \cup call[c].waiting) :
                 Suspicious(call[c].was[s], Cardinality(call[c].lists[s]))}

\* Variant: the reservation counts although somebody called it abandoned.
ReservedOnce(c) == record[call[c].key].status # "completed"
\* The reservation is still in progress when the result is written.
Reserved(c) == record[call[c].key].status = "in-progress"

\* recordRejected.
Reject(c, result) ==
    \/ /\ Reserved(c) /\ Ends(c, result)
       /\ record' = [record EXCEPT ![call[c].key].status = "completed",
                                   ![call[c].key].result = result]
    \/ ~Reserved(c) /\ Goes(c, "failing") /\ UNCHANGED record

\* The result says why: "shrunk" if all that is wrong is buildings that lost
\* too many of their people, but not all.
Judge(c) ==
    /\ call[c].at = "read" /\ ToRead(c) = {}
    /\ \/ /\ call[c].unread = {} /\ Shrunk(c) = {}
          /\ Goes(c, "contacts") /\ UNCHANGED record
       \/ /\ call[c].unread = {} /\ Shrunk(c) # {}
          /\ \A s \in Shrunk(c) : call[c].lists[s] # {}
          /\ Reject(c, "shrunk")
       \/ /\ \/ call[c].unread # {}
             \/ \E s \in Shrunk(c) : call[c].lists[s] = {}
          /\ Reject(c, "refused")
    /\ UNCHANGED <<facts, snapshot, issued, faults, published>>

\* The contacts of those the lists name, in one consistent read.
LoadContacts(c) ==
    LET named == UNION {call[c].lists[s] : s \in Source} IN
    /\ call[c].at = "contacts"
    /\ call' = [call EXCEPT ![c].at = "publish", ![c].upto = edits,
           ![c].contacts = [p \in Subscriber |->
               IF p \in named THEN [sms |-> consent[p], push |-> device[p]]
               ELSE [sms |-> 0, push |-> 0]]]
    /\ UNCHANGED <<facts, snapshot, keys, faults, published>>

\* assertPushEndpointCaptureIsCurrent; texts have no counterpart.
PushIsCurrent(c) ==
    \A p \in Subscriber : call[c].contacts[p].push \in {0, device[p]}

\* Variant: the snapshot replaced need not be the one that was loaded.
BaselineAny(c) == call[c].config >= snapshot.config
\* The snapshot in force is the one the publication was compared with.
Baseline(c) == call[c].config >= snapshot.config /\ call[c].current

Publishable(c) == /\ call[c].waiting = waiting /\ PushIsCurrent(c)
                  /\ Baseline(c) /\ Reserved(c)

\* One transaction, under the population's advisory lock.
Publish(c) ==
    LET k == call[c].key IN
    /\ call[c].at = "publish" /\ Publishable(c)
    /\ snapshot' = [config |-> call[c].config, lists |-> call[c].lists,
                    contacts |-> call[c].contacts,
                    from |-> call[c].from, upto |-> call[c].upto]
    /\ record' = [record EXCEPT ![k].status = "completed",
                      ![k].result = "published", ![k].holds = call[c].from]
    /\ published' = [published EXCEPT ![k] = @ + 1]
    /\ call' = [d \in Call |->
           IF d = c THEN [Resting EXCEPT !.at = "done", !.answer = "published",
                             !.by = call[c].by, !.key = k, !.since = call[c].since]
           ELSE [call[d] EXCEPT !.current = FALSE]]
    /\ UNCHANGED <<facts, issued, faults>>

Unpublishable(c) ==
    /\ call[c].at = "publish" /\ ~Publishable(c)
    /\ Goes(c, "failing")
    /\ UNCHANGED <<facts, snapshot, keys, faults, published>>

\* buildRecipients finds something it cannot build a recipient from.
Unbuildable(c) ==
    /\ call[c].at = "publish" /\ Fault
    /\ Reject(c, "refused")
    /\ UNCHANGED <<facts, snapshot, issued, published>>

\* failReservation.  Its own failure is ignored.
FailReservation(c) ==
    LET k == call[c].key IN
    /\ call[c].at = "failing" /\ Ends(c, "failed")
    /\ \/ /\ record' = IF Reserved(c) THEN [record EXCEPT ![k].status = "failed"]
                       ELSE record
          /\ UNCHANGED faults
       \/ Fault /\ UNCHANGED record
    /\ UNCHANGED <<facts, snapshot, issued, published>>

\* A read or a transaction fails.
Fails(c) ==
    /\ \/ call[c].at \in {"load", "baseline", "contacts", "publish"}
       \/ /\ call[c].at = "read" /\ ToRead(c) = {}
          /\ call[c].unread \cup Shrunk(c) # {}
    /\ Fault /\ Goes(c, "failing")
    /\ UNCHANGED <<facts, snapshot, keys, published>>

\* The process stops between two steps.
Dies(c) ==
    /\ ~Ended(c) /\ Fault
    /\ call' = [call EXCEPT ![c] = Resting]
    /\ UNCHANGED <<facts, snapshot, keys, published>>

Step(c) == \/ Reserve(c) \/ Load(c) \/ LoadBaseline(c)
           \/ (\E s \in Source : ReadList(c, s)) \/ Judge(c)
           \/ LoadContacts(c) \/ Publish(c) \/ Unpublishable(c) \/ FailReservation(c)

Next == \/ Refresh \/ Reconfigure
        \/ \E p \in Subscriber : DeviceChange(p)
        \/ \E c \in Call :
              \/ Step(c) \/ Unbuildable(c) \/ Fails(c) \/ Dies(c)
              \/ Scheduled(c) \/ Repeat(c) \/ PublishByHand(c)
              \/ \E p \in Subscriber : ConsentChange(c, p)
              \/ \E s \in Source : Save(c, s)

Spec == Init /\ [][Next]_vars

\* Publications go on and the schedule does not stop.
FairSpec == /\ Spec /\ \A c \in Call : WF_vars(Step(c))
            /\ WF_vars(\E c \in Call : Scheduled(c))
-----------------------------------------------------------------------------
(* Properties. *)

\* Of publications that overlap none undoes another: whatever a snapshot holds
\* was read after everything the one before it holds, its configuration is not
\* an older one, and no building shrinks between the two by what the guard
\* against a bad read refuses (publishComplete).
NeverGoesBack ==
    [][snapshot' # snapshot =>
         /\ snapshot'.from >= snapshot.upto
         /\ snapshot'.config >= snapshot.config
         /\ \A s \in Source \ waiting :
               ~Suspicious(Cardinality(snapshot.lists[s]),
                           Cardinality(snapshot'.lists[s]))]_vars

\* A key publishes once, however often its request is repeated, and never once
\* somebody called its execution abandoned and failed, even if that one is still
\* at work (reserve, completeReservation).
PublishesOnce ==
    [][\A k \in Key : published'[k] > published[k] =>
           published[k] = 0 /\ record[k].status # "failed"]_vars

\* Whoever is told that the roster is published after a save or a consent is
\* told of a publication that read everything after that change; and the rows
\* are well-formed.
SavedMeansRead ==
    /\ TypeOK
    /\ \A c \in Call : (call[c].at = "done" /\ call[c].answer = "published") =>
          record[call[c].key].holds >= call[c].since

UpToDate ==
    /\ snapshot.config = config /\ snapshot.lists = members
    /\ \A p \in Subscriber : (\E s \in Source : p \in members[s]) =>
           snapshot.contacts[p] = [sms |-> consent[p], push |-> device[p]]

Refusing == \E s \in Source \ waiting :
                Suspicious(Cardinality(snapshot.lists[s]), Cardinality(members[s]))

\* A change whose own publication was lost, refused or never begun reaches the
\* snapshot with the scheduled ones, unless the guard refuses the lists.
CaughtUp == UpToDate \/ Refusing
CatchesUp == <>[]CaughtUp

\* Publishing by hand accepts a building that shrank.
HandAcceptsTheDrop ==
    \A c \in Call : call[c].by = "hand" => call[c].answer # "shrunk"
=============================================================================
