---------------------------- MODULE PushAudience ----------------------------
(***************************************************************************)
(* Who holds a push token, and which devices a batch reaches               *)
(* (packages/server/lib/capabilities/devices.ts,                           *)
(* packages/server/lib/auth/installation-handoff.ts,                       *)
(* packages/server/lib/auth/sessions.ts,                                   *)
(* packages/server/lib/notify/expo-push-runtime-store.ts).                 *)
(*                                                                         *)
(* A roster snapshot pins who is notified; where is resolved anew for each *)
(* page of a batch and once more for each push, from the registrations     *)
(* that live.  Meanwhile people install, sign in, hand a phone over, sign  *)
(* out and reinstall, tokens die, and a provider's failures take endpoints *)
(* and registrations off the list.                                         *)
(***************************************************************************)
EXTENDS Naturals, Sequences, FiniteSets

CONSTANT Settings  \* the worlds a behaviour may be of

VARIABLE setting   \* the one it is of; it never changes

People           == setting.people            \* the recipients, in the snapshot's order
Installs         == setting.installs          \* installations of the app
Tokens           == setting.tokens            \* what the platform hands an installation
Providers        == setting.providers         \* "expo", alone or as the fallback of "apns"
Selected         == setting.selected          \* the provider of the cutover
PageSize         == setting.pageSize          \* PUSH_PAGE_SIZE
Disturbances     == setting.disturbances      \* what may happen besides installing
MaxRegistrations == setting.maxRegistrations  \* bound
MaxEnrolments    == setting.maxEnrolments     \* bound
LastBatch        == setting.lastBatch         \* bound: the last batch is made by then

NoToken == "none"

\* What a setting must be.
ASSUME AudienceAssumption ==
    \A s \in Settings :
        /\ DOMAIN s.people \subseteq Nat
        /\ \A i, j \in DOMAIN s.people : s.people[i] = s.people[j] => i = j
        /\ "expo" \in s.providers /\ s.providers \subseteq {"expo", "apns"}
        /\ s.selected \in s.providers
        /\ NoToken \notin s.tokens
        /\ s.pageSize \in Nat \ {0}
        /\ s.disturbances \subseteq
              {"hand over", "sign out", "renew", "rebuild", "uninstall", "move", "late"}

Persons == {People[i] : i \in DOMAIN People}
Open    == 0          \* a registration that nothing has ended

VARIABLES
    clock,       \* database time; steps after each batch and each push
    enrolments,  \* device_enrollments, oldest first
    regs,        \* device_push_token_registrations with their ending
    requests,    \* register-push-token under way
    holds,       \* the token each installation has on its phone
    snapshot,    \* the endpoints published: ids of registrations
    invalid,     \* endpoint_status_records
    failures,    \* failed attempts, with the token the push went to
    batch        \* the batch that is being paged and sent

vars == <<setting, clock, enrolments, regs, requests, holds, snapshot, invalid, failures, batch>>

NoBatch == [asOf |-> 0, cursor |-> 0, done |-> TRUE, todo |-> {}, handed |-> {}, got |-> {}]

Owner(r) == enrolments[regs[r].enrol].who
Held(r)  == <<regs[r].provider, regs[r].token>>
Current(p, i) == {e \in DOMAIN enrolments :
                     /\ enrolments[e].who = p /\ enrolments[e].install = i
                     /\ ~enrolments[e].revoked}

-----------------------------------------------------------------------------
\* Which registrations are live, now or at the batch's creation.

Now == 0
LiveAt(r, asOf) ==
    /\ ~enrolments[regs[r].enrol].revoked
    /\ IF asOf = Now THEN regs[r].off = Open
       ELSE regs[r].at <= asOf /\ (regs[r].off = Open \/ regs[r].off > asOf)

\* Variant: every page reads the registrations as they are.
LiveUnpinned(r, asOf) == ~enrolments[regs[r].enrol].revoked /\ regs[r].off = Open

Live(r, asOf) == LiveAt(r, asOf)

Newer(r, s) == regs[r].at > regs[s].at \/ (regs[r].at = regs[s].at /\ r > s)

Group(p, v) == {r \in DOMAIN regs : Owner(r) = p /\ regs[r].provider = v}
GoneOf(p, v, asOf)  == {e \in snapshot \cap Group(p, v) : ~Live(e, asOf)}
SpareOf(p, v, asOf) == {r \in Group(p, v) \ snapshot : Live(r, asOf)}

\* An endpoint keeps its own registration while that is live; those whose
\* registrations are gone take, in their order, the newest that no endpoint
\* holds.
Replacing(e, gone, spare) ==
    {r \in spare : Cardinality({s \in spare : Newer(s, r)})
                     = Cardinality({x \in gone : x < e})}

Only(rs) == CHOOSE r \in rs : TRUE

Assigned(own, gone, spare) ==
    LET taking == {e \in gone : Replacing(e, gone, spare) # {}}
    IN  [e \in own \cup taking |->
           IF e \in own THEN e ELSE Only(Replacing(e, gone, spare))]

Resolved(p, asOf) ==
    Assigned({e \in snapshot \cap Group(p, Selected) : Live(e, asOf)},
             GoneOf(p, Selected, asOf), SpareOf(p, Selected, asOf))

Registrations(found) == {found[e] : e \in DOMAIN found}

\* One registration of each device that no endpoint covers, the newest.
FannedOutBeside(p, claimed, asOf) ==
    LET covered == {regs[r].enrol : r \in claimed}
        free    == {r \in Group(p, Selected) \ claimed :
                       Live(r, asOf) /\ regs[r].enrol \notin covered}
    IN  {r \in free : \A s \in free :
            s # r /\ regs[s].enrol = regs[r].enrol => Newer(r, s)}

FannedOut(p, asOf) == FannedOutBeside(p, Registrations(Resolved(p, asOf)), asOf)

Candidate(p, e, r) == [who |-> p, endpoint |-> e, token |-> Held(r)]

\* A person's published endpoints that have a device, the devices besides
\* them, and the endpoints that have none.
CandidatesFrom(p, found, fanned) ==
    {Candidate(p, e, found[e]) : e \in DOMAIN found}
    \cup {Candidate(p, r, r) : r \in fanned}
    \cup {Candidate(p, e, e) : e \in {x \in snapshot : Owner(x) = p} \ DOMAIN found}

CandidatesOf(p, asOf) == CandidatesFrom(p, Resolved(p, asOf), FannedOut(p, asOf))

Candidates(asOf) == UNION {CandidatesOf(p, asOf) : p \in Persons}

\* The order in which they are paged: by person, in the turn just given, the
\* devices newest first.
Turn(c, asOf) == IF c.endpoint \notin snapshot THEN 2
                 ELSE IF c.endpoint \in DOMAIN Resolved(c.who, asOf) THEN 1 ELSE 3

Listed(p, q) == \E i, j \in DOMAIN People : i < j /\ People[i] = p /\ People[j] = q

Earlier(c, d, asOf) ==
    \/ Listed(c.who, d.who)
    \/ /\ c.who = d.who
       /\ LET m == Turn(c, asOf)
              n == Turn(d, asOf)
          IN  \/ m < n
              \/ m = n /\ IF m = 2 THEN Newer(c.endpoint, d.endpoint)
                          ELSE c.endpoint < d.endpoint

\* The policy: a published endpoint needs a live device, and no endpoint
\* may have been found invalid.
Active(c, asOf) ==
    /\ c.endpoint \notin invalid
    /\ c.endpoint \in snapshot => c.endpoint \in DOMAIN Resolved(c.who, asOf)

Reached(asOf) == {c \in Candidates(asOf) : Active(c, asOf)}

\* Variant: the page's answer is trusted at the time of the push.
SendEligibleAsPaged(c) == c.endpoint \notin invalid

\* Just before the push: a published endpoint is looked up as things stand,
\* a fanned-out device as of the batch's creation.
SendEligible(c) ==
    IF c.endpoint \in snapshot
    THEN /\ Active(c, Now)
         /\ Held(Resolved(c.who, Now)[c.endpoint]) = c.token
    ELSE /\ c.endpoint \in FannedOut(c.who, batch.asOf)
         /\ c.endpoint \notin invalid

-----------------------------------------------------------------------------
\* What ends registrations.

End(rs) == [r \in DOMAIN regs |->
              IF r \in rs /\ regs[r].off = Open
              THEN [regs[r] EXCEPT !.off = clock] ELSE regs[r]]

\* sessions.establish: whoever signs in on an installation holds it.
SignIn(p, i) ==
    /\ holds[i] # NoToken
    /\ "hand over" \in Disturbances
          \/ \A e \in DOMAIN enrolments : enrolments[e].install = i => enrolments[e].who = p
    /\ LET others == {e \in DOMAIN enrolments :
                         enrolments[e].install = i /\ enrolments[e].who # p}
           kept   == [e \in DOMAIN enrolments |->
                        IF e \in others THEN [enrolments[e] EXCEPT !.revoked = TRUE]
                        ELSE enrolments[e]]
       IN  /\ Current(p, i) = {}
           /\ Len(enrolments) < MaxEnrolments
           /\ enrolments' = Append(kept, [who |-> p, install |-> i, revoked |-> FALSE])
           /\ regs' = End({r \in DOMAIN regs : regs[r].enrol \in others})
    /\ UNCHANGED <<clock, requests, holds, snapshot, invalid, failures, batch>>

\* revoke-session: the enrolment stays, for the next sign-in of its owner.
SignOut(e) ==
    /\ "sign out" \in Disturbances
    /\ ~enrolments[e].revoked
    /\ \E r \in DOMAIN regs : regs[r].enrol = e /\ regs[r].off = Open
    /\ regs' = End({r \in DOMAIN regs : regs[r].enrol = e})
    /\ UNCHANGED <<clock, enrolments, requests, holds, snapshot, invalid, failures, batch>>

-----------------------------------------------------------------------------
\* register-push-token: its time is read before its locks are taken.

Request(e, newer) ==
    /\ ~enrolments[e].revoked
    /\ holds[enrolments[e].install] # NoToken
    /\ newer => "rebuild" \in Disturbances
    /\ \A q \in requests : q.enrol # e
    /\ Len(regs) + Cardinality(Providers) * (Cardinality(requests) + 1) <= MaxRegistrations
    /\ requests' = requests \cup {[enrol |-> e, token |-> holds[enrolments[e].install],
                                   at |-> clock, newer |-> newer]}
    /\ UNCHANGED <<clock, enrolments, regs, holds, snapshot, invalid, failures, batch>>

\* latestPushTokenFailureCutoff: a failed attempt counts against the token
\* of the registration its endpoint was published from.
FailuresOf(held, upTo) ==
    {f \in failures : Held(f.endpoint) = held /\ f.at <= upTo}

Allowed(q, v) ==
    LET known == FailuresOf(<<v, q.token>>, q.at)
        last  == {f \in known : \A g \in known : g.at <= f.at}
    IN  \A f \in last : regs[f.endpoint].enrol = q.enrol /\ f.at < q.at

Releases(q) == {r \in DOMAIN regs : regs[r].token = q.token /\ regs[r].enrol # q.enrol}

ReleasedBy(q) == Releases(q)

\* The device keeps a registration of this token by this build, unless a
\* failed attempt is no older than it.
Kept(q, v) ==
    {r \in DOMAIN regs :
        /\ regs[r].enrol = q.enrol /\ Held(r) = <<v, q.token>> /\ regs[r].off = Open
        /\ ~q.newer
        /\ \A f \in FailuresOf(<<v, q.token>>, q.at) : regs[r].at > f.at}

Register(q) ==
    /\ ~enrolments[q.enrol].revoked
    /\ \A v \in Providers : Allowed(q, v)
    /\ LET own  == {r \in DOMAIN regs : regs[r].enrol = q.enrol}
           kept == UNION {Kept(q, v) : v \in Providers}
           new  == {v \in Providers : Kept(q, v) = {}}
           Row(v) == [enrol |-> q.enrol, provider |-> v, token |-> q.token,
                      at |-> q.at, off |-> Open]
           ended == [r \in DOMAIN regs |->
                       IF r \in (ReleasedBy(q) \cup own) \ kept /\ regs[r].off = Open
                       THEN [regs[r] EXCEPT !.off = q.at] ELSE regs[r]]
       IN  regs' = ended \o (IF "expo" \in new THEN <<Row("expo")>> ELSE <<>>)
                         \o (IF "apns" \in new THEN <<Row("apns")>> ELSE <<>>)
    /\ requests' = requests \ {q}
    /\ UNCHANGED <<clock, enrolments, holds, snapshot, invalid, failures, batch>>

\* A signed-out device or a token known to be dead is turned away.
Refuse(q) ==
    /\ enrolments[q.enrol].revoked \/ \E v \in Providers : ~Allowed(q, v)
    /\ requests' = requests \ {q}
    /\ UNCHANGED <<clock, enrolments, regs, holds, snapshot, invalid, failures, batch>>

-----------------------------------------------------------------------------
\* The phones, and the platform that hands out tokens.

\* A token may outlive the installation it was handed to.
Fresh(t) == /\ \A j \in Installs : holds[j] # t
            /\ \A q \in requests : q.token # t
            /\ "move" \in Disturbances \/ \A r \in DOMAIN regs : regs[r].token # t

Install(i, t) ==
    /\ holds[i] = NoToken
    /\ \A e \in DOMAIN enrolments : enrolments[e].install # i
    /\ Fresh(t)
    /\ holds' = [holds EXCEPT ![i] = t]
    /\ UNCHANGED <<clock, enrolments, regs, requests, snapshot, invalid, failures, batch>>

Renew(i, t) ==
    /\ "renew" \in Disturbances
    /\ holds[i] # NoToken
    /\ Fresh(t)
    /\ holds' = [holds EXCEPT ![i] = t]
    /\ UNCHANGED <<clock, enrolments, regs, requests, snapshot, invalid, failures, batch>>

Uninstall(i) ==
    /\ "uninstall" \in Disturbances
    /\ holds[i] # NoToken
    /\ \A q \in requests : enrolments[q.enrol].install # i
    /\ holds' = [holds EXCEPT ![i] = NoToken]
    /\ UNCHANGED <<clock, enrolments, regs, requests, snapshot, invalid, failures, batch>>

-----------------------------------------------------------------------------
\* The roster and the batch.

Publish ==
    /\ snapshot = {} /\ batch = NoBatch /\ requests = {}
    /\ snapshot' = {r \in DOMAIN regs : regs[r].provider = Selected /\ Live(r, Now)}
    /\ snapshot' # {}
    /\ UNCHANGED <<clock, enrolments, regs, requests, holds, invalid, failures, batch>>

CreateBatch ==
    /\ snapshot # {} /\ batch.done /\ batch.todo = {}
    /\ requests = {} \/ "late" \in Disturbances
    /\ clock <= LastBatch
    /\ batch' = [NoBatch EXCEPT !.asOf = clock, !.done = FALSE]
    /\ clock' = clock + 1
    /\ UNCHANGED <<enrolments, regs, requests, holds, snapshot, invalid, failures>>

\* resolvePushEndpointPage; a cursor past the end is an error for good.
PageEnd(total) == IF batch.cursor + PageSize < total THEN batch.cursor + PageSize ELSE total

Paged(upTo, total, page) ==
    [batch EXCEPT !.cursor = upTo,
                  !.todo = @ \cup page,
                  !.handed = @ \cup page,
                  !.done = upTo = total \/ batch.cursor > total]

PageOf(all) ==
    LET end   == PageEnd(Cardinality(all))
        At(c) == Cardinality({d \in all : Earlier(d, c, batch.asOf)})
    IN  Paged(end, Cardinality(all),
              {c \in all : At(c) \in batch.cursor..end - 1 /\ Active(c, batch.asOf)})

Page ==
    /\ ~batch.done
    /\ batch' = PageOf(Candidates(batch.asOf))
    /\ UNCHANGED <<clock, enrolments, regs, requests, holds, snapshot, invalid, failures>>

HolderOf(token) ==
    {enrolments[e].who : e \in {x \in DOMAIN enrolments :
        ~enrolments[x].revoked /\ holds[enrolments[x].install] = token[2]}}

\* The attempt, its push and what the provider answers.
Send(c) ==
    /\ c \in batch.todo /\ SendEligible(c)
    /\ IF \E i \in Installs : holds[i] = c.token[2]
       THEN /\ batch' = [batch EXCEPT !.todo = @ \ {c},
                                      !.got = @ \cup {[push |-> c, by |-> HolderOf(c.token)]}]
            /\ UNCHANGED failures
       ELSE /\ batch' = [batch EXCEPT !.todo = @ \ {c}]
            /\ failures' = failures \cup
                  {[endpoint |-> c.endpoint, token |-> c.token, at |-> clock, told |-> FALSE]}
    /\ clock' = clock + 1
    /\ UNCHANGED <<enrolments, regs, requests, holds, snapshot, invalid>>

Skip(c) ==
    /\ c \in batch.todo /\ ~SendEligible(c)
    /\ batch' = [batch EXCEPT !.todo = @ \ {c}]
    /\ UNCHANGED <<clock, enrolments, regs, requests, holds, snapshot, invalid, failures>>

\* appendActivePushTokenUnregistrations: on the device that failed, only
\* what was registered by the time of the attempt.
EndsWith(f) ==
    {r \in DOMAIN regs : /\ Held(r) = Held(f.endpoint)
                         /\ regs[r].enrol # regs[f.endpoint].enrol \/ regs[r].at <= f.at}

\* record-endpoint-status, on a failure that says the token is gone.
RecordStatus(f) ==
    /\ ~f.told
    /\ LET same == {g \in failures : g.endpoint = f.endpoint}
           last == CHOOSE g \in same : \A h \in same : h.at <= g.at
       IN  regs' = End(EndsWith(last))
    /\ invalid' = invalid \cup {f.endpoint}
    /\ failures' = (failures \ {f}) \cup {[f EXCEPT !.told = TRUE]}
    /\ UNCHANGED <<clock, enrolments, requests, holds, snapshot, batch>>

-----------------------------------------------------------------------------
Init ==
    /\ setting \in Settings
    /\ clock = 1
    /\ enrolments = <<>> /\ regs = <<>> /\ requests = {}
    /\ holds = [i \in Installs |-> NoToken]
    /\ snapshot = {} /\ invalid = {} /\ failures = {}
    /\ batch = NoBatch

Phones == \E i \in Installs :
    \/ \E p \in Persons : SignIn(p, i)
    \/ \E t \in Tokens : Install(i, t) \/ Renew(i, t)
    \/ Uninstall(i)

Registering ==
    \/ \E e \in DOMAIN enrolments : SignOut(e) \/ \E newer \in BOOLEAN : Request(e, newer)
    \/ \E q \in requests : Register(q) \/ Refuse(q)

Notifying ==
    \/ Publish \/ CreateBatch \/ Page
    \/ \E c \in batch.todo : Send(c) \/ Skip(c)
    \/ \E f \in failures : RecordStatus(f)

Next == (Phones \/ Registering \/ Notifying) /\ UNCHANGED setting

Spec == Init /\ [][Next]_vars

-----------------------------------------------------------------------------
Rows == [enrol : Nat, provider : Providers, token : Tokens, at : Nat, off : Nat]

TypeOK ==
    /\ setting \in Settings
    /\ clock \in Nat \ {0}
    /\ enrolments \in Seq([who : Persons, install : Installs, revoked : BOOLEAN])
    /\ regs \in Seq(Rows)
    /\ \A r \in DOMAIN regs : /\ regs[r].enrol \in DOMAIN enrolments
                              /\ regs[r].at <= clock /\ regs[r].off <= clock
    /\ requests \subseteq [enrol : DOMAIN enrolments, token : Tokens,
                           at : 1..clock, newer : BOOLEAN]
    /\ holds \in [Installs -> Tokens \cup {NoToken}]
    /\ snapshot \subseteq DOMAIN regs
    /\ invalid \subseteq DOMAIN regs
    /\ \A f \in failures : f.endpoint \in DOMAIN regs /\ f.at < clock
    /\ batch.todo \subseteq batch.handed

\* A token belongs to one registration at most, across devices and accounts
\* (releasePushTokenFromOtherDevices: "exactly one owns it afterwards").
OneOwner ==
    \A r, s \in DOMAIN regs :
        regs[r].off = Open /\ regs[s].off = Open /\ Held(r) = Held(s) => r = s

Devices(p, asOf) ==
    {regs[r].enrol : r \in {x \in Group(p, Selected) : Live(x, asOf)}}
Reaching(e, asOf) ==
    {c \in Reached(asOf) : \E r \in DOMAIN regs :
        regs[r].enrol = e /\ Live(r, asOf) /\ Held(r) = c.token}
Untroubled(p) == \A e \in invalid : Owner(e) # p

\* Each device of a person none of whose endpoints was found invalid is
\* reached by exactly one push, whatever was published, and no device of
\* anyone by two (loadLivePushRegistrations, fannedOutPushEndpoints).
ReachedOnce ==
    \A p \in Persons : \A e \in Devices(p, Now) :
        /\ Cardinality(Reaching(e, Now)) <= 1
        /\ Untroubled(p) => Reaching(e, Now) # {}

\* A push arrives only at a phone its addressee holds: once another account
\* has signed in there, no push of the previous one does, in a batch under
\* way too (supersedeOtherAccountsOnInstallation).
HandedOver == \A g \in batch.got : g.by \subseteq {g.push.who}

\* When a batch has been paged to its end, every device that was live when
\* it was made has been handed out (resolvePushEndpointPage: "neither ... can
\* shift the next offset and silently skip a later candidate").
NobodySkipped ==
    batch.done /\ batch.asOf # 0 =>
        \A p \in Persons : Untroubled(p) =>
            \A e \in Devices(p, batch.asOf) :
                \E c \in batch.handed, r \in DOMAIN regs :
                    regs[r].enrol = e /\ Held(r) = c.token

\* No page hands out a device that an earlier page has handed out.
NobodyTwice ==
    \A c, d \in batch.handed : c.token = d.token => c = d

\* A token belongs to one registration at most, across devices and accounts,
\* and a push arrives only at a phone its addressee holds: once another
\* account has signed in there, no push of the previous one does, in a batch
\* under way too, unless the platform hands a token to another phone
\* (releasePushTokenFromOtherDevices, supersedeOtherAccountsOnInstallation).
PhoneHandedOver ==
    TypeOK /\ OneOwner /\ ("move" \notin Disturbances => HandedOver)

\* Each device of a person none of whose endpoints was found invalid is
\* reached by exactly one push, and no device of anyone by two, under one
\* provider or two; and while phones do not change hands and registrations do
\* not commit late, a batch that has been paged to its end has handed out every
\* device that was live when it was made, once (loadLivePushRegistrations,
\* fannedOutPushEndpoints, resolvePushEndpointPage).
EachReachedOnce ==
    /\ ReachedOnce
    /\ Disturbances \cap {"hand over", "late"} = {} => NobodySkipped /\ NobodyTwice

\* A device that is live is reached, also when an earlier installation of its
\* owner was found dead (loadLivePushRegistrations: a reinstalled device is
\* reached without a republished roster).
ReinstalledIsReached ==
    \A p \in Persons : \A e \in Devices(p, Now) : Reaching(e, Now) # {}

\* A failed push ends registrations of no token but the one it was sent to
\* (recordEndpointStatusWithDatabase).
EndedByProof ==
    [][\A r \in DOMAIN regs :
          (regs[r].off = Open /\ regs'[r].off # Open /\ invalid' # invalid)
              => \E f \in failures : f.token = Held(r)]_vars
=============================================================================
