---------------------------- MODULE StartRecovery ----------------------------
(***************************************************************************)
(* A start or join on a phone (packages/mobile/src/lib/start: coordinator, *)
(* provider, store and API client).                                        *)
(*                                                                         *)
(* One coordinator lives as long as the app's process.  It writes a record *)
(* to the keychain before a request leaves the phone, sends each request   *)
(* once, and keeps what it learned of it until somebody has dealt with it. *)
(* The process may be killed, the keychain may refuse, the person may sign *)
(* out or another one in, and the server may serve a request long after    *)
(* the phone has stopped waiting.  Every handler runs to its end before    *)
(* another one does (JavaScript), and so is one action.                    *)
(***************************************************************************)
EXTENDS Naturals, FiniteSets

CONSTANTS
    Request,    \* requests, each with an idempotency key of its own
    Session,    \* sessions; signing in again makes a new one
    MaxFaults,  \* bound: refusals of the keychain, and kills
    None        \* model value: no session, no request, no record

VARIABLES
    auth,       \* what the provider last observed: the phase and the session
    ended,      \* sessions that are over
    mem,        \* the coordinator's state
    suspended,  \* persistenceSuspended
    hydrated,   \* the provider has read the store in this process
    disk,       \* the record in the keychain
    server,     \* where each request is
    dismissed,  \* history: requests somebody has dealt with
    uncovered,  \* history: requests made without a store
    felt,       \* history: how often the success of each was announced
    faults      \* refusals and kills so far

phone == <<auth, ended, mem, suspended, hydrated, disk>>
vars  == <<phone, server, dismissed, uncovered, felt, faults>>

\* Away: the app is locked, checking or offline.
AuthPhases == {"online", "away", "blocked", "signed-out"}

Phases == {"idle", "pending", "unresolved", "succeeded", "failed", "blocked"}

State == [phase : Phases, of : Request \cup {None}, owner : Session \cup {None},
          quarantined : BOOLEAN, claimed : BOOLEAN]

Idle    == [phase |-> "idle", of |-> None, owner |-> None,
            quarantined |-> FALSE, claimed |-> FALSE]
Blocked == [Idle EXCEPT !.phase = "blocked"]

\* What the constants must be.
StartAssumption ==
    MaxFaults \in Nat /\ None \notin Request \cup Session \cup State

online == IF auth.phase = "online" THEN auth.session ELSE None
Terminal(m) == m.phase \in {"succeeded", "failed"}

\* What the store keeps of a state: a pending request as an unresolved one.
Record(m) == [m EXCEPT !.phase = IF @ = "pending" THEN "unresolved" ELSE @,
                       !.quarantined = FALSE]

-----------------------------------------------------------------------------
\* The store.  A call that throws leaves the record and blocks the coordinator.

Refuses == ~suspended /\ faults < MaxFaults

Throws == Refuses /\ mem' = Blocked /\ faults' = faults + 1 /\ UNCHANGED disk

\* Take on a state and write it down.
Take(m) ==
    \/ mem' = m /\ disk' = (IF suspended THEN disk ELSE Record(m)) /\ UNCHANGED faults
    \/ Throws

\* Forget the record and become idle.
Clear ==
    \/ mem' = Idle /\ disk' = (IF suspended THEN disk ELSE None) /\ UNCHANGED faults
    \/ Throws

-----------------------------------------------------------------------------
\* Authentication as the provider observes it.

\* What an observation does to a state: a pending request of somebody else is
\* put aside, a known outcome of somebody else forgotten.
Leaves(m, phase, s) ==
    \/ phase = "online" /\ m.owner # s
    \/ phase \in {"signed-out", "blocked"}

Reconcile(m, phase, s) ==
    \/ Leaves(m, phase, s) /\ Terminal(m) /\ Clear
    \/ /\ ~(Leaves(m, phase, s) /\ Terminal(m))
       /\ mem' = [m EXCEPT !.quarantined =
                     @ \/ (m.phase = "pending" /\ Leaves(m, phase, s))]
       /\ UNCHANGED <<disk, faults>>

\* The requests that a step to idle from a state leaves behind.
Behind(m) == IF mem' = Idle THEN {m.of} \ {None} ELSE {}

\* The state that the record stands for.
Hydrated == IF disk = None THEN Idle ELSE disk

\* Variant: what was read is not compared with who is signed in now.
ReconcileOnlyBefore(phase, s) == mem' = Hydrated /\ UNCHANGED <<disk, faults>>

\* What was read is reconciled once more with who is signed in now.
ReconcileHydrated(phase, s) == Reconcile(Hydrated, phase, s)

\* The first time somebody is online, the record is read.
Observe(phase, s) ==
    /\ s \notin ended /\ (s = None <=> phase = "signed-out")
    /\ phase \in {"away", "blocked"} => s = auth.session
    /\ auth' = [phase |-> phase, session |-> s]
    /\ auth' # auth
    /\ ended' = IF auth.session \in {s, None} THEN ended ELSE ended \cup {auth.session}
    /\ IF phase = "online" /\ ~hydrated
       THEN /\ hydrated' = TRUE
            /\ ReconcileHydrated(phase, s) \/ Throws
            /\ dismissed' = dismissed \cup Behind(Hydrated)
       ELSE /\ Reconcile(mem, phase, s)
            /\ dismissed' = dismissed \cup Behind(mem)
            /\ UNCHANGED hydrated
    /\ UNCHANGED <<suspended, server, uncovered, felt>>

-----------------------------------------------------------------------------
\* Starting and joining.

\* The snapshot that the screens see.
Visible == IF mem.phase \in {"idle", "blocked"} THEN mem.phase
           ELSE IF Terminal(mem) /\ mem.owner # online THEN "idle"
           ELSE mem.phase

\* The provider asks for an idle snapshot, the coordinator for an idle or an
\* unresolved state.
Admits == Visible = "idle" /\ mem.phase \in {"idle", "unresolved"}

\* A tap: the record is written, and the request leaves the phone unless it
\* fails before it is sent.
Submit(r) ==
    /\ online # None /\ Admits
    /\ server[r] = "unused"
    /\ LET m == [Idle EXCEPT !.phase = "pending", !.of = r, !.owner = online]
       IN  \E fate \in {"kept", "sent"} :
              /\ Take(m)
              /\ server' = [server EXCEPT ![r] = IF mem' = m THEN fate ELSE "kept"]
    /\ uncovered' = IF suspended THEN uncovered \cup {r} ELSE uncovered
    /\ UNCHANGED <<auth, ended, suspended, hydrated, dismissed, felt>>

\* The session turns out not to be usable before there is a request.
Deny ==
    /\ online # None /\ mem.phase = "idle"
    /\ mem' = [Idle EXCEPT !.phase = "failed", !.owner = online]
    /\ UNCHANGED <<auth, ended, suspended, hydrated, disk, server, dismissed,
                   uncovered, felt, faults>>

\* The server does or refuses a request that has reached it, at any time.
Serve(r) ==
    /\ server[r] = "sent"
    /\ \E end \in {"done", "refused"} : server' = [server EXCEPT ![r] = end]
    /\ UNCHANGED <<phone, dismissed, uncovered, felt, faults>>

-----------------------------------------------------------------------------
\* What comes of the request that the coordinator waits for.

SettleSuccess ==
    /\ mem.phase = "pending" /\ server[mem.of] = "done"
    /\ IF mem.quarantined
       THEN /\ Clear
            /\ dismissed' = dismissed \cup Behind(mem)
       ELSE /\ Take([mem EXCEPT !.phase = "succeeded"])
            /\ UNCHANGED dismissed
    /\ UNCHANGED <<auth, ended, suspended, hydrated, server, uncovered, felt>>

\* Variant: no answer in time is a failure.
NotDoneYet(r) == server[r] # "done"

\* It never left the phone, or the server has said in so many words that it
\* refuses it (isExplicitTerminalApiRejection, isKnownPreSendFailure).
KnownNotDone(r) == server[r] \in {"kept", "refused"}

SettleFailure ==
    /\ mem.phase = "pending" /\ KnownNotDone(mem.of)
    /\ IF mem.quarantined
       THEN /\ Clear
            /\ dismissed' = dismissed \cup Behind(mem)
       ELSE /\ Take([mem EXCEPT !.phase = "failed"])
            /\ UNCHANGED dismissed
    /\ UNCHANGED <<auth, ended, suspended, hydrated, server, uncovered, felt>>

\* Twenty seconds pass, the network fails, the app is put away, or the answer
\* is not the one expected: nothing is known.
SettleUnknown ==
    /\ mem.phase = "pending"
    /\ Take([mem EXCEPT !.phase = "unresolved", !.quarantined = FALSE])
    /\ UNCHANGED <<auth, ended, suspended, hydrated, server, dismissed, uncovered, felt>>

-----------------------------------------------------------------------------
\* What the person does about it.

MayAcknowledge == online # None /\ Terminal(mem) /\ mem.owner = online

Acknowledge ==
    /\ MayAcknowledge
    /\ Clear
    /\ dismissed' = dismissed \cup Behind(mem)
    /\ UNCHANGED <<auth, ended, suspended, hydrated, server, uncovered, felt>>

\* Whoever is signed in may.
MayDismiss == online # None /\ mem.phase = "unresolved"

AcknowledgeUnresolved ==
    /\ MayDismiss
    /\ Clear
    /\ dismissed' = dismissed \cup Behind(mem)
    /\ UNCHANGED <<auth, ended, suspended, hydrated, server, uncovered, felt>>

MayContinue == online # None /\ mem.phase = "blocked"

ContinueWithoutRecovery ==
    /\ MayContinue
    /\ suspended' = TRUE
    /\ mem' = Idle
    /\ UNCHANGED <<auth, ended, hydrated, disk, server, dismissed, uncovered, felt, faults>>

\* That the success was announced is written before it is announced.
Claim(m) == Take(m)

ClaimSuccessFeedback ==
    /\ online # None /\ mem.phase = "succeeded" /\ mem.owner = online /\ ~mem.claimed
    /\ LET m == [mem EXCEPT !.claimed = TRUE]
       IN  /\ Claim(m)
           /\ felt' = IF mem' = m THEN [felt EXCEPT ![mem.of] = @ + 1] ELSE felt
    /\ UNCHANGED <<auth, ended, suspended, hydrated, server, dismissed, uncovered>>

\* The process ends.  The next one begins locked, or signed out.
Kill ==
    /\ faults < MaxFaults
    /\ faults' = faults + 1
    /\ mem' = Idle /\ suspended' = FALSE /\ hydrated' = FALSE
    /\ auth' = [auth EXCEPT !.phase = IF @ = "online" THEN "away" ELSE @]
    /\ UNCHANGED <<ended, disk, server, dismissed, uncovered, felt>>

-----------------------------------------------------------------------------
Init ==
    /\ auth = [phase |-> "signed-out", session |-> None]
    /\ ended = {} /\ mem = Idle /\ disk = None
    /\ suspended = FALSE /\ hydrated = FALSE
    /\ server = [r \in Request |-> "unused"]
    /\ dismissed = {} /\ uncovered = {}
    /\ felt = [r \in Request |-> 0]
    /\ faults = 0

Next ==
    \/ \E phase \in AuthPhases, s \in Session \cup {None} : Observe(phase, s)
    \/ \E r \in Request : Submit(r) \/ Serve(r)
    \/ Deny \/ SettleSuccess \/ SettleFailure \/ SettleUnknown
    \/ Acknowledge \/ AcknowledgeUnresolved \/ ContinueWithoutRecovery
    \/ ClaimSuccessFeedback \/ Kill

Spec == Init /\ [][Next]_vars

-----------------------------------------------------------------------------
TypeOK ==
    /\ auth \in [phase : AuthPhases, session : Session \cup {None}]
    /\ mem \in State /\ disk \in State \cup {None}
    /\ disk # None => disk.phase \in {"unresolved", "succeeded", "failed"}
    /\ server \in [Request -> {"unused", "kept", "sent", "done", "refused"}]
    /\ dismissed \cup uncovered \subseteq Request
    /\ faults \in 0..MaxFaults

\* A request that was made with a working store is known to the phone until
\* somebody has dealt with it or learned its outcome, through kills, refusals
\* of the keychain and changes of who is signed in (coordinator: submit,
\* hydrate, reconcile).
NothingForgotten ==
    \A r \in Request :
        server[r] \notin {"unused", "kept"} /\ r \notin dismissed \cup uncovered
            => mem.of = r \/ (disk # None /\ disk.of = r)

\* What the phone says of a request is so: it was done, or it was not and never
\* will be, however late the server serves it (settleSuccess, settleFailure).
OutcomeIsTrue ==
    \A m \in {mem} \cup ({disk} \ {None}) :
        m.of # None =>
            /\ m.phase = "succeeded" => server[m.of] = "done"
            /\ m.phase = "failed" => server[m.of] \in {"kept", "refused"}

\* A success is announced once, also by a process that did not see it happen
\* (claimSuccessFeedback).
AnnouncedOnce == \A r \in Request : felt[r] <= 1

\* Nobody who is online is locked out of starting an event: what looks idle is
\* so, and every other state is one they can leave or one that ends by itself
\* (reconcile, acknowledge, acknowledgeUnresolved, continueWithoutRecovery).
AlwaysAWayOut ==
    online # None =>
        /\ Visible = "idle" => mem.phase = "idle"
        /\ \/ mem.phase \in {"idle", "pending"}
           \/ MayAcknowledge \/ MayDismiss \/ MayContinue

\* An unknown outcome never stops the next start or join (submit: it is
\* disclosed, not enforced).
UnknownNeverStops == online # None /\ mem.phase = "unresolved" => Admits
=============================================================================
