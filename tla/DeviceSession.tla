--------------------------- MODULE DeviceSession ---------------------------
(***************************************************************************)
(* The phone's side of its session, against SessionRotation                *)
(* (packages/mobile/src/lib/auth/auth-controller.ts, auth-api-client.ts,   *)
(* secure-session-store.ts, connectivity-banner.tsx).                      *)
(*                                                                         *)
(* The controller unlocks, refreshes, retries and signs out in flows that  *)
(* wait for the device, the store and the server, and that check after     *)
(* each wait whether the app was put away (lifecycle generation) or the    *)
(* credentials replaced (credential generation) meanwhile.  Writes to the  *)
(* secure store go through a queue; reads do not.  The idempotency key of  *)
(* a refresh is stored with the bearer before the request is sent.         *)
(* A generation is compared only with the one a flow began in, so a flow   *)
(* carries two flags instead: neither has moved since.                     *)
(***************************************************************************)
EXTENDS SessionRotation, FiniteSets

CONSTANTS
    Retrying,       \* flows started by taps on Retry
    Offered,        \* phases in which a tap on Retry reaches the controller
    Reads,          \* TRUE: screens read from the server with the bearer
    Stragglers      \* TRUE: a request may be served long after the phone
                    \* gave it up, even after later refreshes

ASSUME DeviceAssumption ==
    /\ Offered \subseteq {"offline", "checking"}
    /\ Retrying \cap {"unlock", "signout", "read"} = {}
    /\ None \notin Retrying \cup {"unlock", "signout", "read"}
    /\ None \notin [bearer : Seq(Nat), key : Nat]
    /\ Reads \in BOOLEAN /\ Stragglers \in BOOLEAN

VARIABLES
    phase,      \* what the app shows
    mem,        \* the vault in memory: bearer and pending key, or None
    disk,       \* the vault in the secure store, or None
    queue,      \* operations on the secure store, oldest first
    flow,       \* flow[f]: where each flow is
    before,     \* phase and whether a refresh was out when sign-out began
    revocation, \* key of the revocation under way, or 0
    cleaned,    \* the server's cleanup is confirmed, the store's is not
    minted,     \* number of idempotency keys made
    ended       \* history: how the phone last gave up its credential

store  == <<disk, queue>>
memory == <<phase, mem, before, revocation, cleaned, minted>>
device == <<store, memory, flow, ended>>
vars   == <<server, call, device>>

Refreshing == Retrying \cup {"unlock"}
Flow == Refreshing \cup {"signout", "read"}
Vault(b, k) == [bearer |-> b, key |-> k]     \* key 0: no refresh pending
Resting == [at |-> "idle", life |-> FALSE, cred |-> FALSE, vault |-> None]
Before0 == [phase |-> "locked", out |-> FALSE]

TypeOK ==
    /\ RotationOK
    /\ phase \in {"locked", "checking", "offline", "online", "blocked", "out"}
    /\ \A v \in {mem, disk} :
          v = None \/ (v.bearer \in Bearers /\ v.key \in 0..MaxKeys)
    /\ \A i \in DOMAIN queue : queue[i].kind \in {"write", "clear"}
    /\ Cardinality({i \in DOMAIN queue : queue[i].begun}) =< 1
    /\ \A f \in Flow : flow[f].at \in
          {"idle", "auth", "writing", "sent", "storing", "clearing"}
    /\ revocation \in 0..MaxKeys /\ minted \in 0..MaxKeys
    /\ ended \in {"no", "signout", "rejected", "wasted", "missing"}
    /\ phase \in {"checking", "offline", "online"} => mem # None

Init ==
    /\ RotationInit
    /\ phase = "locked" /\ mem = None
    /\ disk = Vault(<<>>, 0) /\ queue = <<>>
    /\ flow = [f \in Flow |-> Resting]
    /\ before = Before0
    /\ revocation = 0 /\ cleaned = FALSE /\ minted = 0 /\ ended = "no"
-----------------------------------------------------------------------------
Live(f) == flow[f].life /\ flow[f].cred
Rest(f) == flow' = [flow EXCEPT ![f] = Resting]

\* The request of flow f that is still listened to.
CallOf(f) == {c \in Call : call[c].to = f}
FreeCalls == {c \in Call : call[c] = Idle}

\* Requests somebody stopped waiting for; the server may still serve them.
Abandoned(fs) ==
    [c \in Call |->
        IF call[c].to \notin fs THEN call[c]
        ELSE IF call[c].at = "answered" \/ (call[c].at = "sent" /\ ~Stragglers)
             THEN Idle
        ELSE [call[c] EXCEPT !.to = None]]

\* A request of flow f; those of fs are given up.
Send(f, kind, v, k, fs) ==
    \E c \in FreeCalls :
        call' = [Abandoned(fs) EXCEPT ![c] = [Idle EXCEPT !.kind = kind, !.to = f,
                     !.bearer = v.bearer, !.key = k, !.at = "sent"]]

\* Without stragglers a new key is made only when no abandoned refresh is
\* still being served.
CanMint == /\ minted < MaxKeys
           /\ Stragglers \/ \A c \in Call : call[c].kind # "refresh"

\* abortFeatureRequests: nobody listens to a read any more.
NoRead == IF flow["read"].at = "sent" THEN Resting ELSE flow["read"]

\* Both generations move: every flow is out of date.
Outdated == [f \in Flow |-> [flow[f] EXCEPT !.life = FALSE, !.cred = FALSE]]

OutdatedQueue == [i \in DOMAIN queue |-> [queue[i] EXCEPT !.live = FALSE]]

\* The server would still accept vault v, or make its lost answer good.
Usable(v) ==
    /\ v # None /\ revoked = None
    /\ \/ IsCurrent(v.bearer)
       \/ RetiredBy(v.bearer, v.key) /\ SuccessorCurrent(v.bearer) /\ recoverable

\* invalidateCredentials, the blocked screen and the queued clearing.
ClearAndSignOut(why, confirmed, own) ==
    /\ flow' = [Outdated EXCEPT !["read"] = NoRead, ![own].at = "clearing"]
    /\ mem' = None /\ phase' = "blocked"
    /\ revocation' = 0 /\ cleaned' = confirmed
    /\ queue' = Append(OutdatedQueue,
                       [kind |-> "clear", flow |-> own, vault |-> None,
                        begun |-> FALSE, live |-> TRUE])
    /\ ended' = IF why = "rejected" /\ Usable(disk) THEN "wasted" ELSE why
    /\ before' = Before0
    /\ UNCHANGED <<disk, minted>>
-----------------------------------------------------------------------------
(* Refreshing the bearer. *)

\* Variant: every refresh makes a key of its own.
PendingKeyFresh(v) == 0
\* The key of a refresh whose outcome is unknown is used again.
PendingKey(v) == v.key

\* refreshCurrent up to its first wait, with vault v in memory.
StartRefresh(f, v) ==
    LET k == IF PendingKey(v) # 0 THEN PendingKey(v) ELSE minted + 1
        pending == Vault(v.bearer, k)
    IN  /\ PendingKey(v) = 0 => CanMint
        /\ minted' = IF k > minted THEN k ELSE minted
        /\ mem' = v /\ phase' = "checking"
        /\ flow' = [flow EXCEPT ![f] = [at |-> "writing", life |-> TRUE,
                                        cred |-> TRUE, vault |-> pending]]
        /\ queue' = Append(queue, [kind |-> "write", flow |-> f, vault |-> pending,
                                   begun |-> FALSE, live |-> TRUE])
        /\ UNCHANGED <<disk, before, revocation, cleaned, ended>>

\* The app comes to the front, or its owner taps Unlock.
Foreground ==
    /\ phase = "locked"
    /\ flow["signout"].at = "idle" /\ flow["unlock"].at = "idle"
    /\ flow' = [flow EXCEPT !["unlock"] = [at |-> "auth", life |-> TRUE,
                                           cred |-> TRUE, vault |-> None]]
    /\ UNCHANGED <<server, call, store, memory, ended>>

\* The device confirms its owner, or not; then the vault is read.  A vault
\* that is missing or cannot be read ends the enrolment.
Unlock ==
    /\ flow["unlock"].at = "auth"
    /\ \/ Rest("unlock") /\ UNCHANGED <<store, memory, ended>>
       \/ Live("unlock") /\ disk # None /\ StartRefresh("unlock", disk)
       \/ /\ Live("unlock")
          /\ ClearAndSignOut("missing", FALSE, "unlock")
    /\ UNCHANGED <<server, call>>

RetryConnection(f) ==
    /\ phase \in Offered /\ mem # None
    /\ flow["signout"].at = "idle" /\ flow[f].at = "idle"
    /\ StartRefresh(f, mem)
    /\ UNCHANGED <<server, call>>

Refused(c) == call[c].answer = "rejected"

\* The refresh is answered.  A successor is stored whatever the app does
\* now, unless the credential was replaced.
Refreshed(f) ==
    \E c \in CallOf(f) :
        LET b == call[c].issued IN
        /\ flow[f].at = "sent" /\ call[c].at = "answered"
        /\ \/ /\ call[c].answer = "session" /\ flow[f].cred
              /\ flow' = [flow EXCEPT ![f].at = "storing", !["read"] = NoRead]
              /\ queue' = Append(queue,
                     [kind |-> "write", flow |-> f, vault |-> Vault(b, 0),
                      begun |-> FALSE, live |-> TRUE])
              /\ call' = Abandoned({f, "read"})
              /\ UNCHANGED <<disk, memory, ended>>
           \/ /\ call[c].answer = "session" /\ ~flow[f].cred
              /\ Rest(f) /\ call' = Abandoned({f})
              /\ UNCHANGED <<store, memory, ended>>
           \/ /\ Refused(c) /\ Live(f)
              /\ ClearAndSignOut("rejected", FALSE, f)
              /\ call' = Abandoned({f, "read"})
           \/ /\ Refused(c) /\ ~Live(f)
              /\ Rest(f) /\ call' = Abandoned({f})
              /\ UNCHANGED <<store, memory, ended>>
        /\ UNCHANGED server

\* Variant: giving up leaves the screen as it is.
AfterGivingUpNothing(f) == phase
AfterGivingUp(f) == IF Live(f) THEN "offline" ELSE phase

\* A timeout, an abort, a lost answer or a server error.
GiveUp(f) ==
    /\ flow[f].at = "sent"
    /\ phase' = AfterGivingUp(f)
    /\ Rest(f) /\ call' = Abandoned({f})
    /\ UNCHANGED <<server, store, mem, before, revocation, cleaned, minted, ended>>
-----------------------------------------------------------------------------
(* The secure store. *)

\* Checked when the write's turn comes.
WriteCurrent(op) == op.kind = "write" => flow[op.flow].cred

BeginStore ==
    /\ queue # <<>> /\ ~Head(queue).begun
    /\ LET op == Head(queue) IN
       \/ /\ WriteCurrent(op)
          /\ queue' = [queue EXCEPT ![1].begun = TRUE] /\ UNCHANGED flow
       \/ /\ ~WriteCurrent(op)
          /\ queue' = Tail(queue) /\ Rest(op.flow)
    /\ UNCHANGED <<server, call, disk, memory, ended>>

\* The continuation of a flow whose vault was written.
Written(f) ==
    \/ /\ Live(f) /\ flow[f].at = "writing"
       /\ Send(f, "refresh", flow[f].vault, flow[f].vault.key, {})
       /\ mem' = flow[f].vault /\ flow' = [flow EXCEPT ![f].at = "sent"]
       /\ UNCHANGED phase
    \/ /\ Live(f) /\ flow[f].at = "storing"
       /\ mem' = Head(queue).vault /\ phase' = "online"
       /\ Rest(f) /\ UNCHANGED call
    \/ /\ ~Live(f)
       /\ Rest(f) /\ UNCHANGED <<phase, mem, call>>

StoreWrites ==
    /\ queue # <<>> /\ Head(queue).begun /\ Head(queue).kind = "write"
    /\ disk' = Head(queue).vault
    /\ Written(Head(queue).flow)
    /\ queue' = Tail(queue)
    /\ UNCHANGED <<server, before, revocation, cleaned, minted, ended>>

StoreFails ==
    /\ queue # <<>> /\ Head(queue).begun
    /\ LET op == Head(queue) IN
       \/ /\ op.kind = "write"
          /\ IF Live(op.flow) THEN mem' = None /\ phase' = "blocked"
             ELSE UNCHANGED <<mem, phase>>
       \/ op.kind = "clear" /\ UNCHANGED <<mem, phase>>
    /\ Rest(Head(queue).flow)
    /\ queue' = Tail(queue)
    /\ UNCHANGED <<server, call, disk, before, revocation, cleaned, minted, ended>>

StoreClears ==
    /\ queue # <<>> /\ Head(queue).begun /\ Head(queue).kind = "clear"
    /\ disk' = None
    /\ IF Head(queue).live THEN phase' = "out" /\ cleaned' = FALSE
       ELSE UNCHANGED <<phase, cleaned>>
    /\ queue' = Tail(queue)
    /\ Rest(Head(queue).flow)
    /\ UNCHANGED <<server, call, mem, before, revocation, minted, ended>>
-----------------------------------------------------------------------------
(* Signing out. *)

\* signOutSafely with the vault it works on: the fence, then the request.
Fence(v) ==
    LET k == IF revocation # 0 THEN revocation ELSE minted + 1 IN
    /\ revocation = 0 => minted < MaxKeys
    /\ revocation' = k /\ minted' = IF k > minted THEN k ELSE minted
    /\ before' = [phase |-> phase,
                  out |-> \E f \in Refreshing : flow[f].at = "sent" /\ flow[f].life]
    /\ phase' = "locked" /\ cleaned' = FALSE
    /\ flow' = [Outdated EXCEPT
                   !["read"] = NoRead,
                   !["signout"] = [at |-> "sent", life |-> TRUE, cred |-> TRUE,
                                   vault |-> v]]
    /\ Send("signout", "revoke", v, k, {"read"})
    /\ queue' = OutdatedQueue
    /\ UNCHANGED <<disk, mem, ended>>

SignOut ==
    /\ phase # "out" /\ flow["signout"].at = "idle"
    /\ \/ /\ mem = None /\ phase \in {"locked", "blocked"}
          /\ flow' = [flow EXCEPT !["signout"].at = "auth"]
          /\ UNCHANGED <<call, store, memory, ended>>
       \/ mem # None /\ Fence(mem)
    /\ UNCHANGED server

\* The owner is confirmed, or not, and the vault read.  When the server's part
\* is done already, only the store is cleared again.
SignOutUnlocked ==
    /\ flow["signout"].at = "auth"
    /\ \/ Rest("signout") /\ UNCHANGED <<call, store, memory, ended>>
       \/ /\ disk # None /\ cleaned /\ phase = "blocked"
          /\ ClearAndSignOut("signout", TRUE, "signout") /\ UNCHANGED call
       \/ disk # None /\ ~(cleaned /\ phase = "blocked") /\ Fence(disk)
    /\ UNCHANGED server

\* Variant: the device signs out whatever the server said.
SignOutConfirmedAnyway(c) == call[c].at = "answered"
\* The canonical receipt of the server.
SignOutConfirmed(c) == call[c].at = "answered" /\ call[c].answer = "done"

SignedOut ==
    \E c \in CallOf("signout") :
        /\ flow["signout"].at = "sent" /\ SignOutConfirmed(c)
        /\ ClearAndSignOut("signout", TRUE, "signout")
        /\ call' = Abandoned({"signout", "read"})
        /\ UNCHANGED server

\* Refused, failed or timed out: restoreAfterFailedSignOut.
SignOutFailed ==
    LET restorable == /\ Live("signout") /\ ~before.out
                      /\ before.phase \in {"online", "offline"}
    IN  /\ flow["signout"].at = "sent"
        /\ \A c \in CallOf("signout") : call[c].answer # "done"
        /\ mem' = IF restorable THEN flow["signout"].vault ELSE None
        /\ phase' = IF restorable THEN before.phase ELSE "locked"
        /\ Rest("signout") /\ call' = Abandoned({"signout"})
        /\ before' = Before0
        /\ UNCHANGED <<server, store, revocation, cleaned, minted, ended>>
-----------------------------------------------------------------------------
(* The app is put away or stopped; screens read. *)
Background ==
    /\ mem' = None
    /\ phase' = IF phase \in {"out", "blocked"} THEN phase ELSE "locked"
    /\ flow' = [[f \in Flow |-> [flow[f] EXCEPT !.life = FALSE]] EXCEPT
                   !["read"] = NoRead]
    /\ call' = Abandoned({"read"})
    /\ UNCHANGED <<server, store, before, revocation, cleaned, minted, ended>>

\* A write that had begun may have reached the store.
Restart ==
    /\ disk' \in {disk} \cup {op.vault : op \in {queue[i] : i \in
                                  {i \in DOMAIN queue : queue[i].begun}}}
    /\ phase' = IF disk' = None THEN "out" ELSE "locked"
    /\ mem' = None /\ queue' = <<>> /\ revocation' = 0 /\ cleaned' = FALSE
    /\ before' = Before0 /\ ended' = "no"
    /\ flow' = [f \in Flow |-> Resting]
    /\ call' = Abandoned(Flow)
    /\ UNCHANGED <<server, minted>>

\* requestAuthenticated for a read: any phase that has a session.
ReadScreen ==
    /\ Reads /\ phase \in {"checking", "offline", "online"} /\ mem # None
    /\ flow["read"].at = "idle"
    /\ Send("read", "read", mem, 0, {})
    /\ flow' = [flow EXCEPT !["read"].at = "sent"]
    /\ UNCHANGED <<server, store, memory, ended>>

ReadAnswered ==
    \E c \in CallOf("read") :
        /\ flow["read"].at = "sent" /\ call[c].at = "answered"
        /\ IF call[c].answer = "rejected"
           THEN ClearAndSignOut("rejected", FALSE, "read")
           ELSE Rest("read") /\ UNCHANGED <<store, memory, ended>>
        /\ call' = Abandoned({"read"})
        /\ UNCHANGED server

ReadLost ==
    /\ flow["read"].at = "sent"
    /\ phase' = IF phase = "online" THEN "offline" ELSE phase
    /\ Rest("read") /\ call' = Abandoned({"read"})
    /\ UNCHANGED <<server, store, mem, before, revocation, cleaned, minted, ended>>

Work == \/ Unlock \/ BeginStore \/ StoreWrites \/ StoreFails \/ StoreClears
        \/ \E f \in Refreshing : Refreshed(f) \/ GiveUp(f)
        \/ SignOutUnlocked \/ SignedOut \/ SignOutFailed
        \/ ReadAnswered \/ ReadLost

Next == \/ ServerNext /\ UNCHANGED device
        \/ Work \/ Foreground \/ SignOut \/ Background \/ Restart \/ ReadScreen
        \/ \E f \in Retrying : RetryConnection(f)

Spec == Init /\ [][Next]_vars

\* Every wait of the phone ends: requests time out, the store answers and
\* the device's own authentication is answered or dismissed.
FairSpec == /\ Spec /\ WF_vars(BeginStore)
            /\ WF_vars(StoreWrites \/ StoreFails \/ StoreClears)
            /\ WF_vars(Unlock) /\ WF_vars(SignOutUnlocked)
            /\ \A f \in Refreshing : WF_vars(Refreshed(f) \/ GiveUp(f))
            /\ WF_vars(SignedOut \/ SignOutFailed)
            /\ \A c \in Call : WF_vars(Serve(c) /\ UNCHANGED device)
-----------------------------------------------------------------------------
(* Properties. *)

\* A phone that behaves as the server expects is never taken for a thief:
\* however answers are lost, the app is put away or stopped between any two
\* steps, and sign-out interferes, it repeats a refresh under the key it
\* stored and the server recognises the repetition.
NeverTakenForReplay == revoked # "replay"

\* The phone gives up its credential after a refusal only when the server
\* would not have accepted it any more, nor made a lost answer good.
NothingWasted == ended # "wasted"

\* A revoked session rotates no further, although a refresh inspects its
\* credential before it locks the session row.
RevocationIsFinal == [][revoked # None => UNCHANGED <<chain, revoked>>]_vars

\* A phone that shows itself signed out is signed out on the server too, and
\* no bearer is left on it: no answer or write still under way brings one back.
SignOutIsTrue ==
    /\ ended = "signout" => revoked # None
    /\ phase = "out" => disk = None /\ mem = None

\* The stored bearer is never replaced by one that it replaced.
VaultMovesForward ==
    [][(disk # None /\ disk' # None) => Len(disk'.bearer) >= Len(disk.bearer)]_vars

\* No wait is for ever: the checking screen gives way to another one and a
\* sign-out comes to an end, whatever the flows find changed when they resume.
NoLimbo == []<>(phase # "checking") /\ []<>(flow["signout"].at = "idle")
=============================================================================
