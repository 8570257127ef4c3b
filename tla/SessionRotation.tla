-------------------------- MODULE SessionRotation --------------------------
(***************************************************************************)
(* One session as the server keeps it                                      *)
(* (packages/server/lib/auth/sessions.ts, app/api/auth/refresh and revoke).*)
(*                                                                         *)
(* A bearer is exchanged for its successor, which the server derives from  *)
(* the bearer and the idempotency key; so a bearer is written here as the  *)
(* sequence of keys it was derived with, and the rotations on record are   *)
(* one such sequence.  Presenting a retired bearer ends the session, unless *)
(* it is the repetition of the rotation that retired it, within the        *)
(* recovery window and before its successor was used in turn.              *)
(*                                                                         *)
(* A request first inspects the credential, outside any lock, and then     *)
(* acts in a transaction that holds the session row.  The module has the   *)
(* server's actions only; the caller's module adds those of the device.    *)
(***************************************************************************)
EXTENDS Naturals, Sequences

CONSTANTS
    Call,           \* HTTP requests on their way at one time
    None,
    MaxKeys,        \* bound on the idempotency keys ever made
    WindowCanClose  \* FALSE: every repetition comes within the window

ASSUME RotationAssumption == /\ MaxKeys \in Nat /\ WindowCanClose \in BOOLEAN
                             /\ None \notin {"replay", "human"}

VARIABLES
    chain,          \* the keys of the rotations on record, oldest first
    recoverable,    \* the latest rotation is younger than the window
    revoked,        \* None, "replay" or "human"
    receipts,       \* completed revocation commands: bearer and key
    call            \* call[c]: one request and how far the server is with it

server == <<chain, recoverable, revoked, receipts>>

Keys == 1..MaxKeys
Bearers == {SubSeq(chain, 1, n) : n \in 0..Len(chain)}

Idle == [kind |-> "none", bearer |-> <<>>, key |-> 0, at |-> "idle",
         inTime |-> FALSE, to |-> None, answer |-> "none", issued |-> <<>>]

RotationOK ==
    /\ chain \in Seq(Keys) /\ recoverable \in BOOLEAN
    /\ revoked \in {None, "replay", "human"}
    /\ \A r \in receipts : r.bearer \in Bearers /\ r.key \in Keys
    /\ \A c \in Call :
          /\ call[c].kind \in {"none", "refresh", "revoke", "read"}
          /\ call[c].at \in {"idle", "sent", "verified", "retired", "answered"}
          /\ call[c].bearer \in Bearers
          /\ call[c].answer \in {"none", "rejected", "unavailable", "done", "session"}
          /\ call[c].issued \in Bearers

RotationInit ==
    /\ chain = <<>> /\ recoverable = FALSE
    /\ revoked = None /\ receipts = {}
    /\ call = [c \in Call |-> Idle]
-----------------------------------------------------------------------------
IsCurrent(b) == b = chain
IsRetired(b) == Len(b) < Len(chain) /\ b = SubSeq(chain, 1, Len(b))

\* The rotation that retired b was asked for with key k.
RetiredBy(b, k) == IsRetired(b) /\ chain[Len(b) + 1] = k
\* The successor of b has not been used to rotate yet.
SuccessorCurrent(b) == Len(b) + 1 = Len(chain)

\* The answer reaches whoever still waits for it.
Reply(c, a, b) ==
    call' = [call EXCEPT ![c] = IF @.to = None THEN Idle
                 ELSE [@ EXCEPT !.at = "answered", !.answer = a, !.issued = b]]
Answer(c, a) == Reply(c, a, <<>>)
Issue(c, b) == Reply(c, "session", b)

Advance(c, step) == call' = [call EXCEPT ![c].at = step]

InspectRefresh(c) ==
    LET b == call[c].bearer IN
    /\ call[c].at = "sent" /\ call[c].kind = "refresh"
    /\ \/ /\ IsCurrent(b)
          /\ IF revoked = None THEN Advance(c, "verified") ELSE Answer(c, "rejected")
       \/ /\ IsRetired(b)
          /\ call' = [call EXCEPT ![c].at = "retired", ![c].inTime = recoverable]
    /\ UNCHANGED server

\* Variant: what the inspection found is not looked up again.
RevokedSinceTrusting(c) == FALSE
\* The session was revoked after the credential was inspected.
RevokedSince(c) == revoked # None

\* The command was carried out before: its idempotency record is on file.
Repetition(b, k) == RetiredBy(b, k)

\* rotateCredential: the record of the same command first, then the
\* revocation, then a rotation that has happened meanwhile, then its own.
Rotate(c) ==
    LET b == call[c].bearer  k == call[c].key IN
    /\ call[c].at = "verified" /\ call[c].kind = "refresh"
    /\ \/ /\ Repetition(b, k)
          /\ IF SuccessorCurrent(b) /\ revoked = None
             THEN Issue(c, Append(b, k)) ELSE Answer(c, "rejected")
          /\ UNCHANGED server
       \/ /\ ~Repetition(b, k) /\ RevokedSince(c)
          /\ Answer(c, "rejected") /\ UNCHANGED server
       \/ /\ ~Repetition(b, k) /\ ~RevokedSince(c) /\ IsRetired(b)
          /\ revoked' = "replay"
          /\ Answer(c, "rejected") /\ UNCHANGED <<chain, recoverable, receipts>>
       \/ /\ ~Repetition(b, k) /\ ~RevokedSince(c) /\ IsCurrent(b)
          /\ chain' = Append(chain, k) /\ recoverable' = TRUE
          /\ Issue(c, chain') /\ UNCHANGED <<revoked, receipts>>

Recovered(c) ==
    /\ RetiredBy(call[c].bearer, call[c].key)
    /\ call[c].inTime /\ SuccessorCurrent(call[c].bearer)

\* completedRefreshRetry and, failing that, recordReplayAndRevoke.
Retry(c) ==
    LET b == call[c].bearer IN
    /\ call[c].at = "retired"
    /\ \/ /\ Recovered(c)
          /\ IF revoked = None THEN Issue(c, chain) ELSE Answer(c, "rejected")
          /\ UNCHANGED revoked
       \/ /\ ~Recovered(c)
          /\ revoked' = IF revoked = None THEN "replay" ELSE revoked
          /\ Answer(c, "rejected")
    /\ UNCHANGED <<chain, recoverable, receipts>>

InspectRead(c) ==
    /\ call[c].at = "sent" /\ call[c].kind = "read"
    /\ Answer(c, IF IsCurrent(call[c].bearer) /\ revoked = None
                 THEN "done" ELSE "rejected")
    /\ UNCHANGED server

Receipt(c) == [bearer |-> call[c].bearer, key |-> call[c].key]

\* recoverCompletedSelfRevocation: the very command was completed before.
ReceiptKept(c) == Receipt(c) \in receipts

InspectRevoke(c) ==
    /\ call[c].at = "sent" /\ call[c].kind = "revoke"
    /\ \/ /\ IsCurrent(call[c].bearer) /\ revoked = None
          /\ Advance(c, "verified")
       \/ /\ IsCurrent(call[c].bearer) /\ revoked # None
          /\ Answer(c, IF ReceiptKept(c) THEN "done" ELSE "rejected")
       \/ IsRetired(call[c].bearer) /\ Answer(c, "rejected")
    /\ UNCHANGED server

\* A key that was used with another bearer is refused.
Revoke(c) ==
    /\ call[c].at = "verified" /\ call[c].kind = "revoke"
    /\ IF \E r \in receipts : r.key = call[c].key /\ r # Receipt(c)
       THEN Answer(c, "rejected") /\ UNCHANGED <<revoked, receipts>>
       ELSE /\ revoked' = IF revoked = None THEN "human" ELSE revoked
            /\ receipts' = receipts \cup {Receipt(c)}
            /\ Answer(c, "done")
    /\ UNCHANGED <<chain, recoverable>>

\* Rolled back, or not even begun.
Unavailable(c) ==
    /\ call[c].at \in {"sent", "verified", "retired"}
    /\ Answer(c, "unavailable")
    /\ UNCHANGED server

\* An administrator revokes the session.
RevokeElsewhere ==
    /\ revoked = None /\ revoked' = "human"
    /\ UNCHANGED <<chain, recoverable, receipts, call>>

WindowCloses ==
    /\ WindowCanClose /\ recoverable /\ recoverable' = FALSE
    /\ UNCHANGED <<chain, revoked, receipts, call>>

Serve(c) == \/ InspectRefresh(c) \/ Rotate(c) \/ Retry(c)
            \/ InspectRead(c) \/ InspectRevoke(c) \/ Revoke(c)
            \/ Unavailable(c)

ServerNext == (\E c \in Call : Serve(c)) \/ RevokeElsewhere \/ WindowCloses
=============================================================================
