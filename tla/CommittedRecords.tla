--------------------------- MODULE CommittedRecords ---------------------------
(***************************************************************************)
(* The two tables that every audited command writes in its own             *)
(* transaction: the notification outbox with its dispatchers, which is the *)
(* module extended, and the audit with its verifications.  They share      *)
(* nothing else, so that a behaviour picks one and the other stays in its  *)
(* first state.                                                            *)
(***************************************************************************)
EXTENDS OutboxDispatch

CONSTANTS
    Writer, Style, Verifier, PageSize, MaxDamage,
    MaxAuditFaults

VARIABLES
    moving,                                         \* the table picked
    anchors, rows, place, seen, told, through, reached, sound, auditFaults

Audit == INSTANCE AuditChain WITH
    MaxFaults <- MaxAuditFaults,
    pc <- place, at <- reached, faults <- auditFaults

ASSUME AuditConstants == Audit!AuditAssumption

audit == <<anchors, rows, place, seen, told, through, reached, sound, auditFaults>>
both  == <<moving, vars, audit>>

RecordsInit == moving \in {"outbox", "audit"} /\ Init /\ Audit!Init

RecordsNext == \/ moving = "outbox" /\ Next /\ UNCHANGED <<moving, audit>>
               \/ moving = "audit" /\ Audit!Next /\ UNCHANGED <<moving, vars>>

RecordsSpec == RecordsInit /\ [][RecordsNext]_both
-----------------------------------------------------------------------------
(* Properties of the audit.  Their parts are stated in AuditChain. *)

\* The audit says what happened, refuses nobody because others append, and is
\* called invalid only when it is (capabilities/persistence.ts, audit/service.ts).
AuditedAsHappened == /\ Audit!TypeOK /\ Audit!EnteredAsHappened
                     /\ Audit!NobodyTurnedAway /\ Audit!NoFalseAlarm

\* A verification that calls the chain valid has seen it so (audit/service.ts).
ValidWhenSaid == Audit!ValidWhenSaid
=============================================================================
