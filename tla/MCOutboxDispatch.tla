-------------------------- MODULE MCOutboxDispatch --------------------------
(* A small instance of CommittedRecords for TLC. *)
EXTENDS CommittedRecords, TLC

CONSTANTS r1, r2, d1, d2

\* Three requests that find their predecessor in different ways.
Styled == "command" :> "anchor" @@ "admin" :> "computed" @@ "records" :> "snapshot"
=============================================================================
