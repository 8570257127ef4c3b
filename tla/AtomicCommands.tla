--------------------------- MODULE AtomicCommands ---------------------------
(***************************************************************************)
(* What the event capabilities promise a client, without locks, retries,   *)
(* transactions or confirmations.  A command takes effect at most once,    *)
(* whole, along an arrow of the event state machine or beside it, and      *)
(* everyone who is told that it succeeded is told the same result: the     *)
(* event as the command left it, however long ago that was.                *)
(***************************************************************************)
CONSTANTS Event,    \* event records
          Command,  \* submissions, one idempotency key each
          Kind,     \* Kind[c]: what command c asks for
          None      \* no result

VARIABLES status,   \* status[e]: where the event is in its life
          done,     \* done[c]: the one result of c, or None
          told      \* what clients were told: pairs of command and result

vars == <<status, done, told>>

Statuses == {"none", "active", "all-clear", "closed"}

Allowed(kind, from, to) ==
    \/ kind = "start"      /\ from = "none"      /\ to = "active"
    \/ kind = "all-clear"  /\ from = "active"    /\ to = "all-clear"
    \/ kind = "reactivate" /\ from = "all-clear" /\ to = "active"
    \/ kind = "close"      /\ from = "all-clear" /\ to = "closed"
    \/ kind = "join"       /\ from = "active"    /\ to = from
    \/ kind = "post"       /\ from \in {"active", "all-clear"} /\ to = from

Result(e, s) == [event |-> e, status |-> s]

Init == /\ status \in [Event -> Statuses]
        /\ done = [c \in Command |-> None]
        /\ told = {}

Apply(c, e, to) ==
    /\ done[c] = None
    /\ Allowed(Kind[c], status[e], to)
    /\ status' = [status EXCEPT ![e] = to]
    /\ done' = [done EXCEPT ![c] = Result(e, to)]
    /\ told' = told \cup {<<c, Result(e, to)>>}

Tell(c) == /\ done[c] # None
           /\ told' = told \cup {<<c, done[c]>>}
           /\ UNCHANGED <<status, done>>

Next == \E c \in Command :
            Tell(c) \/ \E e \in Event, to \in Statuses : Apply(c, e, to)

Spec == Init /\ [][Next]_vars
=============================================================================
