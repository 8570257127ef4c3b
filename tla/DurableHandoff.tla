--------------------------- MODULE DurableHandoff ---------------------------
(***************************************************************************)
(* What the notification outbox promises, without leases, attempts or      *)
(* clocks.  A confirmed notification is retained in the transaction that   *)
(* records the event.  From then on it is either still retained, handed    *)
(* off with every channel's batch in the delivery queue, or abandoned.     *)
(* Nothing leaves the queue's history: a batch sent once stays sent.       *)
(***************************************************************************)
CONSTANTS Rows,       \* outbox rows
          Channels    \* channels planned for each row

VARIABLES phase,      \* phase[r]: where the notification is
          sent        \* sent[r]: channels whose batch reached the queue

vars == <<phase, sent>>

Phases == {"absent", "retained", "handed-off", "abandoned"}

TypeOK == /\ phase \in [Rows -> Phases]
          /\ sent \in [Rows -> SUBSET Channels]

Init == /\ phase = [r \in Rows |-> "absent"]
        /\ sent = [r \in Rows |-> {}]

\* The event transaction commits the row with the event.
Retain(r) == /\ phase[r] = "absent"
             /\ phase' = [phase EXCEPT ![r] = "retained"]
             /\ UNCHANGED sent

\* A handoff call puts batches in the queue.  A dispatcher whose lease has
\* passed may still do so after the row was settled.
Enqueue(r) == /\ phase[r] # "absent"
              /\ \E S \in SUBSET Channels :
                    sent' = [sent EXCEPT ![r] = @ \cup S]
              /\ UNCHANGED phase

\* The row is called published only when no channel is missing.
HandOff(r) == /\ phase[r] = "retained"
              /\ sent[r] = Channels
              /\ phase' = [phase EXCEPT ![r] = "handed-off"]
              /\ UNCHANGED sent

\* Delivery is given up, with the row kept as evidence.
Abandon(r) == /\ phase[r] = "retained"
              /\ phase' = [phase EXCEPT ![r] = "abandoned"]
              /\ UNCHANGED sent

Next == \E r \in Rows : Retain(r) \/ Enqueue(r) \/ HandOff(r) \/ Abandon(r)

Spec == Init /\ [][Next]_vars
=============================================================================
