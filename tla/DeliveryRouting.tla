--------------------------- MODULE DeliveryRouting ---------------------------
(***************************************************************************)
(* From the delivery queue to the queues of the channels                   *)
(* (infra/lambda/delivery-router/index.mjs and the queues that             *)
(* infra/src/stack/psd-eoc-stack.ts sets up around it).                    *)
(*                                                                         *)
(* The dispatcher leaves every channel's batch in one queue, possibly more *)
(* than once (OutboxDispatch).  An invocation of the router is handed      *)
(* several messages, forwards them one after the other and returns those   *)
(* that failed; the queue deletes the rest, counts the receives of what is *)
(* left and sets it aside after the last.  EmailBatch is what then happens *)
(* to one copy in a channel's queue.                                       *)
(***************************************************************************)
EXTENDS Naturals, FiniteSets

CONSTANTS
    Message,        \* messages the dispatcher puts into the delivery queue
    Batch,          \* the batches they carry; a batch may be sent twice
    Carries,        \* Carries[m]: the batch message m carries
    Unreadable,     \* batches whose body names no channel
    Invocation,     \* reservedConcurrentExecutions
    BatchSize,      \* batchSize of the event source
    MaxReceives,    \* DELIVERY_QUEUE_MAX_RECEIVES
    MaxFaults       \* bound on lost or failed sends and died invocations

\* What the constants must be.
RoutingAssumption ==
    /\ IsFiniteSet(Message)
    /\ Carries \in [Message -> Batch] /\ Unreadable \subseteq Batch
    /\ BatchSize \in Nat \ {0} /\ MaxReceives \in Nat \ {0} /\ MaxFaults \in Nat

VARIABLES
    at,         \* where each message is
    receives,   \* how often it was received since it entered the queue
    copies,     \* copies of each batch put into its channel's queue
    handed,     \* messages an invocation was handed and has not looked at
    failures,   \* batchItemFailures so far
    done,       \* messages it has forwarded
    faults

lambda == <<handed, failures, done>>
vars == <<at, receives, copies, lambda, faults>>

Held(i) == handed[i] \cup failures[i] \cup done[i]

TypeOK ==
    /\ at \in [Message -> {"outbox", "visible", "taken", "deleted", "dead"}]
    /\ receives \in [Message -> 0..MaxReceives]
    /\ copies \in [Batch -> Nat]
    /\ \A i \in Invocation : Held(i) \subseteq Message
    /\ \A i, j \in Invocation : i # j =>
          Held(i) \cap Held(j) \cap {m \in Message : at[m] = "taken"} = {}
    /\ faults \in 0..MaxFaults

Init ==
    /\ at = [m \in Message |-> "outbox"]
    /\ receives = [m \in Message |-> 0]
    /\ copies = [b \in Batch |-> 0]
    /\ handed = [i \in Invocation |-> {}]
    /\ failures = [i \in Invocation |-> {}]
    /\ done = [i \in Invocation |-> {}]
    /\ faults = 0
-----------------------------------------------------------------------------
AFault == faults < MaxFaults /\ faults' = faults + 1
Readable(m) == Carries[m] \notin Unreadable

Move(S, place) == at' = [m \in Message |-> IF m \in S THEN place ELSE at[m]]

Publish(m) ==
    /\ at[m] = "outbox" /\ Move({m}, "visible")
    /\ UNCHANGED <<receives, copies, lambda, faults>>

Deliverable(m) == at[m] = "visible" /\ receives[m] < MaxReceives

Invoke(i, S) ==
    /\ Held(i) = {} /\ S # {} /\ Cardinality(S) <= BatchSize
    /\ \A m \in S : Deliverable(m)
    /\ Move(S, "taken")
    /\ receives' = [m \in Message |-> receives[m] + IF m \in S THEN 1 ELSE 0]
    /\ handed' = [handed EXCEPT ![i] = S]
    /\ UNCHANGED <<copies, failures, done, faults>>

Failed(i, m) == /\ failures' = [failures EXCEPT ![i] = @ \cup {m}]
                /\ UNCHANGED done
Forwarded(i, m) == /\ done' = [done EXCEPT ![i] = @ \cup {m}]
                   /\ UNCHANGED failures
Copied(m) == copies' = [copies EXCEPT ![Carries[m]] = @ + 1]

\* One record.  A send that is reported as failed may have arrived.
Route(i, m) ==
    /\ m \in handed[i]
    /\ handed' = [handed EXCEPT ![i] = @ \ {m}]
    /\ \/ ~Readable(m) /\ Failed(i, m) /\ UNCHANGED <<copies, faults>>
       \/ Readable(m) /\ Forwarded(i, m) /\ Copied(m) /\ UNCHANGED faults
       \/ /\ Readable(m) /\ AFault /\ Failed(i, m)
          /\ Copied(m) \/ UNCHANGED copies
    /\ UNCHANGED <<at, receives>>

LookedAt(i) == handed[i] = {}

\* Variant: one failure brings the whole invocation back.
ReturnedAll(i) == IF failures[i] = {} THEN {} ELSE failures[i] \cup done[i]
\* reportBatchItemFailures: only these stay in the queue.
Returned(i) == failures[i]

Released(i) == /\ handed' = [handed EXCEPT ![i] = {}]
               /\ failures' = [failures EXCEPT ![i] = {}]
               /\ done' = [done EXCEPT ![i] = {}]

Return(i) ==
    /\ Held(i) # {} /\ LookedAt(i)
    /\ at' = [m \in Message |->
                 IF m \in Returned(i) THEN "visible"
                 ELSE IF m \in Held(i) THEN "deleted" ELSE at[m]]
    /\ Released(i)
    /\ UNCHANGED <<receives, copies, faults>>

\* The function times out, is throttled or throws before it looks at a record
\* (channelQueueUrls); nothing is deleted.
Die(i) ==
    /\ Held(i) # {} /\ AFault
    /\ Move(Held(i), "visible") /\ Released(i)
    /\ UNCHANGED <<receives, copies>>

SetAside(m) ==
    /\ at[m] = "visible" /\ receives[m] = MaxReceives
    /\ Move({m}, "dead")
    /\ UNCHANGED <<receives, copies, lambda, faults>>

\* An operator sends a dead letter back.
Redrive(m) ==
    /\ at[m] = "dead" /\ Readable(m)
    /\ Move({m}, "visible") /\ receives' = [receives EXCEPT ![m] = 0]
    /\ UNCHANGED <<copies, lambda, faults>>

Step(i) == Return(i) \/ \E m \in Message : Route(i, m)
Receive(m) == \E i \in Invocation, S \in SUBSET Message : m \in S /\ Invoke(i, S)

Next == \/ \E m \in Message : Publish(m) \/ Receive(m) \/ SetAside(m) \/ Redrive(m)
        \/ \E i \in Invocation : Step(i) \/ Die(i)

Spec == Init /\ [][Next]_vars

\* The event source hands out every message it can, an invocation ends within
\* its timeout and the queue applies its redrive policy; nobody redrives.
FairSpec == /\ Spec
            /\ \A i \in Invocation : WF_vars(Step(i))
            /\ \A m \in Message : SF_vars(Receive(m)) /\ WF_vars(SetAside(m))
-----------------------------------------------------------------------------
(* Properties. *)

\* A message leaves the delivery queue only when its batch is in a channel's
\* queue or the message is kept for an operator, wherever the router fails.
NothingVanishes ==
    \A m \in Message : at[m] = "deleted" => copies[Carries[m]] > 0

\* A batch is copied again only because somebody could not know that it had
\* arrived: by the dispatcher, a reported failure or an invocation that died.
CopiesAccounted ==
    \A b \in Batch : copies[b] <=
        Cardinality({m \in Message : Carries[m] = b /\ at[m] # "outbox"})
        + BatchSize * faults

\* With fewer faults than receives every readable message reaches its channel
\* without an operator, whatever unreadable ones it travels with.
AllForwarded == \A m \in Message :
    Readable(m) => at[m] = "outbox" \/ copies[Carries[m]] > 0
SiblingsSpared == <>[]AllForwarded
=============================================================================
