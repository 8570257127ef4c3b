----------------------------- MODULE PhotoDraft -----------------------------
(***************************************************************************)
(* A photo on its way from a phone into an event's journal                 *)
(* (packages/mobile/src/features/event-room/photo-draft.ts,                *)
(* use-event-photo-draft.ts, native-photo.ts; packages/server/lib/media).  *)
(*                                                                         *)
(* The phone keeps a private copy and a manifest, and writes the manifest  *)
(* before every step: reserve an upload, put the bytes, have them checked  *)
(* and stored, append the journal entry, clean up.  Nothing is repeated    *)
(* without a tap.  Calls time out, the app is put away or killed, a write  *)
(* may fail although it was done, and the server may serve a call that the *)
(* phone no longer waits for.  One draft is followed, selected and         *)
(* described; its n-th pair of upload keys makes reservation, object and   *)
(* record n.                                                               *)
(***************************************************************************)
EXTENDS Naturals, Sequences

CONSTANTS
    MaxEpochs,  \* bound: pairs of upload keys
    MaxFaults,  \* bound: calls given up, denials, failures, kills
    None        \* model value: no manifest, no call, no retry

Epoch    == 1..MaxEpochs
NoId     == 0
Network  == {"create-intent", "upload-bytes", "complete-upload", "append-entry"}
Active   == {"creating-intent", "uploading", "completing-upload", "appending"}
Halted   == {"failed", "unknown"}

Manifest == [stage : {"ready", "cleanup-pending"} \cup Active \cup Halted,
             retry : Network \cup {None},
             epoch : Epoch, intent : {NoId} \cup Epoch, media : {NoId} \cup Epoch]

\* A call and how it goes.  "acquire" asks once more for a reservation the
\* phone has had; "cleanup" is no call.
Calls == {"acquire"} \cup Network
Step  == [op : Calls \cup {"cleanup"}, state : {"unsent", "sent", "ok", "refused"}]

VARIABLES
    disk,       \* the manifest in the phone's storage
    mem,        \* the controller's manifest, if there is a controller
    file,       \* the private copy exists
    running,    \* the step that the running operation is at, or None
    view,       \* what the phone last read of the event
    late,       \* late[op][n]: calls given up that may still be served
    open,       \* the event is not closed
    sound,      \* the server's decoder accepts the image
    intent,     \* intent[n]: status of reservation n
    expired,    \* reservations whose ten minutes are over
    raw,        \* uploaded objects
    stored,     \* sanitized objects
    posts,      \* journal entries of this draft, as a sequence of media
    redacted,   \* the entry has been redacted
    faults,
    discarded   \* history: what was so when the person discarded the draft

\* What the constants must be.
PhotoAssumption ==
    /\ MaxEpochs \in Nat \ {0} /\ MaxFaults \in Nat
    /\ None \notin Network \cup Manifest \cup Step

phone  == <<disk, mem, file, running, view>>
server == <<intent, raw, stored, posts>>
world  == <<open, sound, expired, redacted>>
vars   == <<phone, late, server, world, faults, discarded>>

\* n things go wrong.
Fault(n) == faults + n <= MaxFaults /\ faults' = faults + n

At(op)  == [op |-> op, state |-> "unsent"]
idle    == running = None

\* The reservation, object or record that a call of the controller is about.
Subject(op) == CASE op = "complete-upload" -> mem.intent
                 [] op = "append-entry" -> mem.media
                 [] OTHER -> mem.epoch

ActiveStage(op) ==
    CASE op = "create-intent" -> "creating-intent"
      [] op \in {"acquire", "upload-bytes"} -> "uploading"
      [] op = "complete-upload" -> "completing-upload"
      [] op = "append-entry" -> "appending"

RetryStage(op) == IF op = "acquire" THEN "upload-bytes" ELSE op

RetryStageForActive(stage) ==
    CHOOSE op \in Network : ActiveStage(op) = stage

-----------------------------------------------------------------------------
\* The server.  Each capability is one transaction with its idempotency key.

\* The reservation is handed out as long as it can be used.
Grantable(n) == \/ intent[n] = "none" /\ open
                \/ intent[n] = "pending-upload" /\ n \notin expired

CreateIntent(n, ok) ==
    /\ ok = Grantable(n)
    /\ intent' = IF ok THEN [intent EXCEPT ![n] = "pending-upload"] ELSE intent
    /\ UNCHANGED <<raw, stored, posts>>

\* The signed PUT writes an object once; that it exists is a success.
PutRaw(n, ok) ==
    /\ ok = (n \notin expired)
    /\ raw' = IF ok THEN raw \cup {n} ELSE raw
    /\ UNCHANGED <<intent, stored, posts>>

\* The sanitized object is stored before the record is inserted.  A rejection
\* of the image is committed before it is reported.
CompleteUpload(n, ok) ==
    /\ LET usable == intent[n] = "pending-upload" /\ n \notin expired /\ n \in raw
       IN  /\ ok = (intent[n] = "completed" \/ (usable /\ sound))
           /\ intent' = IF usable
                        THEN [intent EXCEPT ![n] = IF sound THEN "completed"
                                                   ELSE "rejected"]
                        ELSE intent
           /\ stored' = IF usable /\ sound THEN stored \cup {n} ELSE stored
    /\ UNCHANGED <<raw, posts>>

\* Variant: every append has a key of its own.
AppendAnew(n, ok) ==
    /\ ok = (open /\ intent[n] = "completed")
    /\ posts' = IF ok THEN posts \o <<n>> ELSE posts
    /\ UNCHANGED <<intent, raw, stored>>

\* One key per draft: a repetition is answered with the entry made first.
AppendEntry(n, ok) ==
    /\ ok = IF posts # <<>> THEN posts[1] = n
            ELSE open /\ intent[n] = "completed"
    /\ posts' = IF ok /\ posts = <<>> THEN <<n>> ELSE posts
    /\ UNCHANGED <<intent, raw, stored>>

Execute(op, n, ok) ==
    CASE op \in {"create-intent", "acquire"} -> CreateIntent(n, ok)
      [] op = "upload-bytes" -> PutRaw(n, ok)
      [] op = "complete-upload" -> CompleteUpload(n, ok)
      [] op = "append-entry" -> AppendEntry(n, ok)

\* The call that the phone waits for is served and answered.
Serve ==
    /\ ~idle /\ running.state = "sent"
    /\ \E ok \in BOOLEAN :
          /\ Execute(running.op, Subject(running.op), ok)
          /\ running' = [running EXCEPT !.state = IF ok THEN "ok" ELSE "refused"]
    /\ UNCHANGED <<disk, mem, file, view, late, world, faults, discarded>>

\* It is refused for another reason, and said to be for good.
Deny ==
    /\ ~idle /\ running.state = "sent" /\ Fault(1)
    /\ running' = [running EXCEPT !.state = "refused"]
    /\ UNCHANGED <<disk, mem, file, view, late, server, world, discarded>>

\* A call that the phone has given up is served.
ServeLate(op, n) ==
    /\ late[op][n] > 0
    /\ late' = [late EXCEPT ![op][n] = @ - 1]
    /\ \E ok \in BOOLEAN : Execute(op, n, ok)
    /\ UNCHANGED <<phone, world, faults, discarded>>

\* A completion fails after it has stored the object.
CompleteFails ==
    /\ ~idle /\ running.op = "complete-upload" /\ running.state = "sent"
    /\ LET n == mem.intent
       IN  /\ intent[n] = "pending-upload" /\ n \in raw \ expired /\ sound
           /\ stored' = stored \cup {n}
    /\ UNCHANGED <<phone, late, intent, raw, posts, world, faults, discarded>>

-----------------------------------------------------------------------------
\* The controller.  A manifest is written before the step it announces, and
\* only over the manifest that the controller knows.

\* Write m and go on with the next step.  A write that throws ends the
\* operation, whether it was done or not; n is what went wrong before it.
Write(m, next, n) ==
    \/ /\ disk = mem /\ disk' = m /\ mem' = m /\ running' = next
       /\ Fault(n)
    \/ /\ disk = mem /\ disk' \in {mem, m} /\ running' = None
       /\ Fault(n + 1) /\ UNCHANGED mem
    \/ /\ disk # mem /\ running' = None
       /\ Fault(n) /\ UNCHANGED <<disk, mem>>

\* Begin or take up the work at a call.
Begin(m, op) ==
    Write([m EXCEPT !.stage = ActiveStage(op), !.retry = None,
                    !.intent = IF op = "create-intent" THEN NoId ELSE @,
                    !.media = IF op = "append-entry" THEN @ ELSE NoId],
          At(op), 0)

Halt(outcome, n) ==
    Write([mem EXCEPT !.stage = outcome, !.retry = RetryStage(running.op)], None, n)

ToCleanup == Write([mem EXCEPT !.stage = "cleanup-pending", !.retry = None],
                   At("cleanup"), 0)

Send ==
    /\ ~idle /\ running.op \in Calls /\ running.state = "unsent"
    /\ running.op = "upload-bytes" => file
    /\ running' = [running EXCEPT !.state = "sent"]
    /\ UNCHANGED <<disk, mem, file, view, late, server, world, faults, discarded>>

\* The answer was a success: on to the next step.
Proceed ==
    /\ ~idle /\ running.state = "ok"
    /\ CASE running.op = "create-intent" ->
              Write([mem EXCEPT !.stage = "uploading", !.intent = mem.epoch],
                    At("upload-bytes"), 0)
         [] running.op = "acquire" ->
              running' = At("upload-bytes") /\ UNCHANGED <<disk, mem, faults>>
         [] running.op = "upload-bytes" ->
              Write([mem EXCEPT !.stage = "completing-upload"], At("complete-upload"), 0)
         [] running.op = "complete-upload" ->
              Write([mem EXCEPT !.stage = "appending", !.media = mem.intent],
                    At("append-entry"), 0)
         [] running.op = "append-entry" -> ToCleanup
    /\ UNCHANGED <<file, view, late, server, world, discarded>>

\* The answer was a refusal that says it is for good.
Refused ==
    /\ ~idle /\ running.state = "refused"
    /\ Halt("failed", 0)
    /\ UNCHANGED <<file, view, late, server, world, discarded>>

\* A call that has been sent may have reached the server or not.
Abandon ==
    late' \in {late} \cup (IF ~idle /\ running.state = "sent"
                           THEN {[late EXCEPT ![running.op][Subject(running.op)] = @ + 1]}
                           ELSE {})

\* Twenty seconds pass, the network fails, the bytes cannot be read, the app
\* is put away: what came of the call is not known, whatever the answer.
GiveUp ==
    /\ ~idle /\ running.op \in Calls
    /\ Halt("unknown", 1)
    /\ Abandon
    /\ UNCHANGED <<file, view, server, world, discarded>>

\* The copy is deleted first, so that a failure leaves the manifest.
Cleanup ==
    /\ ~idle /\ running.op = "cleanup"
    /\ running' = None
    /\ \/ /\ file' = FALSE /\ disk' = None /\ mem' = None
          /\ UNCHANGED faults
       \/ /\ file' \in {file, FALSE} /\ Fault(1)
          /\ UNCHANGED <<disk, mem>>
    /\ UNCHANGED <<view, late, server, world, discarded>>

-----------------------------------------------------------------------------
\* The person, while the controller is at rest.

AtRest(stages) == idle /\ mem # None /\ mem.stage \in stages

Submit ==
    /\ AtRest({"ready"}) /\ view.open
    /\ Begin(mem, "create-intent")
    /\ UNCHANGED <<file, view, late, server, world, discarded>>

\* The entry is on the timeline: nothing is left to do but to clean up.
Matched == mem.media \in view.entries

Reconcile ==
    /\ AtRest(Halted) /\ Matched
    /\ ToCleanup
    /\ UNCHANGED <<file, view, late, server, world, discarded>>

\* New upload keys only after a refusal, and only before there is a record.
Fresh(m) == m.stage = "failed" /\ m.media = NoId

Retry ==
    /\ AtRest(Halted) /\ view.open /\ ~Matched
    /\ IF Fresh(mem)
       THEN /\ mem.epoch < MaxEpochs
            /\ Begin([mem EXCEPT !.epoch = @ + 1], "create-intent")
       ELSE Begin(mem, IF mem.retry = "upload-bytes" THEN "acquire" ELSE mem.retry)
    /\ UNCHANGED <<file, view, late, server, world, discarded>>

RetryCleanup ==
    /\ AtRest({"cleanup-pending"})
    /\ running' = At("cleanup")
    /\ UNCHANGED <<disk, mem, file, view, late, server, world, faults, discarded>>

\* A draft that nothing was sent of, or any once the event is closed.
MayDiscard == mem.stage = "ready" \/ ~view.open

Discard ==
    /\ idle /\ mem # None /\ MayDiscard
    /\ file' = FALSE
    /\ \/ /\ disk \in {mem, None} /\ disk' = None /\ mem' = None
          /\ discarded' = IF posts = <<>> THEN "unposted" ELSE "posted"
          /\ UNCHANGED faults
       \/ /\ \/ disk \notin {mem, None} /\ UNCHANGED <<disk, faults>>
             \/ disk = mem /\ disk' \in {disk, None} /\ Fault(1)
          /\ discarded' = "tried"
          /\ UNCHANGED mem
    /\ UNCHANGED <<running, view, late, server, world>>

-----------------------------------------------------------------------------
\* The room is left and entered, the app killed and started again.

Leave ==
    /\ idle /\ mem # None
    /\ mem' = None
    /\ UNCHANGED <<disk, file, running, view, late, server, world, faults, discarded>>

Kill ==
    /\ mem # None /\ Fault(1)
    /\ mem' = None /\ running' = None
    /\ Abandon
    /\ UNCHANGED <<disk, file, view, server, world, discarded>>

\* What was under way has an unknown outcome.
Restored(m) ==
    IF m.stage \in Active
    THEN [m EXCEPT !.stage = "unknown", !.retry = RetryStageForActive(m.stage)]
    ELSE m

Restore ==
    /\ mem = None /\ disk # None
    /\ \/ disk' = Restored(disk) /\ mem' = Restored(disk) /\ UNCHANGED faults
       \/ /\ Restored(disk) # disk /\ disk' \in {disk, Restored(disk)} /\ Fault(1)
          /\ UNCHANGED mem
    /\ UNCHANGED <<file, running, view, late, server, world, discarded>>

\* The phone reads the event.
Sync ==
    /\ view' = [open |-> open,
                entries |-> IF redacted THEN {} ELSE {posts[i] : i \in DOMAIN posts}]
    /\ view' # view
    /\ UNCHANGED <<disk, mem, file, running, late, server, world, faults, discarded>>

World ==
    /\ \/ open /\ open' = FALSE /\ UNCHANGED <<expired, redacted>>
       \/ \E n \in Epoch \ expired :
             /\ intent[n] # "none" /\ expired' = expired \cup {n}
             /\ UNCHANGED <<open, redacted>>
       \/ posts # <<>> /\ ~redacted /\ redacted' = TRUE /\ UNCHANGED <<open, expired>>
    /\ UNCHANGED <<phone, late, server, sound, faults, discarded>>

-----------------------------------------------------------------------------
First == [stage |-> "ready", retry |-> None, epoch |-> 1, intent |-> NoId, media |-> NoId]

Init ==
    /\ disk = First /\ mem = First /\ file = TRUE /\ running = None
    /\ view = [open |-> TRUE, entries |-> {}]
    /\ late = [op \in Calls |-> [n \in Epoch |-> 0]]
    /\ open = TRUE /\ sound \in BOOLEAN /\ expired = {} /\ redacted = FALSE
    /\ intent = [n \in Epoch |-> "none"] /\ raw = {} /\ stored = {} /\ posts = <<>>
    /\ faults = 0 /\ discarded = "no"

Next ==
    \/ Send \/ Serve \/ Deny \/ CompleteFails \/ Proceed \/ Refused \/ GiveUp \/ Cleanup
    \/ \E op \in Calls, n \in Epoch : ServeLate(op, n)
    \/ Submit \/ Reconcile \/ Retry \/ RetryCleanup \/ Discard
    \/ Leave \/ Kill \/ Restore \/ Sync \/ World

Spec == Init /\ [][Next]_vars

-----------------------------------------------------------------------------
TypeOK ==
    /\ disk \in Manifest \cup {None} /\ mem \in Manifest \cup {None}
    /\ running \in Step \cup {None} /\ (~idle => mem # None)
    /\ file \in BOOLEAN
    /\ view \in [open : BOOLEAN, entries : SUBSET Epoch]
    /\ intent \in [Epoch -> {"none", "pending-upload", "completed", "rejected"}]
    /\ raw \cup stored \cup expired \subseteq Epoch /\ posts \in Seq(Epoch)
    /\ faults \in 0..MaxFaults
    /\ discarded \in {"no", "tried", "unposted", "posted"}

\* However often it is sent, under however many upload keys, a draft becomes
\* one entry, and its photo is one the server has checked and stored
\* (photo-draft.ts, completeUpload).
PostedOnce ==
    /\ Len(posts) <= 1
    /\ \A i \in DOMAIN posts : intent[posts[i]] = "completed"
    /\ \A n \in Epoch : intent[n] = "completed" => n \in raw \cap stored

\* The phone forgets a photo only when it is posted or the person discarded
\* it, and keeps the copy as long as it may have to send it (cleanup, discard,
\* reconcile, restore).
RetainedUntilPosted ==
    /\ disk = None => posts # <<>> \/ discarded # "no"
    /\ ~file => posts # <<>> \/ discarded # "no"

\* What was discarded unposted is never posted, by no call that was given up
\* either (discard, discardLocallyAfterEventClosed).
DiscardIsFinal == discarded = "unposted" => posts = <<>>

PhotosPostOnce == TypeOK /\ PostedOnce /\ RetainedUntilPosted /\ DiscardIsFinal

\* A person whose photo the server has rejected for good can do what it says,
\* to choose a different image (image.ts; the room offers to discard).
RejectedCanBeReplaced ==
    AtRest({"failed"}) /\ mem.intent # NoId /\ intent[mem.intent] = "rejected" => MayDiscard

\* A draft that can only be sent again still has its photo (discard: a deletion
\* that fails half-way leaves a draft that is ready).
RetryHasItsPhoto == AtRest(Halted) /\ ~MayDiscard => file
=============================================================================
