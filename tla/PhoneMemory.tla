----------------------------- MODULE PhoneMemory -----------------------------
(***************************************************************************)
(* What a phone remembers: its session, which is the module extended, the  *)
(* start or join it has asked for, and the photo it is to post.  Each is   *)
(* kept in a store of its own by a controller of its own; they meet in     *)
(* what the others are told of who is signed in.  A behaviour picks one,   *)
(* the others stay in their first state.                                   *)
(***************************************************************************)
EXTENDS DeviceSession

CONSTANTS
    Request, Session,
    MaxStartFaults,
    MaxEpochs,
    MaxMishaps

VARIABLES
    scenario,
    auth, over, start, suspended, hydrated, record, fates, dismissed, uncovered,
    felt, faults,
    manifest, draft, file, running, view, late, open, sound, intent, expired,
    raw, stored, posts, redacted, mishaps, discarded

starting == <<auth, over, start, suspended, hydrated, record, fates, dismissed,
              uncovered, felt, faults>>
posting  == <<manifest, draft, file, running, view, late, open, sound, intent,
              expired, raw, stored, posts, redacted, mishaps, discarded>>
everything == <<scenario, vars, starting, posting>>

Start == INSTANCE StartRecovery WITH
    MaxFaults <- MaxStartFaults,
    ended <- over, mem <- start, disk <- record, server <- fates

Photo == INSTANCE PhotoDraft WITH
    MaxFaults <- MaxMishaps,
    disk <- manifest, mem <- draft, faults <- mishaps

ASSUME StartConstants == Start!StartAssumption
ASSUME PhotoConstants == Photo!PhotoAssumption

\* Of an image that is never sent it does not matter whether it is sound.
Elsewhere == Start!Init /\ Photo!Init /\ (scenario # "posting" => sound)

PhoneInit == scenario \in {"session", "starting", "posting"} /\ Init /\ Elsewhere

PhoneNext ==
    \/ scenario = "session" /\ Next /\ UNCHANGED <<scenario, starting, posting>>
    \/ scenario = "starting" /\ Start!Next /\ UNCHANGED <<scenario, vars, posting>>
    \/ scenario = "posting" /\ Photo!Next /\ UNCHANGED <<scenario, vars, starting>>

PhoneSpec == PhoneInit /\ [][PhoneNext]_everything
-----------------------------------------------------------------------------
(* Properties of the session, the start and the photo, stated where each is. *)

\* A phone whose requests are served while it waits, and whose repetitions
\* come in time, is never taken for a thief, and gives up its credential only
\* when that is worth nothing any more (auth-controller.ts).
ServedInTime == TypeOK /\ (scenario = "session" => NeverTakenForReplay /\ NothingWasted)

\* A request made with a working store is known to the phone until somebody
\* has dealt with it, what the phone says of it is so, and a success is
\* announced once (start-mutation-coordinator.ts).
StartsAreTold == Start!TypeOK /\ Start!NothingForgotten /\ Start!OutcomeIsTrue
                   /\ Start!AnnouncedOnce

\* Nobody who is online is locked out of starting an event for good
\* (acknowledge, acknowledgeUnresolved, continueWithoutRecovery, reconcile).
AlwaysAWayOut == Start!AlwaysAWayOut

\* A photo is posted once, however often it is sent; the phone keeps it until
\* then or until the person discards it, and what was discarded is never
\* posted (photo-draft.ts, lib/media).
PhotosPostOnce == Photo!PhotosPostOnce
=============================================================================
