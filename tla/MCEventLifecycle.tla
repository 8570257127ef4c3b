-------------------------- MODULE MCEventLifecycle --------------------------
(* Instances of EventLifecycle for TLC.  Two people start an event; a        *)
(* synthetic one is ended, reactivated and ended again; one is ended, closed, *)
(* joined and posted to.                                                      *)
EXTENDS EventLifecycle, TLC

CONSTANTS e1, e2, c1, c2, c3, c4, c5, c6, c7, c8, r1, r2, r3

VARIABLE scenario

CommandKinds ==
    c1 :> "start" @@ c2 :> "start" @@ c3 :> "all-clear" @@ c4 :> "reactivate"
        @@ c5 :> "all-clear" @@ c6 :> "close" @@ c7 :> "post" @@ c8 :> "join"

\* The commands that clients use in each scenario.
Used == "started" :> {c1, c2, c3} @@ "revived" :> {c3, c4, c5}
            @@ "ended" :> {c3, c6, c7, c8}

\* The module extended is the synthetic event that is revived, which takes
\* the most previews.
Started == INSTANCE EventLifecycle WITH Staff <- TRUE, Opening <- {}, MaxPreviews <- 2
Ended   == INSTANCE EventLifecycle WITH Staff <- TRUE, MaxPreviews <- 1

SuiteInit == \/ scenario = "started" /\ Started!Init
             \/ scenario = "revived" /\ Init
             \/ scenario = "ended" /\ Ended!Init

SuiteNext == /\ \/ scenario = "started" /\ Started!Next
                \/ scenario = "revived" /\ Next
                \/ scenario = "ended" /\ Ended!Next
             /\ UNCHANGED scenario
             /\ \A q \in Request : cmd'[q] \in Used[scenario] \cup {None}

SuiteSpec == SuiteInit /\ [][SuiteNext]_<<vars, scenario>>

\* Requests are interchangeable.
RequestSymmetry == Permutations(Request)
=============================================================================
