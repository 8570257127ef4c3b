------------------------- MODULE MCTextsAndReceipts -------------------------
(* A text message from its attempt to its carrier's receipt, and the receipts *)
(* of push messages.  A behaviour picks one of three stories: the text moves, *)
(* or two devices are pushed to whose pushes Expo may give one receipt id, or *)
(* one device is and is pushed to again.  What a story leaves alone stays in  *)
(* its first state.                                                           *)
EXTENDS TextsAndReceipts, TLC

CONSTANTS w1, w2

VARIABLES story
all == <<story, vars, receipt>>

\* What Expo's answers lead to in a story, and the attempts made in it.
Learnt == [shared |-> {Push!Failure("unregistered"), Push!Doubt("missing"),
                       Push!Doubt("horizon"), Push!Collision},
           resent |-> Push!Staged \ {Push!Failure("unregistered")}]

Used == [shared |-> Devices \X {1}, resent |-> {"d1"} \X (1..MaxSend)]

Told ==
    /\ \A a \in Push!Attempts : truth'[a] # <<>> => a \in Used[story]
    /\ \A w \in DOMAIN polling' :
           polling'[w].act \in Learnt[story] \cup {Push!NoAction, Push!Completion}

SuiteInit == story \in {"text", "shared", "resent"} /\ Init /\ Push!Init

SuiteNext == \/ story = "text" /\ Next /\ UNCHANGED <<story, receipt>>
             \/ story # "text" /\ Push!Next /\ Told /\ UNCHANGED <<story, vars>>

SuiteSpec == SuiteInit /\ [][SuiteNext]_all

WorkerSymmetry == Permutations({w1, w2})
=============================================================================
