-------------------------- MODULE MCDeviceSession --------------------------
(* Instances of PhoneMemory for TLC.  The session of the module extended is  *)
(* a phone's whose requests are served while it waits and whose repetitions  *)
(* come in time; a behaviour may be of a stormier one instead.               *)
EXTENDS PhoneMemory, TLC

CONSTANTS retry, c1, c2

\* Requests are served arbitrarily late, windows close, screens read in the
\* background.
Stormy == INSTANCE DeviceSession WITH
    Offered <- {}, Reads <- TRUE, Stragglers <- TRUE,
    WindowCanClose <- TRUE, MaxKeys <- 2

SuiteInit == PhoneInit \/ (scenario = "stormy" /\ Stormy!Init /\ Elsewhere)

SuiteNext ==
    \/ PhoneNext
    \/ scenario = "stormy" /\ Stormy!Next /\ UNCHANGED <<scenario, starting, posting>>

SuiteSpec == SuiteInit /\ [][SuiteNext]_everything

\* Requests on their way are interchangeable.
CallSymmetry == Permutations(Call)
=============================================================================
