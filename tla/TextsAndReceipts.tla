-------------------------- MODULE TextsAndReceipts --------------------------
(***************************************************************************)
(* The two accounts of what became of an alert on a phone: a text message  *)
(* from its attempt to its carrier's receipt (SmsAttempt), and the         *)
(* receipts of pushes (PushReceipts).  They share no state and are stated  *)
(* side by side.                                                           *)
(***************************************************************************)
EXTENDS SmsAttempt

CONSTANTS
    Devices,       \* push endpoints, each of one recipient of one batch
    MaxSend,       \* maxSendAttempts
    Ids,           \* receipt ids Expo may hand out
    Pollers,       \* workers running runDue
    ExpoAnswers,   \* what Expo may say of a receipt
    MaxPollFaults  \* bound: crashes, lost replies and overrun leases

VARIABLES clock, poll, resend, references, truth, invalid, polling, pollerFaults

Push == INSTANCE PushReceipts WITH
    Answers <- ExpoAnswers, MaxFaults <- MaxPollFaults,
    queue <- references, work <- polling, faults <- pollerFaults

ASSUME PushConstants == Push!ReceiptConstants

receipt == <<clock, poll, resend, references, truth, invalid, polling, pollerFaults>>

ReceiptSpec == Push!Init /\ [][Push!Next]_receipt
-----------------------------------------------------------------------------
(* Properties of the receipts; those of the text are in SmsAttempt. *)

\* A receipt id that two attempts share speaks for neither, a row is decided
\* only as the attempt's facts already say, a device is taken off the list only
\* on a recorded fact that was its own, and an attempt that is to be sent again
\* is one that failed: no poller, however late, records it as expired or in
\* doubt (scheduleReceipt, runDue).
ReceiptsSpeakForTheirOwn ==
    /\ Push!TypeOK
    /\ Push!CollisionSpeaksForNobody
    /\ Push!DecidedAsRecorded
    /\ Push!DeviceDroppedOnProof
    /\ Push!ResentMeansFailed

\* What is staged stays staged until the row is decided so, and a decided row
\* never changes again (decideReceipt).
StagedIsFinal == [][Push!StagedKept]_receipt
=============================================================================
