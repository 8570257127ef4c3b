------------------------------ MODULE EmailPath ------------------------------
(***************************************************************************)
(* The way of an email: the router hands its batch to the email channel,   *)
(* a poll loop walks the batch page by page, an attempt sends to one       *)
(* recipient, and the delivery-truth store keeps what became of it.  The   *)
(* attempt is the module extended.  Each stage sees of the one before it   *)
(* what it left in a queue or a table, so that a behaviour picks one stage *)
(* and the others stay in their first state.                               *)
(***************************************************************************)
EXTENDS AttemptExecution

CONSTANTS
    Message, Batch, Carries, Unreadable, Invocation, BatchSize,
    MaxDeliveries,      \* the delivery queue's MaxReceives
    MaxRouterFaults,
    Pollers, N, PageSize, MayChange,
    FirstAnswers,       \* how a recipient's first attempt may end
    MaxReceives,        \* the email queue's
    MaxPollerFaults,
    Offered

VARIABLES
    moving,                                         \* the stage picked
    at, routerReceives, copies, handed, routerFailures, routed, routerFaults,
    inQueue, visible, receives, dead, live, candidates, result, published,
    skipped, pollerPc, cursor, page, pollerFaults,
    chain, stale, cutoff

Router == INSTANCE DeliveryRouting WITH
    MaxReceives <- MaxDeliveries, MaxFaults <- MaxRouterFaults,
    receives <- routerReceives, failures <- routerFailures, done <- routed,
    faults <- routerFaults

Walk == INSTANCE EmailBatch WITH
    Answers <- FirstAnswers, MaxFaults <- MaxPollerFaults,
    eligible <- candidates, pc <- pollerPc, faults <- pollerFaults

Truth == INSTANCE DeliveryEvidence

ASSUME RouterConstants == Router!RoutingAssumption
ASSUME WalkConstants == Walk!BatchAssumption
ASSUME TruthConstants == Truth!OfferedAssumption

router == <<at, routerReceives, copies, handed, routerFailures, routed, routerFaults>>
pages  == <<inQueue, visible, receives, dead, live, candidates, result,
            published, skipped, pollerPc, cursor, page, pollerFaults>>
truth  == <<chain, stale, cutoff>>
all    == <<moving, router, pages, vars, truth>>

Others(c) == /\ UNCHANGED moving
             /\ c # "router" => UNCHANGED router
             /\ c # "walk" => UNCHANGED pages
             /\ c # "attempt" => UNCHANGED vars
             /\ c # "truth" => UNCHANGED truth

PathInit == /\ moving \in {"router", "walk", "attempt", "truth"}
            /\ Router!Init /\ Walk!Init /\ Init /\ Truth!Init

PathNext == \/ moving = "router" /\ Router!Next /\ Others("router")
            \/ moving = "walk" /\ Walk!Next /\ Others("walk")
            \/ moving = "attempt" /\ Next /\ Others("attempt")
            \/ moving = "truth" /\ Truth!Next /\ Others("truth")

PathSpec == PathInit /\ [][PathNext]_all
-----------------------------------------------------------------------------
(* Properties.  The parts of each are stated where its stage is. *)

\* A message leaves the delivery queue only when its batch is in a channel's
\* queue or kept for an operator, and a batch is copied again only because
\* somebody could not know that it had arrived (router handler).
CopiesAccounted == Router!TypeOK /\ Router!NothingVanishes /\ Router!CopiesAccounted

\* The batch message leaves the system only when every candidate was emailed,
\* deliberately left out, or scheduled and its reference published (page walk).
NobodyForgotten == Walk!TypeOK /\ Walk!NobodyForgotten /\ Walk!RetriesPublished

\* The evidence is a chain of allowed transitions, each fact retained once
\* however often it is delivered, and acceptance is doubted only about a
\* message that is named (delivery-truth store and reconciler).
LegalChain == /\ Truth!TypeOK /\ Truth!LegalChain /\ Truth!FactsRetainedOnce
              /\ Truth!AcceptanceNotForgotten

\* Delivered and failed are the last word, and expiry yields only to delivery
\* of the same message, whichever writers race.
TerminalIsFinal == Truth!TerminalIsFinal
=============================================================================
