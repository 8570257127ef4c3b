-------------------------- MODULE DeliveryEvidence --------------------------
(***************************************************************************)
(* The evidence of one attempt, written by three kinds of writer that know *)
(* nothing of each other: the channel worker, provider callbacks, and the  *)
(* reconciler that gives up on silence (packages/server/lib/notify/        *)
(* reconcile.ts), which nothing in the repository schedules and which may  *)
(* therefore run at any time or never.  Each write is one transaction      *)
(* under the attempt's advisory lock; the order of writes and their        *)
(* repetition are arbitrary.                                               *)
(***************************************************************************)
EXTENDS DeliveryTruth

CONSTANTS Offered    \* facts the worker and the callbacks have to report

\* What RecordDeliveryEvidenceInputSchema lets pass: the attempt is announced
\* without a provider, success names the message, acceptance has no proof and no
\* reason, and the deadline is the reconciler's reason alone.
OfferedAssumption ==
    \A f \in Offered :
        /\ f = Fact(f.state, f.provider, f.ref, f.detail)
        /\ f.state \in States
        /\ f.state = "attempted" => f = Attempted
        /\ f.state \in {"provider-accepted", "delivered"} => f.ref # Null
        /\ f.state = "provider-accepted" => f.detail = Null
        /\ f.detail # "RECONCILED"

VARIABLES
    chain,      \* delivery_evidence of the attempt, oldest first
    stale,      \* the latest fact is older than the reconciliation deadline
    cutoff      \* facts old enough for the running reconciliation; 0 if none runs

vars == <<chain, stale, cutoff>>

ReconciledUnknown(previous) ==
    Fact("unknown", previous.provider, previous.ref, "RECONCILED")

Facts == Offered \cup {ReconciledUnknown(f) : f \in Offered}

TypeOK == /\ chain \in Seq(Facts)
          /\ stale \in BOOLEAN
          /\ cutoff \in 0..Len(chain)

Init == chain = <<>> /\ stale = FALSE /\ cutoff = 0
-----------------------------------------------------------------------------
\* A writer delivers a fact, for the first time or again.  A refused or
\* repeated fact changes nothing.
Record(f) ==
    /\ chain' = Recorded(chain, f)
    /\ chain' # chain
    /\ stale' = FALSE
    /\ UNCHANGED cutoff

\* The deadline passes with no newer fact.
GrowStale == /\ chain # <<>> /\ ~stale
             /\ stale' = TRUE
             /\ UNCHANGED <<chain, cutoff>>

Reconcilable == {"attempted", "provider-accepted"}

\* The facts the clock reading at the start of a reconciliation covers.
CutoffNow == Len(chain)

\* reconcile reads the clock and lists the stale attempts.
ListStale == /\ cutoff = 0
             /\ stale /\ Latest(chain).state \in Reconcilable
             /\ cutoff' = CutoffNow
             /\ UNCHANGED <<chain, stale>>

\* Variant: the list is trusted and the latest fact is not read again.
IsListed == TRUE

\* isReconciliationCandidate, read again under the attempt lock: the latest
\* fact is still one from before the cutoff.
IsCandidate == /\ Latest(chain).state \in Reconcilable
               /\ Len(chain) <= cutoff

AppendUnknown == /\ cutoff > 0
                 /\ IsCandidate
                 /\ chain' = Append(chain, ReconciledUnknown(Latest(chain)))
                 /\ stale' = FALSE
                 /\ cutoff' = 0

LeaveAlone == /\ cutoff > 0
              /\ ~IsCandidate
              /\ cutoff' = 0
              /\ UNCHANGED <<chain, stale>>

Reconcile == ListStale \/ AppendUnknown \/ LeaveAlone

Next == \/ \E f \in Offered : Record(f)
        \/ GrowStale
        \/ Reconcile

Spec == Init /\ [][Next]_vars

\* Every writer repeats its fact until the store acknowledges it.  Nothing is
\* assumed of the reconciler.
FairSpec == Spec /\ \A f \in Offered : WF_vars(Record(f))
-----------------------------------------------------------------------------
(* Properties. *)

\* The evidence begins with the attempt and every later fact is an allowed
\* transition from the one before it, the reconciler's own writes included.
LegalChain ==
    /\ chain # <<>> => chain[1] = Attempted
    /\ \A i \in 2..Len(chain) : <<chain[i-1].state, chain[i].state>> \in Allowed

\* However often a fact is delivered, it is retained once.
FactsRetainedOnce ==
    \A i, j \in DOMAIN chain : chain[i] = chain[j] => i = j

\* Once a provider has accepted a message, only two doubts can follow: one
\* that names a message, as a carrier's receipt does, or the reconciler's, about
\* the very acceptance before it.  A worker's late `unknown' does not take
\* acceptance back.
AcceptanceNotForgotten ==
    \A i, j \in DOMAIN chain :
        i < j /\ chain[i].state = "provider-accepted" /\ chain[j].state = "unknown"
            => \/ chain[j] \in Offered /\ chain[j].ref # Null
               \/ /\ chain[j-1].state = "provider-accepted"
                  /\ chain[j] = ReconciledUnknown(chain[j-1])

\* Delivered and failed are the last word, and expiry yields only to delivery
\* of the same provider message.
TerminalIsFinal ==
    [][chain # <<>> /\ Latest(chain).state \in Terminal /\ chain' # chain =>
          /\ Latest(chain).state = "expired"
          /\ Latest(chain').state = "delivered"
          /\ SameLineage(Latest(chain), Latest(chain'))]_vars

\* In whatever order the facts arrive, proof of delivery ends up as the truth.
KnownDelivered ==
    (\E f \in Offered : f.state = "delivered")
        => chain # <<>> /\ Latest(chain).state = "delivered"
DeliveryProofWins == <>[]KnownDelivered
=============================================================================
