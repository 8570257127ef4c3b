--------------------------- MODULE EmailPathProofs ---------------------------
(***************************************************************************)
(* Theorems about EmailPath, for any messages, batches, invocations and    *)
(* poll loops, any number of candidates and page size, any facts the       *)
(* writers have to report, and any number of crashes and failed calls.     *)
(* Each stage has an invariant of its own, which its steps keep.           *)
(***************************************************************************)
EXTENDS EmailPath, FiniteSetTheorems, TLAPS

-----------------------------------------------------------------------------
(* The delivery-truth store and the reconciler. *)

\* What the reconciler says, it says of the fact before it.
Doubts(j) == /\ j > 1
             /\ chain[j-1].state \in Truth!Reconcilable
             /\ chain[j] = Truth!ReconciledUnknown(chain[j-1])
DoubtsInPlace == \A j \in DOMAIN chain : chain[j] \in Offered \/ Doubts(j)

TruthInv == /\ Truth!TypeOK /\ Truth!LegalChain /\ Truth!FactsRetainedOnce
            /\ DoubtsInPlace /\ Truth!AcceptanceNotForgotten

\* A fact may follow when the transition is allowed, it is new, and a doubt that
\* follows acceptance has one of the two permitted forms.
Follows(f) ==
    /\ f \in Truth!Facts
    /\ chain = <<>> => f = Truth!Attempted
    /\ chain # <<>> => <<Truth!Latest(chain).state, f.state>> \in Truth!Allowed
    /\ ~Truth!Retained(chain, f)
    /\ \/ f \in Offered
       \/ /\ chain # <<>> /\ Truth!Latest(chain).state \in Truth!Reconcilable
          /\ f = Truth!ReconciledUnknown(Truth!Latest(chain))
    /\ chain # <<>> /\ Truth!Latest(chain).state = "provider-accepted"
         /\ f.state = "unknown" /\ f \in Offered => f.ref # Truth!Null

\* A fact that may follow keeps the chain in order.
LEMMA AppendKeepsChain ==
    ASSUME TruthInv, NEW f, Follows(f), chain' = Append(chain, f),
           stale' \in BOOLEAN, cutoff' \in 0..Len(chain')
    PROVE  TruthInv'
<1>1. /\ chain \in Seq(Truth!Facts) /\ f \in Truth!Facts
      /\ chain' \in Seq(Truth!Facts) /\ Len(chain') = Len(chain) + 1
      /\ Len(chain) \in Nat /\ chain'[Len(chain) + 1] = f
      /\ \A i \in 1..Len(chain) : chain'[i] = chain[i]
      /\ DOMAIN chain = 1..Len(chain) /\ DOMAIN chain' = 1..Len(chain) + 1
      /\ chain = <<>> <=> Len(chain) = 0
  BY DEF TruthInv, Truth!TypeOK, Follows
<1>0. /\ (Len(chain) + 1) - 1 = Len(chain)
      /\ Len(chain) > 0 <=> chain # <<>>
      /\ chain # <<>> => chain'[Len(chain)] = Truth!Latest(chain)
  <2>1. (Len(chain) + 1) - 1 = Len(chain) /\ (Len(chain) > 0 <=> chain # <<>>)
    BY <1>1
  <2>2. chain # <<>> => Len(chain) \in 1..Len(chain)
    BY <1>1
  <2>. QED BY <1>1, <2>1, <2>2 DEF Truth!Latest
<1>2. \A i \in DOMAIN chain : chain[i] # f
  BY DEF Follows, Truth!Retained
<1>3. Truth!TypeOK'
  BY <1>1 DEF Truth!TypeOK
<1>4. Truth!LegalChain'
  <2>1. chain'[1] = Truth!Attempted
    BY <1>1 DEF TruthInv, Truth!LegalChain, Follows
  <2>2. ASSUME NEW i \in 2..Len(chain')
        PROVE  <<chain'[i-1].state, chain'[i].state>> \in Truth!Allowed
    <3>1. CASE i = Len(chain) + 1
      <4>1. chain # <<>> /\ chain'[i-1] = Truth!Latest(chain) /\ chain'[i] = f
        <5>1. i - 1 = Len(chain) /\ Len(chain) > 0
          BY <1>1, <3>1
        <5>. QED BY <1>0, <1>1, <3>1, <5>1
      <4>. QED BY <4>1 DEF Follows
    <3>2. CASE i # Len(chain) + 1
      <4>1. i \in 2..Len(chain) /\ i - 1 \in 1..Len(chain) /\ i \in 1..Len(chain)
        BY <1>1, <3>2
      <4>. QED BY <1>1, <4>1 DEF TruthInv, Truth!LegalChain
    <3>. QED BY <3>1, <3>2
  <2>. QED BY <2>1, <2>2 DEF Truth!LegalChain
<1>5. Truth!FactsRetainedOnce'
  BY <1>1, <1>2 DEF TruthInv, Truth!FactsRetainedOnce
<1>6. DoubtsInPlace'
  <2>1. SUFFICES ASSUME NEW j \in 1..Len(chain) + 1, chain'[j] \notin Offered
                 PROVE  Doubts(j)'
    BY <1>1 DEF DoubtsInPlace
  <2>2. CASE j = Len(chain) + 1
    <3>1. chain'[j] = f /\ f \notin Offered
      BY <1>1, <2>1, <2>2
    <3>2. chain # <<>> /\ j > 1 /\ chain'[j-1] = Truth!Latest(chain)
      <4>1. chain # <<>>
        BY <3>1 DEF Follows
      <4>2. j > 1 /\ j - 1 = Len(chain)
        <5>1. Len(chain) \in Nat /\ Len(chain) > 0
          BY <1>0, <1>1, <4>1, Zenon
        <5>. QED BY <2>2, <5>1
      <4>3. chain'[j-1] = Truth!Latest(chain)
        BY <1>0, <4>1, <4>2, Zenon
      <4>. QED BY <4>1, <4>2, <4>3
    <3>3. /\ Truth!Latest(chain).state \in Truth!Reconcilable
          /\ f = Truth!ReconciledUnknown(Truth!Latest(chain))
      BY <3>1 DEF Follows
    <3>. QED BY <3>1, <3>2, <3>3 DEF Doubts, Truth!ReconciledUnknown, Truth!Fact,
                                   Truth!Reconcilable
  <2>3. CASE j # Len(chain) + 1
    <3>1. j \in 1..Len(chain) /\ chain[j] \notin Offered
      BY <1>1, <2>1, <2>3
    <3>2. Doubts(j)
      BY <1>1, <3>1 DEF TruthInv, DoubtsInPlace
    <3>3. chain'[j] = chain[j] /\ chain'[j-1] = chain[j-1]
      BY <1>1, <3>1, <3>2 DEF Doubts
    <3>. QED BY <3>2, <3>3 DEF Doubts, Truth!ReconciledUnknown, Truth!Fact, Truth!Reconcilable
  <2>. QED BY <2>2, <2>3
<1>7. Truth!AcceptanceNotForgotten'
  <2>1. SUFFICES ASSUME NEW i \in 1..Len(chain) + 1, NEW j \in 1..Len(chain) + 1, i < j,
                        chain'[i].state = "provider-accepted",
                        chain'[j].state = "unknown"
                 PROVE  \/ chain'[j] \in Offered /\ chain'[j].ref # Truth!Null
                        \/ /\ chain'[j-1].state = "provider-accepted"
                           /\ chain'[j] = Truth!ReconciledUnknown(chain'[j-1])
    BY <1>1 DEF Truth!AcceptanceNotForgotten
  <2>2. CASE j = Len(chain) + 1
    <3>1. chain # <<>> /\ i \in 1..Len(chain) /\ chain'[j] = f /\ Truth!Latest(chain) = chain'[j-1]
      <4>1. Len(chain) > 0 /\ i \in 1..Len(chain) /\ j - 1 = Len(chain)
        BY <1>1, <2>1, <2>2
      <4>. QED BY <1>0, <1>1, <2>2, <4>1
    <3>2. Truth!Latest(chain).state \in {"attempted", "provider-accepted"}
      BY <2>1, <3>1 DEF Follows, Truth!Allowed
    <3>3. Truth!Latest(chain).state = "provider-accepted"
      <4>1. SUFFICES ASSUME chain[Len(chain)].state = "attempted" PROVE FALSE
        BY <3>2 DEF Truth!Latest
      <4>2. CASE Len(chain) = 1
        BY <1>1, <2>1, <3>1, <4>1, <4>2
      <4>3. CASE Len(chain) # 1
        <5>1. Len(chain) \in 2..Len(chain)
          BY <1>1, <3>1, <4>3
        <5>2. <<chain[Len(chain)-1].state, chain[Len(chain)].state>> \in Truth!Allowed
          BY <5>1 DEF TruthInv, Truth!LegalChain
        <5>. QED BY <4>1, <5>2 DEF Truth!Allowed
      <4>. QED BY <4>2, <4>3
    <3>. QED BY <2>1, <3>1, <3>3 DEF Follows
  <2>3. CASE j # Len(chain) + 1
    <3>1. i \in 1..Len(chain) /\ j \in 1..Len(chain) /\ j - 1 \in 1..Len(chain)
      BY <1>1, <2>1, <2>3
    <3>2. chain'[i] = chain[i] /\ chain'[j] = chain[j] /\ chain'[j-1] = chain[j-1]
      BY <1>1, <3>1
    <3>. QED BY <1>1, <2>1, <3>1, <3>2 DEF TruthInv, Truth!AcceptanceNotForgotten
  <2>. QED BY <2>2, <2>3
<1>. QED BY <1>3, <1>4, <1>5, <1>6, <1>7 DEF TruthInv

\* What a writer may add: the first fact announces the attempt, a later one is
\* new, allowed, and neither subsumed nor contradicted by the latest.
LEMMA RecordAdds ==
    ASSUME NEW f \in Offered, Truth!Record(f)
    PROVE  /\ chain' = Append(chain, f)
           /\ chain = <<>> => f = Truth!Attempted
           /\ chain # <<>> =>
                 /\ Truth!Disposition(Truth!Latest(chain), f) \notin {"subsumes", "conflicts"}
                 /\ ~Truth!Retained(chain, f)
                 /\ <<Truth!Latest(chain).state, f.state>> \in Truth!Allowed
<1>1. chain' = Append(chain, f) /\ Truth!Reply(chain, f) = "append"
  BY DEF Truth!Record, Truth!Recorded
<1>2. CASE chain = <<>>
  <2>1. f.state = "attempted"
    BY <1>1, <1>2 DEF Truth!Reply
  <2>. QED BY <1>1, <1>2, <2>1, TruthConstants DEF Truth!OfferedAssumption
<1>3. CASE chain # <<>>
  BY <1>1, <1>3 DEF Truth!Reply
<1>. QED BY <1>2, <1>3

\* A worker's doubt, which names no message, does not follow acceptance.
LEMMA RecordFollows ==
    ASSUME NEW f \in Offered, Truth!Record(f)
    PROVE  Follows(f) /\ chain' = Append(chain, f)
<1>1. f \in Truth!Facts
  BY DEF Truth!Facts
<1>2. chain = <<>> => ~Truth!Retained(chain, f)
  BY DEF Truth!Retained
<1>3. ASSUME chain # <<>>, Truth!Latest(chain).state = "provider-accepted",
             f.state = "unknown", f.ref = Truth!Null
      PROVE  FALSE
  BY <1>3, RecordAdds DEF Truth!Disposition, Truth!Terminal
<1>. QED BY <1>1, <1>2, <1>3, RecordAdds DEF Follows

\* The reconciler writes about the latest fact, which is a writer's.
LEMMA ReconcilerFollows ==
    ASSUME TruthInv, Truth!AppendUnknown
    PROVE  \E f : Follows(f) /\ chain' = Append(chain, f)
<1> DEFINE latest == Truth!Latest(chain)
           f == Truth!ReconciledUnknown(latest)
<1>1. /\ chain \in Seq(Truth!Facts) /\ Len(chain) \in Nat \ {0} /\ chain # <<>>
      /\ latest = chain[Len(chain)] /\ Len(chain) \in DOMAIN chain
      /\ latest.state \in Truth!Reconcilable /\ chain' = Append(chain, f)
  BY DEF TruthInv, Truth!TypeOK, Truth!AppendUnknown, Truth!IsCandidate, Truth!Latest
<1>2. f.state = "unknown" /\ f.provider = latest.provider /\ f.ref = latest.ref
      /\ f.detail = "RECONCILED"
  BY DEF Truth!ReconciledUnknown, Truth!Fact
<1>3. latest \in Offered
  <2>1. ~Doubts(Len(chain))
    BY <1>1 DEF Doubts, Truth!ReconciledUnknown, Truth!Fact, Truth!Reconcilable
  <2>. QED BY <1>1, <2>1 DEF TruthInv, DoubtsInPlace
<1>4. f \in Truth!Facts /\ f \notin Offered
  BY <1>2, <1>3, TruthConstants DEF Truth!Facts, Truth!OfferedAssumption
<1>5. <<latest.state, f.state>> \in Truth!Allowed
  BY <1>1, <1>2 DEF Truth!Allowed, Truth!Reconcilable
<1>6. ASSUME NEW j \in DOMAIN chain, chain[j] = f
      PROVE  FALSE
  <2>1. Doubts(j)
    BY <1>4, <1>6 DEF TruthInv, DoubtsInPlace
  <2>2. /\ j - 1 \in DOMAIN chain /\ j - 1 < Len(chain)
        /\ chain[j-1].state \in Truth!Reconcilable
        /\ chain[j-1].provider = latest.provider /\ chain[j-1].ref = latest.ref
    BY <1>1, <1>2, <1>6, <2>1 DEF Doubts, Truth!ReconciledUnknown, Truth!Fact
  <2>3. chain[j-1] \in Offered
    <3>1. ~Doubts(j - 1)
      BY <2>2 DEF Doubts, Truth!ReconciledUnknown, Truth!Fact, Truth!Reconcilable
    <3>. QED BY <2>2, <3>1 DEF TruthInv, DoubtsInPlace
  <2>4. chain[j-1] = latest
    BY <1>1, <1>3, <2>2, <2>3, TruthConstants DEF Truth!OfferedAssumption, Truth!Reconcilable,
       Truth!Attempted, Truth!Fact
  <2>. QED BY <1>1, <2>2, <2>4 DEF TruthInv, Truth!FactsRetainedOnce
<1>. QED BY <1>1, <1>4, <1>5, <1>6 DEF Follows, Truth!Retained

LEMMA TruthStarts == Truth!Init => TruthInv
<1> SUFFICES ASSUME chain = <<>>, stale = FALSE, cutoff = 0 PROVE TruthInv
  BY DEF Truth!Init
<1>1. chain \in Seq(Truth!Facts) /\ Len(chain) = 0 /\ DOMAIN chain = {} /\ cutoff \in 0..0
  OBVIOUS
<1>2. Truth!TypeOK
  BY <1>1 DEF Truth!TypeOK
<1>3. Truth!LegalChain
  BY <1>1 DEF Truth!LegalChain
<1>. QED BY <1>1, <1>2, <1>3 DEF TruthInv, Truth!FactsRetainedOnce, DoubtsInPlace,
                                 Truth!AcceptanceNotForgotten

LEMMA TruthKept == TruthInv /\ [Truth!Next]_(Truth!vars) => TruthInv'
<1> SUFFICES ASSUME TruthInv, [Truth!Next]_(Truth!vars) PROVE TruthInv'
  OBVIOUS
<1>0. chain \in Seq(Truth!Facts) /\ Len(chain) \in Nat /\ cutoff \in 0..Len(chain)
      /\ stale \in BOOLEAN
  BY DEF TruthInv, Truth!TypeOK
<1>1. ASSUME UNCHANGED chain, stale' \in BOOLEAN, cutoff' \in 0..Len(chain)
      PROVE  TruthInv'
  BY <1>1 DEF TruthInv, Truth!TypeOK, Truth!LegalChain, Truth!FactsRetainedOnce,
     DoubtsInPlace, Doubts, Truth!AcceptanceNotForgotten
<1>2. ASSUME NEW f, Follows(f), chain' = Append(chain, f), stale' \in BOOLEAN,
             cutoff' \in 0..Len(chain)
      PROVE  TruthInv'
  <2>1. cutoff' \in 0..Len(chain')
    BY <1>0, <1>2 DEF Follows
  <2>. QED BY <1>2, <2>1, AppendKeepsChain
<1>3. ASSUME NEW f \in Offered, Truth!Record(f)
      PROVE  TruthInv'
  <2>1. stale' \in BOOLEAN /\ cutoff' \in 0..Len(chain)
    BY <1>0, <1>3 DEF Truth!Record
  <2>. QED BY <1>2, <1>3, <2>1, RecordFollows
<1>4. CASE Truth!GrowStale
  BY <1>0, <1>1, <1>4 DEF Truth!GrowStale
<1>5. CASE Truth!ListStale
  BY <1>0, <1>1, <1>5 DEF Truth!ListStale, Truth!CutoffNow
<1>6. CASE Truth!AppendUnknown
  <2>1. stale' = FALSE /\ cutoff' = 0
    BY <1>6 DEF Truth!AppendUnknown
  <2>2. stale' \in BOOLEAN /\ cutoff' \in 0..Len(chain)
    <3>1. 0 \in 0..Len(chain)
      BY <1>0
    <3>. QED BY <2>1, <3>1, Zenon
  <2>3. \E f : Follows(f) /\ chain' = Append(chain, f)
    BY <1>6, ReconcilerFollows, Zenon
  <2>. QED BY <1>2, <2>2, <2>3, Zenon
<1>7. CASE Truth!LeaveAlone
  BY <1>0, <1>1, <1>7 DEF Truth!LeaveAlone
<1>8. CASE UNCHANGED Truth!vars
  BY <1>0, <1>1, <1>8 DEF Truth!vars
<1>. QED BY <1>3, <1>4, <1>5, <1>6, <1>7, <1>8 DEF Truth!Next, Truth!Reconcile

\* Nobody takes a last word back: a writer adds to a terminal fact only the
\* delivery of an expired message, and the reconciler nothing.
LEMMA LastWord ==
    ASSUME TruthInv, Truth!Next, chain # <<>>,
           Truth!Latest(chain).state \in Truth!Terminal, chain' # chain
    PROVE  /\ Truth!Latest(chain).state = "expired"
           /\ Truth!Latest(chain').state = "delivered"
           /\ Truth!SameLineage(Truth!Latest(chain), Truth!Latest(chain'))
<1>1. PICK f \in Offered : Truth!Record(f)
  BY DEF Truth!Next, Truth!Reconcile, Truth!GrowStale, Truth!ListStale,
     Truth!AppendUnknown, Truth!LeaveAlone, Truth!IsCandidate, Truth!Reconcilable,
     Truth!Terminal
<1>2. chain' = Append(chain, f)
      /\ Truth!Disposition(Truth!Latest(chain), f) \notin {"subsumes", "conflicts"}
  BY <1>1, RecordAdds
<1>3. Truth!Latest(chain') = f
  BY <1>2 DEF TruthInv, Truth!TypeOK, Truth!Latest, Truth!Facts
<1>. QED BY <1>2, <1>3 DEF Truth!Disposition, Truth!Terminal

-----------------------------------------------------------------------------
(* The page walk. *)

\* The walk owes a candidate nothing more.
Settled(r) == \/ r \in skipped
              \/ result[r] = "sent"
              \/ result[r] = "retry" /\ r \in published
AllSettled == \A r \in Walk!Candidates : Settled(r)

\* Whom a poller has passed is settled or on its page.
PassedSettled == \A p \in Pollers : \A r \in 1..cursor[p] : r \in page[p] \/ Settled(r)

\* What a poller is about to do, it may do.
Entitled == \A p \in Pollers :
    /\ pollerPc[p] \in {"idle", "resolve"} => page[p] = {}
    /\ pollerPc[p] = "finish" => AllSettled
    /\ pollerPc[p] = "drop" => dead

WalkInv == /\ Walk!TypeOK /\ PassedSettled /\ Entitled
           /\ Walk!Completed => AllSettled

\* Nothing that was settled is owed again.
Monotone == /\ skipped \subseteq skipped' /\ published \subseteq published'
            /\ \A r \in Walk!Candidates : result[r] # "none" => result'[r] = result[r]

LEMMA SettledStays ==
    ASSUME Monotone, NEW r \in Walk!Candidates, Settled(r)
    PROVE  Settled(r)'
  BY DEF Monotone, Settled

\* A poller's step keeps the invariant when it keeps what was settled, does not
\* delete without leave, and leaves the poller itself in order.
LEMMA PollerStep ==
    ASSUME WalkInv, NEW p \in Pollers, Walk!TypeOK', Monotone,
           \A q \in Pollers \ {p} : /\ pollerPc'[q] = pollerPc[q]
                                    /\ cursor'[q] = cursor[q] /\ page'[q] = page[q],
           dead => dead',
           Walk!Completed' => Walk!Completed \/ pollerPc[p] = "finish",
           \A r \in 1..cursor'[p] : r \in page'[p] \/ Settled(r)',
           pollerPc'[p] \in {"idle", "resolve"} => page'[p] = {},
           pollerPc'[p] = "finish" => AllSettled',
           pollerPc'[p] = "drop" => dead'
    PROVE  WalkInv'
<1>1. AllSettled => AllSettled'
  BY SettledStays DEF AllSettled, Walk!Candidates
<1>2. PassedSettled'
  <2>1. SUFFICES ASSUME NEW q \in Pollers, NEW r \in 1..cursor'[q]
                 PROVE  r \in page'[q] \/ Settled(r)'
    BY DEF PassedSettled
  <2>2. CASE q = p
    BY <2>1, <2>2
  <2>3. CASE q # p
    <3>1. r \in 1..cursor[q] /\ page'[q] = page[q]
      BY <2>1, <2>3
    <3>2. r \in Walk!Candidates
      BY <3>1, WalkConstants DEF WalkInv, Walk!TypeOK, Walk!Candidates, Walk!BatchAssumption
    <3>3. r \in page[q] \/ Settled(r)
      BY <3>1 DEF WalkInv, PassedSettled
    <3>. QED BY <3>1, <3>2, <3>3, SettledStays
  <2>. QED BY <2>2, <2>3
<1>3. Entitled'
  <2>1. SUFFICES ASSUME NEW q \in Pollers
                 PROVE  /\ pollerPc'[q] \in {"idle", "resolve"} => page'[q] = {}
                        /\ pollerPc'[q] = "finish" => AllSettled'
                        /\ pollerPc'[q] = "drop" => dead'
    BY DEF Entitled
  <2>2. CASE q = p
    BY <2>2
  <2>3. CASE q # p
    BY <1>1, <2>3 DEF WalkInv, Entitled
  <2>. QED BY <2>2, <2>3
<1>4. Walk!Completed' => AllSettled'
  BY <1>1 DEF WalkInv, Entitled
<1>. QED BY <1>2, <1>3, <1>4 DEF WalkInv

LEMMA GoToStep ==
    ASSUME WalkInv, NEW p \in Pollers, NEW s, Walk!GoTo(p, s), Walk!TypeOK', Monotone,
           dead => dead', Walk!Completed' => Walk!Completed \/ pollerPc[p] = "finish",
           s \in {"idle", "resolve"} => page[p] = {},
           s = "finish" => AllSettled', s = "drop" => dead'
    PROVE  WalkInv'
<1>1. /\ pollerPc' = [pollerPc EXCEPT ![p] = s] /\ UNCHANGED <<cursor, page>>
      /\ p \in DOMAIN pollerPc
  BY DEF Walk!GoTo, WalkInv, Walk!TypeOK
<1>2. \A r \in 1..cursor'[p] : r \in page'[p] \/ Settled(r)'
  <2>1. SUFFICES ASSUME NEW r \in 1..cursor[p] PROVE r \in page[p] \/ Settled(r)'
    BY <1>1
  <2>2. r \in Walk!Candidates
    BY WalkConstants DEF WalkInv, Walk!TypeOK, Walk!Candidates, Walk!BatchAssumption
  <2>3. r \in page[p] \/ Settled(r)
    BY <2>1 DEF WalkInv, PassedSettled
  <2>. QED BY <2>2, <2>3, SettledStays
<1>3. \A q \in Pollers \ {p} : /\ pollerPc'[q] = pollerPc[q]
                               /\ cursor'[q] = cursor[q] /\ page'[q] = page[q]
  BY <1>1 DEF WalkInv, Walk!TypeOK
<1>4. pollerPc'[p] = s /\ page'[p] = page[p]
  BY <1>1
<1>5. /\ pollerPc'[p] \in {"idle", "resolve"} => page'[p] = {}
      /\ pollerPc'[p] = "finish" => AllSettled'
      /\ pollerPc'[p] = "drop" => dead'
  BY <1>4
<1>. QED BY <1>2, <1>3, <1>5, PollerStep

LEMMA LetGoStep ==
    ASSUME WalkInv, NEW p \in Pollers, Walk!LetGo(p), Walk!TypeOK', Monotone,
           dead => dead', Walk!Completed' => Walk!Completed \/ pollerPc[p] = "finish"
    PROVE  WalkInv'
<1>1. /\ pollerPc' = [pollerPc EXCEPT ![p] = "idle"] /\ p \in DOMAIN pollerPc
      /\ cursor' = [cursor EXCEPT ![p] = 0] /\ p \in DOMAIN cursor
      /\ page' = [page EXCEPT ![p] = {}] /\ p \in DOMAIN page
  BY DEF Walk!LetGo, WalkInv, Walk!TypeOK
<1>2. \A q \in Pollers \ {p} : /\ pollerPc'[q] = pollerPc[q]
                               /\ cursor'[q] = cursor[q] /\ page'[q] = page[q]
  BY <1>1 DEF WalkInv, Walk!TypeOK
<1>3. pollerPc'[p] = "idle" /\ cursor'[p] = 0 /\ page'[p] = {}
  BY <1>1
<1>. QED BY <1>2, <1>3, PollerStep

\* Queue, policy and time: steps that move no poller and settle nobody.
LEMMA QueueStep ==
    ASSUME WalkInv, UNCHANGED <<result, published, skipped, pollerPc, cursor, page>>,
           Walk!TypeOK',
           ~dead' => ~dead \/ ~Walk!Working,
           Walk!Completed' => Walk!Completed
    PROVE  WalkInv'
<1>1. /\ \A r : Settled(r)' <=> Settled(r)
      /\ AllSettled' <=> AllSettled
  BY DEF Settled, AllSettled, Walk!Candidates
<1>2. ASSUME NEW p \in Pollers, pollerPc[p] = "drop"
      PROVE  dead'
  BY <1>2 DEF WalkInv, Entitled, Walk!Working, Walk!TypeOK
<1>3. PassedSettled' /\ Entitled'
  BY <1>1, <1>2 DEF WalkInv, PassedSettled, Entitled
<1>. QED BY <1>1, <1>3 DEF WalkInv

\* The types apart, those of the queue and those of the rest.
QueueTyped == /\ inQueue \in BOOLEAN /\ dead \in BOOLEAN /\ live \in BOOLEAN
              /\ visible \in BOOLEAN /\ (visible => inQueue)
RestTyped ==
    /\ receives \in 0..MaxReceives
    /\ candidates \subseteq Walk!Candidates
    /\ result \in [Walk!Candidates -> {"none"} \cup FirstAnswers]
    /\ published \subseteq {r \in Walk!Candidates : result[r] = "retry"}
    /\ skipped \subseteq Walk!Candidates
    /\ pollerPc \in [Pollers -> {"idle", "resolve", "work", "copy", "drop", "finish"}]
    /\ cursor \in [Pollers -> 0..N]
    /\ page \in [Pollers -> SUBSET Walk!Candidates]
    /\ pollerFaults \in 0..MaxPollerFaults

LEMMA TypesApart == /\ Walk!TypeOK <=> QueueTyped /\ RestTyped
                    /\ Walk!TypeOK' <=> QueueTyped' /\ RestTyped'
  BY DEF Walk!TypeOK, QueueTyped, RestTyped

LEMMA LetGoTyped ==
    ASSUME RestTyped, NEW p \in Pollers, Walk!LetGo(p), pollerFaults' \in 0..MaxPollerFaults,
           receives' \in 0..MaxReceives, UNCHANGED <<candidates, result, published, skipped>>
    PROVE  RestTyped'
  BY WalkConstants DEF Walk!BatchAssumption, Walk!LetGo, RestTyped, Walk!Candidates

LEMMA GoToTyped ==
    ASSUME RestTyped, NEW p \in Pollers, NEW step, Walk!GoTo(p, step),
           step \in {"idle", "resolve", "work", "copy", "drop", "finish"},
           receives' \in 0..MaxReceives, skipped' \subseteq Walk!Candidates,
           UNCHANGED <<candidates, result, published, pollerFaults>>
    PROVE  RestTyped'
  BY DEF Walk!GoTo, RestTyped, Walk!Candidates

\* Every step leaves the variables in their types.
LEMMA WalkTyped == Walk!TypeOK /\ [Walk!Next]_(Walk!vars) => Walk!TypeOK'
<1> SUFFICES ASSUME Walk!TypeOK, [Walk!Next]_(Walk!vars) PROVE Walk!TypeOK'
  OBVIOUS
<1>. USE WalkConstants DEF Walk!BatchAssumption
<1>0. QueueTyped /\ RestTyped
  BY TypesApart
<1>1. ASSUME NEW p \in Pollers, Walk!Receive(p) PROVE Walk!TypeOK'
  <2>1. QueueTyped'
    BY <1>0, <1>1, Zenon DEF Walk!Receive, QueueTyped, Walk!policy
  <2>2. receives' \in 0..MaxReceives
    BY <1>0, <1>1 DEF Walk!Receive, RestTyped
  <2>3. Walk!GoTo(p, "resolve") /\ UNCHANGED <<candidates, result, published, skipped, pollerFaults>>
    BY <1>1 DEF Walk!Receive, Walk!policy, Walk!outcome
  <2>4. RestTyped'
    BY <1>0, <2>2, <2>3, GoToTyped DEF RestTyped
  <2>. QED BY <2>1, <2>4, TypesApart
<1>2. ASSUME NEW p \in Pollers, Walk!ResolvePage(p) PROVE Walk!TypeOK'
  <2>1. QueueTyped'
    BY <1>0, <1>2, Zenon DEF Walk!ResolvePage, QueueTyped, Walk!policy, Walk!message
  <2>2. Walk!Page(cursor[p]) \subseteq Walk!Candidates /\ Walk!Covered(cursor[p]) \in 0..N
    BY <1>0, <1>2 DEF RestTyped, Walk!Page, Walk!Covered, Walk!Candidates
  <2>3. RestTyped'
    BY <1>0, <1>2, <2>2 DEF Walk!ResolvePage, RestTyped, Walk!Candidates, Walk!message,
       Walk!policy
  <2>. QED BY <2>1, <2>3, TypesApart
<1>3. ASSUME NEW p \in Pollers, Walk!ResolveStopped(p) PROVE Walk!TypeOK'
  BY <1>3 DEF Walk!ResolveStopped, Walk!GoTo, Walk!TypeOK, Walk!Candidates, Walk!message,
     Walk!policy
<1>4. ASSUME NEW p \in Pollers, Walk!ProcessRecipient(p) PROVE Walk!TypeOK'
  BY <1>4 DEF Walk!ProcessRecipient, Walk!NextOf, Walk!NeedsPublishing, Walk!StopsMessage,
     Walk!GoTo, Walk!TypeOK, Walk!Candidates, Walk!message, Walk!policy
<1>5. ASSUME NEW p \in Pollers, Walk!PageDone(p) PROVE Walk!TypeOK'
  BY <1>5 DEF Walk!PageDone, Walk!AfterPage, Walk!GoTo, Walk!TypeOK, Walk!Candidates,
     Walk!message, Walk!policy, Walk!outcome
<1>6. ASSUME NEW p \in Pollers, Walk!Delete(p) \/ Walk!DropRetired(p) PROVE Walk!TypeOK'
  <2>1. QueueTyped'
    BY <1>0, <1>6, Zenon DEF Walk!Delete, Walk!DropRetired, QueueTyped, Walk!policy
  <2>2. /\ Walk!LetGo(p)
        /\ UNCHANGED <<receives, candidates, result, published, skipped, pollerFaults>>
    BY <1>6 DEF Walk!Delete, Walk!DropRetired, Walk!policy, Walk!outcome
  <2>3. RestTyped'
    BY <1>0, <2>2, LetGoTyped DEF RestTyped
  <2>. QED BY <2>1, <2>3, TypesApart
<1>7. ASSUME NEW p \in Pollers, Walk!CopyToDeadLetters(p) PROVE Walk!TypeOK'
  BY <1>7 DEF Walk!CopyToDeadLetters, Walk!GoTo, Walk!TypeOK, Walk!Candidates, Walk!policy,
     Walk!outcome
<1>8. ASSUME NEW p \in Pollers, Walk!RecipientFails(p) PROVE Walk!TypeOK'
  BY <1>8 DEF Walk!RecipientFails, Walk!NextOf, Walk!LetGo, Walk!AFault, Walk!TypeOK,
     Walk!Candidates, Walk!message, Walk!policy
<1>9. ASSUME NEW p \in Pollers, Walk!Crash(p) PROVE Walk!TypeOK'
  BY <1>9 DEF Walk!Crash, Walk!LetGo, Walk!AFault, Walk!TypeOK, Walk!Candidates,
     Walk!message, Walk!policy, Walk!outcome
<1>10. CASE \/ Walk!VisibilityTimeout \/ Walk!VisibilityLapses
            \/ Walk!RedriveToDeadLetters \/ Walk!OperatorRedrive
  <2>1. QueueTyped'
    BY <1>0, <1>10, Zenon DEF Walk!VisibilityTimeout, Walk!VisibilityLapses,
       Walk!RedriveToDeadLetters, Walk!OperatorRedrive, QueueTyped, Walk!policy
  <2>2. receives' \in 0..MaxReceives /\ pollerFaults' \in 0..MaxPollerFaults
    BY <1>0, <1>10 DEF Walk!VisibilityTimeout, Walk!VisibilityLapses, Walk!AFault,
       Walk!RedriveToDeadLetters, Walk!OperatorRedrive, RestTyped
  <2>3. UNCHANGED <<candidates, result, published, skipped, pollerPc, cursor, page>>
    BY <1>10 DEF Walk!VisibilityTimeout, Walk!VisibilityLapses, Walk!RedriveToDeadLetters,
       Walk!OperatorRedrive, Walk!policy, Walk!outcome, Walk!poller
  <2>4. RestTyped'
    BY <1>0, <2>2, <2>3 DEF RestTyped, Walk!Candidates
  <2>. QED BY <2>1, <2>4, TypesApart
<1>11. ASSUME NEW r \in Walk!Candidates, Walk!LoseAddress(r) PROVE Walk!TypeOK'
  BY <1>11 DEF Walk!LoseAddress, Walk!TypeOK, Walk!Candidates, Walk!message, Walk!outcome,
     Walk!poller
<1>12. CASE Walk!StopSend
  BY <1>12 DEF Walk!StopSend, Walk!TypeOK, Walk!Candidates, Walk!message, Walk!outcome,
     Walk!poller
<1>13. CASE UNCHANGED Walk!vars
  BY <1>13 DEF Walk!vars, Walk!TypeOK, Walk!Candidates, Walk!message, Walk!policy,
     Walk!outcome, Walk!poller
<1>. QED
  BY <1>1, <1>2, <1>3, <1>4, <1>5, <1>6, <1>7, <1>8, <1>9, <1>10, <1>11, <1>12, <1>13
  DEF Walk!Next, Walk!Step, Walk!Queue

LEMMA WalkStarts == Walk!Init => WalkInv
<1> SUFFICES ASSUME Walk!Init PROVE WalkInv
  OBVIOUS
<1>. USE WalkConstants DEF Walk!BatchAssumption
<1>1. QueueTyped
  BY DEF Walk!Init, QueueTyped
<1>2. RestTyped
  BY DEF Walk!Init, RestTyped, Walk!Candidates
<1>3. PassedSettled /\ Entitled
  BY DEF Walk!Init, PassedSettled, Entitled
<1>4. ~Walk!Completed
  BY DEF Walk!Init, Walk!Completed
<1>. QED BY <1>1, <1>2, <1>3, <1>4, TypesApart DEF WalkInv

\* A poller takes the message, and resolves its page or finds the send stopped.
LEMMA ReceiveKept ==
    ASSUME WalkInv, NEW p \in Pollers, Walk!Receive(p), Walk!TypeOK' PROVE WalkInv'
<1>1. /\ Walk!GoTo(p, "resolve") /\ UNCHANGED <<dead, result, published, skipped>>
      /\ pollerPc[p] = "idle" /\ visible /\ inQueue' = inQueue
  BY DEF Walk!Receive, Walk!outcome
<1>2. Monotone /\ page[p] = {}
  BY <1>1 DEF Monotone, WalkInv, Entitled
<1>3. ~Walk!Completed'
  BY <1>1 DEF WalkInv, Walk!TypeOK, Walk!Completed
<1>. QED BY <1>1, <1>2, <1>3, GoToStep

LEMMA ResolveKept ==
    ASSUME WalkInv, NEW p \in Pollers, Walk!ResolvePage(p), Walk!TypeOK' PROVE WalkInv'
<1>0. RestTyped
  BY TypesApart DEF WalkInv
<1>1. /\ pollerPc' = [pollerPc EXCEPT ![p] = "work"]
      /\ cursor' = [cursor EXCEPT ![p] = Walk!Covered(cursor[p])]
      /\ page' = [page EXCEPT ![p] = Walk!Page(cursor[p]) \cap candidates]
      /\ skipped' = skipped \cup (Walk!Page(cursor[p]) \ candidates)
      /\ pollerPc[p] = "resolve" /\ UNCHANGED <<inQueue, dead, result, published>>
  BY DEF Walk!ResolvePage, Walk!message
<1>2. /\ pollerPc'[p] = "work" /\ cursor'[p] = Walk!Covered(cursor[p])
      /\ page'[p] = Walk!Page(cursor[p]) \cap candidates
      /\ cursor[p] \in 0..N /\ page[p] = {}
  BY <1>0, <1>1 DEF RestTyped, WalkInv, Entitled
<1>3. \A q \in Pollers \ {p} : /\ pollerPc'[q] = pollerPc[q]
                               /\ cursor'[q] = cursor[q] /\ page'[q] = page[q]
  BY <1>0, <1>1 DEF RestTyped
<1>4. Monotone
  BY <1>1 DEF Monotone
<1>5. ASSUME NEW r \in 1..Walk!Covered(cursor[p])
      PROVE  r \in page'[p] \/ Settled(r)'
  <2>1. r \in Walk!Candidates /\ (r \in 1..cursor[p] \/ r \in Walk!Page(cursor[p]))
    BY <1>2, <1>5, WalkConstants DEF Walk!Covered, Walk!Page, Walk!Candidates,
       Walk!BatchAssumption
  <2>2. CASE r \in 1..cursor[p]
    BY <1>2, <1>4, <2>1, <2>2, SettledStays DEF WalkInv, PassedSettled
  <2>3. CASE r \in Walk!Page(cursor[p])
    BY <1>1, <1>2, <2>3 DEF Settled
  <2>. QED BY <2>1, <2>2, <2>3
<1>6. Walk!Completed' => Walk!Completed
  BY <1>1 DEF Walk!Completed
<1>7. \A r \in 1..cursor'[p] : r \in page'[p] \/ Settled(r)'
  BY <1>2, <1>5
<1>8. /\ dead => dead'
      /\ pollerPc'[p] \in {"idle", "resolve"} => page'[p] = {}
      /\ pollerPc'[p] = "finish" => AllSettled'
      /\ pollerPc'[p] = "drop" => dead'
  BY <1>1, <1>2
<1>. QED BY <1>3, <1>4, <1>6, <1>7, <1>8, PollerStep

LEMMA StoppedKept ==
    ASSUME WalkInv, NEW p \in Pollers, Walk!ResolveStopped(p), Walk!TypeOK' PROVE WalkInv'
<1>1. /\ Walk!GoTo(p, "finish") /\ UNCHANGED <<inQueue, dead, result, published>>
      /\ skipped' = Walk!Candidates
  BY DEF Walk!ResolveStopped, Walk!message
<1>2. Monotone /\ AllSettled'
  BY <1>1 DEF Monotone, AllSettled, Settled, WalkInv, Walk!TypeOK, Walk!Candidates
<1>3. Walk!Completed' => Walk!Completed
  BY <1>1 DEF Walk!Completed
<1>. QED BY <1>1, <1>2, <1>3, GoToStep

\* The end of a page: nobody on it, so whoever was passed is settled.
LEMMA PageDoneKept ==
    ASSUME WalkInv, NEW p \in Pollers, Walk!PageDone(p), Walk!TypeOK' PROVE WalkInv'
<1>0. RestTyped
  BY TypesApart DEF WalkInv
<1>1. /\ Walk!GoTo(p, Walk!AfterPage(p)) /\ page[p] = {}
      /\ UNCHANGED <<inQueue, dead, result, published, skipped>>
  BY DEF Walk!PageDone, Walk!message, Walk!outcome
<1>2. Monotone /\ (Walk!Completed' => Walk!Completed)
  BY <1>1 DEF Monotone, Walk!Completed
<1>3. Walk!AfterPage(p) \in {"resolve", "finish"}
  BY DEF Walk!AfterPage
<1>4. ASSUME Walk!AfterPage(p) = "finish"
      PROVE  AllSettled'
  <2>1. cursor[p] = N
    BY <1>0, <1>4, WalkConstants DEF Walk!AfterPage, RestTyped, Walk!BatchAssumption
  <2>2. \A r \in Walk!Candidates : Settled(r)
    BY <1>1, <2>1 DEF WalkInv, PassedSettled, Walk!Candidates
  <2>. QED BY <1>2, <2>2, SettledStays DEF AllSettled, Walk!Candidates
<1>. QED BY <1>1, <1>2, <1>3, <1>4, GoToStep

\* A recipient: whoever leaves the page has been sent to, or is scheduled and
\* the reference published.
LEMMA RecipientKept ==
    ASSUME WalkInv, NEW p \in Pollers, Walk!ProcessRecipient(p), Walk!TypeOK' PROVE WalkInv'
<1>0. RestTyped /\ RestTyped'
  BY TypesApart DEF WalkInv
<1>1. PICK r \in Walk!Candidates :
         /\ \E a \in IF result[r] = "none" THEN FirstAnswers ELSE {result[r]} :
               result' = [result EXCEPT ![r] = a]
         /\ published' = IF result'[r] = "retry" THEN published \cup {r} ELSE published
         /\ IF result'[r] = "refused" THEN Walk!GoTo(p, "copy")
            ELSE /\ page' = [page EXCEPT ![p] = @ \ {r}]
                 /\ UNCHANGED <<pollerPc, cursor>>
  BY DEF Walk!ProcessRecipient, Walk!NeedsPublishing, Walk!StopsMessage
<1>2. PICK a : /\ a \in IF result[r] = "none" THEN FirstAnswers ELSE {result[r]}
               /\ result' = [result EXCEPT ![r] = a]
  BY <1>1
<1>3. a \in {"none"} \cup FirstAnswers
  BY <1>0, <1>2 DEF RestTyped
<1>4. pollerPc[p] = "work" /\ UNCHANGED <<inQueue, dead, skipped>>
  BY DEF Walk!ProcessRecipient, Walk!message
<1>5. result'[r] = a /\ \A s \in Walk!Candidates \ {r} : result'[s] = result[s]
  BY <1>0, <1>2 DEF RestTyped
<1>6. Monotone
  BY <1>0, <1>1, <1>2, <1>4, <1>5 DEF Monotone
<1>7. Walk!Completed' => Walk!Completed
  BY <1>4 DEF Walk!Completed
<1>8. CASE result'[r] = "refused"
  BY <1>1, <1>4, <1>6, <1>7, <1>8, GoToStep
<1>9. CASE result'[r] # "refused"
  <2>1. Settled(r)'
    <3>1. a \in {"sent", "retry"}
      <4>1. a # "none"
        BY <1>2, WalkConstants DEF Walk!BatchAssumption
      <4>. QED BY <1>3, <1>5, <1>9, <4>1, WalkConstants DEF Walk!BatchAssumption
    <3>. QED BY <1>1, <1>5, <3>1 DEF Settled
  <2>2. /\ page' = [page EXCEPT ![p] = @ \ {r}] /\ UNCHANGED <<pollerPc, cursor>>
    BY <1>1, <1>9
  <2>3. page'[p] = page[p] \ {r} /\ \A q \in Pollers \ {p} : page'[q] = page[q]
    BY <1>0, <2>2 DEF RestTyped
  <2>4. ASSUME NEW s \in 1..cursor[p]
        PROVE  s \in page'[p] \/ Settled(s)'
    <3>1. s \in Walk!Candidates
      BY <1>0, <2>4, WalkConstants DEF RestTyped, Walk!Candidates, Walk!BatchAssumption
    <3>2. s \in page[p] \/ Settled(s)
      BY <2>4 DEF WalkInv, PassedSettled
    <3>. QED BY <1>6, <2>1, <2>3, <3>1, <3>2, SettledStays
  <2>5. /\ dead => dead'
        /\ pollerPc'[p] = "work" /\ cursor' = cursor
    BY <1>4, <2>2
  <2>6. \A s \in 1..cursor'[p] : s \in page'[p] \/ Settled(s)'
    BY <2>4, <2>5
  <2>7. \A q \in Pollers \ {p} : /\ pollerPc'[q] = pollerPc[q]
                                 /\ cursor'[q] = cursor[q] /\ page'[q] = page[q]
    BY <2>2, <2>3
  <2>8. /\ pollerPc'[p] \in {"idle", "resolve"} => page'[p] = {}
        /\ pollerPc'[p] = "finish" => AllSettled'
        /\ pollerPc'[p] = "drop" => dead'
    BY <2>5
  <2>. QED BY <1>6, <1>7, <2>5, <2>6, <2>7, <2>8, PollerStep
<1>. QED BY <1>8, <1>9

LEMMA RecipientFailsKept ==
    ASSUME WalkInv, NEW p \in Pollers, Walk!RecipientFails(p), Walk!TypeOK' PROVE WalkInv'
<1>0. RestTyped
  BY TypesApart DEF WalkInv
<1>1. PICK r \in Walk!Candidates, a \in {"none"} \cup FirstAnswers :
         /\ a \in IF result[r] = "none" THEN FirstAnswers \cup {"none"} ELSE {result[r]}
         /\ result' = [result EXCEPT ![r] = a]
         /\ published' \in {published} \cup
               (IF a = "retry" THEN {published \cup {r}} ELSE {})
  BY <1>0 DEF RestTyped, Walk!RecipientFails
<1>2. Walk!LetGo(p) /\ UNCHANGED <<inQueue, dead, skipped>>
  BY DEF Walk!RecipientFails, Walk!message
<1>3. Monotone
  BY <1>0, <1>1, <1>2 DEF Monotone, RestTyped
<1>4. Walk!Completed' => Walk!Completed
  BY <1>2 DEF Walk!Completed
<1>. QED BY <1>2, <1>3, <1>4, LetGoStep

\* The deletes: at the end of the walk, and after the copy for the operator.
LEMMA DeletesKept ==
    ASSUME WalkInv, NEW p \in Pollers, Walk!TypeOK',
           Walk!Delete(p) \/ Walk!DropRetired(p) \/ Walk!Crash(p)
    PROVE  WalkInv'
<1>1. Walk!LetGo(p) /\ UNCHANGED <<dead, result, published, skipped>>
  BY DEF Walk!Delete, Walk!DropRetired, Walk!Crash, Walk!outcome, Walk!message
<1>2. Monotone
  BY <1>1 DEF Monotone
<1>3. Walk!Completed' => Walk!Completed \/ pollerPc[p] = "finish"
  BY DEF Walk!Delete, Walk!DropRetired, Walk!Crash, Walk!message, Walk!Completed, WalkInv,
     Entitled
<1>. QED BY <1>1, <1>2, <1>3, LetGoStep

LEMMA CopyKept ==
    ASSUME WalkInv, NEW p \in Pollers, Walk!CopyToDeadLetters(p), Walk!TypeOK' PROVE WalkInv'
<1>1. /\ Walk!GoTo(p, "drop") /\ dead' = TRUE
      /\ UNCHANGED <<result, published, skipped>>
  BY DEF Walk!CopyToDeadLetters, Walk!outcome
<1>2. Monotone /\ ~Walk!Completed'
  BY <1>1 DEF Monotone, Walk!Completed
<1>. QED BY <1>1, <1>2, GoToStep

LEMMA WalkKept == WalkInv /\ [Walk!Next]_(Walk!vars) => WalkInv'
<1> SUFFICES ASSUME WalkInv, [Walk!Next]_(Walk!vars) PROVE WalkInv'
  OBVIOUS
<1>1. Walk!TypeOK'
  BY WalkTyped DEF WalkInv
<1>2. ASSUME NEW p \in Pollers, Walk!Receive(p) \/ Walk!Step(p)
      PROVE  WalkInv'
  BY <1>1, <1>2, ReceiveKept, ResolveKept, StoppedKept, PageDoneKept, RecipientKept,
     DeletesKept, CopyKept DEF Walk!Step
<1>3. ASSUME NEW p \in Pollers, Walk!RecipientFails(p) \/ Walk!Crash(p)
      PROVE  WalkInv'
  BY <1>1, <1>3, RecipientFailsKept, DeletesKept
<1>4. CASE Walk!Queue \/ Walk!VisibilityLapses \/ Walk!OperatorRedrive
  <2>1. UNCHANGED <<result, published, skipped, pollerPc, cursor, page>>
    BY <1>4 DEF Walk!Queue, Walk!VisibilityTimeout, Walk!VisibilityLapses,
       Walk!RedriveToDeadLetters, Walk!OperatorRedrive, Walk!outcome, Walk!poller
  <2>2. /\ ~dead' => ~dead \/ ~Walk!Working
        /\ Walk!Completed' => Walk!Completed
    BY <1>4 DEF Walk!Queue, Walk!VisibilityTimeout, Walk!VisibilityLapses,
       Walk!RedriveToDeadLetters, Walk!OperatorRedrive, Walk!Completed
  <2>. QED BY <1>1, <2>1, <2>2, QueueStep
<1>5. CASE Walk!StopSend \/ (\E r \in Walk!Candidates : Walk!LoseAddress(r)) \/ UNCHANGED Walk!vars
  <2>1. UNCHANGED <<inQueue, dead, result, published, skipped, pollerPc, cursor, page>>
    BY <1>5 DEF Walk!StopSend, Walk!LoseAddress, Walk!vars, Walk!message, Walk!outcome,
       Walk!poller
  <2>. QED BY <1>1, <2>1, QueueStep DEF Walk!Completed
<1>. QED BY <1>2, <1>3, <1>4, <1>5 DEF Walk!Next

-----------------------------------------------------------------------------
(* The router. *)

\* The batch of a message that was forwarded, or deleted as forwarded.
Credit(m) == at[m] = "deleted" \/ \E i \in Invocation : m \in routed[i]
Credited(b) == {m \in Message : Carries[m] = b /\ Credit(m)}

RouterTyped ==
    /\ at \in [Message -> {"outbox", "visible", "taken", "deleted", "dead"}]
    /\ routerReceives \in [Message -> 0..MaxDeliveries]
    /\ copies \in [Batch -> Nat]
    /\ handed \in [Invocation -> SUBSET Message]
    /\ routerFailures \in [Invocation -> SUBSET Message]
    /\ routed \in [Invocation -> SUBSET Message]
    /\ routerFaults \in 0..MaxRouterFaults

\* An invocation has its messages to itself, at most BatchSize of them, each in
\* one of its three lists.
HeldApart ==
    /\ \A i \in Invocation : \A m \in Router!Held(i) : at[m] = "taken"
    /\ \A i, j \in Invocation : i # j => Router!Held(i) \cap Router!Held(j) = {}
    /\ \A i \in Invocation : Cardinality(Router!Held(i)) <= BatchSize
    /\ \A i \in Invocation : /\ handed[i] \cap routed[i] = {}
                             /\ handed[i] \cap routerFailures[i] = {}
                             /\ routed[i] \cap routerFailures[i] = {}

CreditHasCopy == \A m \in Message : Credit(m) => copies[Carries[m]] > 0

\* A copy is credited to a message or to a fault: an invocation that dies takes
\* back no more than it was handed.
CopiesCredited ==
    \A b \in Batch : copies[b] <= Cardinality(Credited(b)) + BatchSize * routerFaults

RouterInv == RouterTyped /\ HeldApart /\ CreditHasCopy /\ CopiesCredited

\* The router's module brings its own copy of the counting operators.
LEMMA SameCount == \A S : /\ Router!IsFiniteSet(S) <=> IsFiniteSet(S)
                          /\ Router!Cardinality(S) = Cardinality(S)
  BY DEF Router!IsFiniteSet, IsFiniteSet, Router!Cardinality, Cardinality

LEMMA CreditedFinite ==
    ASSUME NEW b
    PROVE  /\ IsFiniteSet(Credited(b)) /\ Cardinality(Credited(b)) \in Nat
           /\ IsFiniteSet(Credited(b)') /\ Cardinality(Credited(b)') \in Nat
<1>1. Credited(b) \subseteq Message /\ Credited(b)' \subseteq Message
  BY DEF Credited
<1>2. ASSUME NEW T, T \subseteq Message
      PROVE  IsFiniteSet(T) /\ Cardinality(T) \in Nat
  <2>1. IsFiniteSet(Message)
    BY RouterConstants, SameCount DEF Router!RoutingAssumption
  <2>2. IsFiniteSet(T)
    BY <1>2, <2>1, FS_Subset
  <2>. QED BY <2>2, FS_CardinalityType
<1>. QED BY <1>1, <1>2, Zenon

LEMMA OneMoreFault ==
    ASSUME RouterTyped, routerFaults' = routerFaults + 1
    PROVE  /\ BatchSize * routerFaults \in Nat
           /\ BatchSize * routerFaults' = BatchSize * routerFaults + BatchSize
           /\ BatchSize \in Nat /\ BatchSize >= 1
<1>. DEFINE f == routerFaults
<1>1. BatchSize \in Nat /\ BatchSize >= 1 /\ f \in Nat /\ routerFaults' = f + 1
  BY RouterConstants DEF RouterTyped, Router!RoutingAssumption
<1>2. \A x, y \in Nat : x * y \in Nat /\ x * (y + 1) = x * y + x
  OBVIOUS
<1>. QED BY <1>1, <1>2

\* Steps that forward nothing and take no credit back.
LEMMA SameCredit ==
    ASSUME RouterInv, RouterTyped', HeldApart', UNCHANGED copies,
           routerFaults' = routerFaults \/ routerFaults' = routerFaults + 1,
           \A m \in Message : Credit(m)' <=> Credit(m)
    PROVE  RouterInv'
<1>1. \A b : Credited(b)' = Credited(b)
  BY DEF Credited
<1>2. CreditHasCopy'
  BY DEF RouterInv, CreditHasCopy
<1>3. ASSUME NEW b \in Batch
      PROVE  copies'[b] <= Cardinality(Credited(b)') + BatchSize * routerFaults'
  <2>1. /\ copies[b] <= Cardinality(Credited(b)) + BatchSize * routerFaults
        /\ copies[b] \in Nat /\ Cardinality(Credited(b)) \in Nat
    BY CreditedFinite DEF RouterInv, CopiesCredited, RouterTyped
  <2>2. CASE routerFaults' = routerFaults
    BY <1>1, <2>1, <2>2
  <2>3. CASE routerFaults' = routerFaults + 1
    BY <1>1, <2>1, <2>3, OneMoreFault DEF RouterInv
  <2>. QED BY <2>2, <2>3
<1>. QED BY <1>2, <1>3 DEF RouterInv, CopiesCredited

\* A record forwarded: one more copy, and one more message to its credit.
LEMMA ForwardCredits ==
    ASSUME RouterInv, RouterTyped', HeldApart', NEW m \in Message, ~Credit(m),
           Router!Copied(m), UNCHANGED routerFaults,
           \A x \in Message : Credit(x)' <=> Credit(x) \/ x = m
    PROVE  RouterInv'
<1>0. /\ Carries[m] \in Batch /\ copies \in [Batch -> Nat]
      /\ copies' = [copies EXCEPT ![Carries[m]] = copies[Carries[m]] + 1]
  BY RouterConstants DEF RouterInv, RouterTyped, Router!Copied, Router!RoutingAssumption
<1>1. /\ copies'[Carries[m]] = copies[Carries[m]] + 1
      /\ \A b \in Batch : b # Carries[m] => copies'[b] = copies[b]
      /\ \A b \in Batch : copies[b] \in Nat /\ copies'[b] >= copies[b]
  BY <1>0
<1>2. CreditHasCopy'
  <2>1. \A x \in Message : Carries[x] \in Batch
    BY RouterConstants DEF Router!RoutingAssumption
  <2>. QED BY <1>0, <1>1, <2>1 DEF RouterInv, CreditHasCopy
<1>3. ASSUME NEW b \in Batch
      PROVE  copies'[b] <= Cardinality(Credited(b)') + BatchSize * routerFaults'
  <2>0. /\ copies[b] <= Cardinality(Credited(b)) + BatchSize * routerFaults
        /\ Cardinality(Credited(b)) \in Nat /\ IsFiniteSet(Credited(b))
        /\ BatchSize * routerFaults \in Nat
    <3>1. BatchSize \in Nat /\ routerFaults \in Nat
      BY RouterConstants DEF RouterInv, RouterTyped, Router!RoutingAssumption
    <3>. QED BY <3>1, CreditedFinite DEF RouterInv, CopiesCredited
  <2>1. CASE b = Carries[m]
    <3>1. Credited(b)' = Credited(b) \cup {m} /\ m \notin Credited(b)
      BY <2>1 DEF Credited
    <3>2. Cardinality(Credited(b) \cup {m}) = Cardinality(Credited(b)) + 1
      BY <2>0, <3>1, FS_AddElement
    <3>. QED BY <1>1, <2>0, <2>1, <3>1, <3>2
  <2>2. CASE b # Carries[m]
    <3>1. Credited(b)' = Credited(b)
      BY <2>2 DEF Credited
    <3>. QED BY <1>1, <2>0, <2>2, <3>1
  <2>. QED BY <2>1, <2>2
<1>. QED BY <1>2, <1>3 DEF RouterInv, CopiesCredited

\* A send reported as failed that had arrived: the fault pays for the copy.
LEMMA FaultPays ==
    ASSUME RouterInv, RouterTyped', HeldApart', NEW m \in Message, Router!Copied(m),
           routerFaults' = routerFaults + 1,
           \A x \in Message : Credit(x)' <=> Credit(x)
    PROVE  RouterInv'
<1>0. /\ Carries[m] \in Batch /\ copies \in [Batch -> Nat]
      /\ copies' = [copies EXCEPT ![Carries[m]] = copies[Carries[m]] + 1]
  BY RouterConstants DEF RouterInv, RouterTyped, Router!Copied, Router!RoutingAssumption
<1>1. \A b \in Batch : /\ copies[b] \in Nat /\ copies'[b] \in Nat
                       /\ copies'[b] >= copies[b] /\ copies'[b] <= copies[b] + 1
  BY <1>0
<1>2. CreditHasCopy'
  <2>1. \A x \in Message : Carries[x] \in Batch
    BY RouterConstants DEF Router!RoutingAssumption
  <2>. QED BY <1>1, <2>1 DEF RouterInv, CreditHasCopy
<1>3. ASSUME NEW b \in Batch
      PROVE  copies'[b] <= Cardinality(Credited(b)') + BatchSize * routerFaults'
  <2>1. /\ copies[b] <= Cardinality(Credited(b)) + BatchSize * routerFaults
        /\ Cardinality(Credited(b)) \in Nat
    BY CreditedFinite DEF RouterInv, CopiesCredited
  <2>2. Credited(b)' = Credited(b)
    BY DEF Credited
  <2>3. /\ BatchSize * routerFaults \in Nat /\ BatchSize \in Nat /\ BatchSize >= 1
        /\ BatchSize * routerFaults' = BatchSize * routerFaults + BatchSize
    BY OneMoreFault DEF RouterInv
  <2>. QED BY <1>1, <2>1, <2>2, <2>3
<1>. QED BY <1>2, <1>3 DEF RouterInv, CopiesCredited

\* An invocation dies: what it forwarded loses its credit, and no more than
\* BatchSize messages do.
LEMMA DeathPays ==
    ASSUME RouterInv, RouterTyped', HeldApart', NEW i \in Invocation, UNCHANGED copies,
           routerFaults' = routerFaults + 1,
           \A m \in Message : /\ Credit(m)' => Credit(m)
                              /\ Credit(m) => Credit(m)' \/ m \in Router!Held(i)
    PROVE  RouterInv'
<1>1. CreditHasCopy'
  BY DEF RouterInv, CreditHasCopy
<1>2. ASSUME NEW b \in Batch
      PROVE  copies'[b] <= Cardinality(Credited(b)') + BatchSize * routerFaults'
  <2>1. /\ copies[b] <= Cardinality(Credited(b)) + BatchSize * routerFaults
        /\ Cardinality(Credited(b)) \in Nat /\ Cardinality(Credited(b)') \in Nat
        /\ copies[b] \in Nat
    BY CreditedFinite DEF RouterInv, CopiesCredited, RouterTyped
  <2>2. /\ BatchSize * routerFaults \in Nat /\ BatchSize \in Nat
        /\ BatchSize * routerFaults' = BatchSize * routerFaults + BatchSize
    BY OneMoreFault DEF RouterInv
  <2>3. Cardinality(Credited(b)) <= Cardinality(Credited(b)') + BatchSize
    <3>. DEFINE before == Credited(b)
                after == Credited(b)'
                H == Router!Held(i)
    <3>1. before \subseteq after \cup H
      BY DEF Credited
    <3>2. IsFiniteSet(after) /\ IsFiniteSet(H) /\ IsFiniteSet(after \cup H)
      <4>1. H \subseteq Message
        BY DEF RouterInv, RouterTyped, Router!Held
      <4>2. IsFiniteSet(H)
        <5>1. IsFiniteSet(Message)
          BY RouterConstants, SameCount DEF Router!RoutingAssumption
        <5>. QED BY <4>1, <5>1, FS_Subset
      <4>3. IsFiniteSet(after)
        BY CreditedFinite
      <4>. QED BY <4>2, <4>3, FS_Union
    <3>3. Cardinality(H) \in Nat /\ Cardinality(H) <= BatchSize
      BY <3>2, FS_CardinalityType DEF RouterInv, HeldApart
    <3>4. Cardinality(before) <= Cardinality(after \cup H)
      BY <3>1, <3>2, FS_Subset
    <3>5. Cardinality(after \cup H) <= Cardinality(after) + Cardinality(H)
      <4>1. /\ Cardinality(after \cup H) =
                  Cardinality(after) + Cardinality(H) - Cardinality(after \cap H)
            /\ IsFiniteSet(after \cap H)
        BY <3>2, FS_Union, FS_Intersection
      <4>2. /\ Cardinality(after \cap H) \in Nat /\ Cardinality(after) \in Nat
            /\ Cardinality(H) \in Nat
        BY <3>2, <4>1, FS_CardinalityType
      <4>. HIDE DEF after, H
      <4>. QED BY <4>1, <4>2
    <3>6. Cardinality(after \cup H) \in Nat
      BY <3>2, FS_CardinalityType
    <3>. HIDE DEF before, after, H
    <3>7. Cardinality(before) \in Nat /\ Cardinality(after) \in Nat
      BY <2>1 DEF before, after
    <3>. QED BY <2>2, <3>3, <3>4, <3>5, <3>6, <3>7 DEF before, after
  <2>. QED BY <2>1, <2>2, <2>3
<1>. QED BY <1>1, <1>2 DEF RouterInv, CopiesCredited

LEMMA RouterStarts == Router!Init => RouterInv
<1> SUFFICES ASSUME Router!Init PROVE RouterInv
  OBVIOUS
<1>1. RouterTyped
  BY RouterConstants DEF Router!Init, RouterTyped, Router!RoutingAssumption
<1>2. \A i \in Invocation : Router!Held(i) = {}
  BY DEF Router!Init, Router!Held
<1>3. HeldApart
  <2>1. Cardinality({}) <= BatchSize
    BY RouterConstants, FS_EmptySet DEF Router!RoutingAssumption
  <2>. QED BY <1>2, <2>1 DEF HeldApart, Router!Init
<1>4. \A m \in Message : ~Credit(m)
  BY DEF Router!Init, Credit
<1>5. ASSUME NEW b \in Batch
      PROVE  copies[b] <= Cardinality(Credited(b)) + BatchSize * routerFaults
  <2>1. copies[b] = 0 /\ routerFaults = 0 /\ Cardinality(Credited(b)) \in Nat
    BY CreditedFinite DEF Router!Init
  <2>2. BatchSize \in Nat
    BY RouterConstants DEF Router!RoutingAssumption
  <2>. QED BY <2>1, <2>2
<1>. QED BY <1>1, <1>3, <1>4, <1>5 DEF RouterInv, CreditHasCopy, CopiesCredited

\* A message nobody holds moves between the queue's places, but not to `deleted'.
LEMMA MoveKept ==
    ASSUME RouterInv, NEW m \in Message, NEW place \in {"visible", "dead"},
           Router!Move({m}, place), at[m] \in {"outbox", "visible", "dead"},
           routerReceives' \in [Message -> 0..MaxDeliveries],
           UNCHANGED <<copies, handed, routerFailures, routed, routerFaults>>
    PROVE  RouterInv'
<1>1. /\ at' = [x \in Message |-> IF x = m THEN place ELSE at[x]]
      /\ \A i \in Invocation : Router!Held(i)' = Router!Held(i)
  BY DEF Router!Move, Router!Held
<1>2. RouterTyped'
  BY <1>1 DEF RouterInv, RouterTyped
<1>3. \A i \in Invocation : m \notin Router!Held(i) /\ Router!Held(i) \subseteq Message
  BY DEF RouterInv, HeldApart, RouterTyped, Router!Held
<1>4. HeldApart'
  BY <1>1, <1>3 DEF RouterInv, HeldApart
<1>5. \A x \in Message : Credit(x)' <=> Credit(x)
  BY <1>1 DEF Credit
<1>. QED BY <1>2, <1>4, <1>5, SameCredit

LEMMA InvokeKept ==
    ASSUME RouterInv, NEW i \in Invocation, NEW S \in SUBSET Message, Router!Invoke(i, S)
    PROVE  RouterInv'
<1>1. /\ Router!Held(i) = {} /\ Cardinality(S) <= BatchSize
      /\ \A m \in S : at[m] = "visible" /\ routerReceives[m] < MaxDeliveries
      /\ at' = [m \in Message |-> IF m \in S THEN "taken" ELSE at[m]]
      /\ routerReceives' = [m \in Message |-> routerReceives[m] + IF m \in S THEN 1 ELSE 0]
      /\ handed' = [handed EXCEPT ![i] = S]
      /\ UNCHANGED <<copies, routerFailures, routed, routerFaults>>
  BY SameCount DEF Router!Invoke, Router!Deliverable, Router!Move
<1>2. RouterTyped'
  <2>1. routerReceives' \in [Message -> 0..MaxDeliveries]
    BY <1>1, RouterConstants DEF RouterInv, RouterTyped, Router!RoutingAssumption
  <2>. QED BY <1>1, <2>1 DEF RouterInv, RouterTyped
<1>3. /\ handed[i] = {} /\ routerFailures[i] = {} /\ routed[i] = {}
      /\ handed'[i] = S /\ \A j \in Invocation \ {i} : handed'[j] = handed[j]
  BY <1>1 DEF Router!Held, RouterInv, RouterTyped
<1>4. /\ Router!Held(i)' = S
      /\ \A j \in Invocation \ {i} : Router!Held(j)' = Router!Held(j)
  BY <1>1, <1>3 DEF Router!Held
<1>5. \A j \in Invocation : Router!Held(j) \cap S = {} /\ Router!Held(j) \subseteq Message
  BY <1>1 DEF RouterInv, HeldApart, RouterTyped, Router!Held
<1>6. HeldApart'
  <2>1. \A j \in Invocation : \A m \in Router!Held(j)' : at'[m] = "taken"
    BY <1>1, <1>4, <1>5 DEF RouterInv, HeldApart
  <2>2. \A j, k \in Invocation : j # k => Router!Held(j)' \cap Router!Held(k)' = {}
    BY <1>4, <1>5 DEF RouterInv, HeldApart
  <2>3. \A j \in Invocation : Cardinality(Router!Held(j)') <= BatchSize
    BY <1>1, <1>4 DEF RouterInv, HeldApart
  <2>4. \A j \in Invocation : /\ handed'[j] \cap routed'[j] = {}
                              /\ handed'[j] \cap routerFailures'[j] = {}
                              /\ routed'[j] \cap routerFailures'[j] = {}
    BY <1>1, <1>3 DEF RouterInv, HeldApart
  <2>. QED BY <2>1, <2>2, <2>3, <2>4 DEF HeldApart
<1>7. \A m \in Message : Credit(m)' <=> Credit(m)
  BY <1>1 DEF Credit
<1>. QED BY <1>1, <1>2, <1>6, <1>7, SameCredit

\* One record: it changes lists, and nobody else's.
LEMMA RouteKept ==
    ASSUME RouterInv, NEW i \in Invocation, NEW m \in Message, Router!Route(i, m)
    PROVE  RouterInv'
<1>0. /\ handed \in [Invocation -> SUBSET Message] /\ routed \in [Invocation -> SUBSET Message]
      /\ routerFailures \in [Invocation -> SUBSET Message]
      /\ copies \in [Batch -> Nat] /\ Carries[m] \in Batch
  BY RouterConstants DEF RouterInv, RouterTyped, Router!RoutingAssumption
<1>1. /\ m \in handed[i] /\ handed' = [handed EXCEPT ![i] = handed[i] \ {m}]
      /\ UNCHANGED <<at, routerReceives>>
  BY <1>0 DEF Router!Route
<1>2. m \in Router!Held(i) /\ at[m] = "taken" /\ ~Credit(m)
  BY <1>1 DEF Router!Held, RouterInv, HeldApart, Credit
<1>3. ASSUME Router!Failed(i, m) \/ Router!Forwarded(i, m), copies' \in [Batch -> Nat],
             routerFaults' \in 0..MaxRouterFaults
      PROVE  RouterTyped' /\ HeldApart'
  <2>1. \/ /\ routerFailures' = [routerFailures EXCEPT ![i] = routerFailures[i] \cup {m}]
           /\ UNCHANGED routed
        \/ /\ routed' = [routed EXCEPT ![i] = routed[i] \cup {m}]
           /\ UNCHANGED routerFailures
    BY <1>0, <1>3 DEF Router!Failed, Router!Forwarded
  <2>2. RouterTyped'
    BY <1>0, <1>1, <1>3, <2>1 DEF RouterInv, RouterTyped
  <2>3. \A j \in Invocation : Router!Held(j)' = Router!Held(j)
    BY <1>0, <1>1, <2>1 DEF Router!Held
  <2>4. \A j \in Invocation : /\ handed'[j] \cap routed'[j] = {}
                              /\ handed'[j] \cap routerFailures'[j] = {}
                              /\ routed'[j] \cap routerFailures'[j] = {}
    BY <1>0, <1>1, <2>1 DEF RouterInv, HeldApart
  <2>5. HeldApart'
    BY <1>1, <2>3, <2>4 DEF RouterInv, HeldApart
  <2>. QED BY <2>2, <2>5
<1>4. CASE Router!Failed(i, m) /\ UNCHANGED <<copies, routerFaults>>
  <2>1. RouterTyped' /\ HeldApart'
    BY <1>3, <1>4 DEF RouterInv, RouterTyped
  <2>2. \A x \in Message : Credit(x)' <=> Credit(x)
    BY <1>1, <1>4 DEF Credit, Router!Failed
  <2>. QED BY <1>4, <2>1, <2>2, SameCredit
<1>5. CASE Router!Forwarded(i, m) /\ Router!Copied(m) /\ UNCHANGED routerFaults
  <2>1. RouterTyped' /\ HeldApart'
    BY <1>0, <1>3, <1>5 DEF RouterInv, RouterTyped, Router!Copied
  <2>2. \A x \in Message : Credit(x)' <=> Credit(x) \/ x = m
    BY <1>0, <1>1, <1>5 DEF Credit, Router!Forwarded
  <2>. QED BY <1>2, <1>5, <2>1, <2>2, ForwardCredits
<1>6. CASE Router!Failed(i, m) /\ Router!AFault /\ (Router!Copied(m) \/ UNCHANGED copies)
  <2>1. routerFaults' = routerFaults + 1 /\ routerFaults' \in 0..MaxRouterFaults
    BY <1>6, RouterConstants DEF Router!AFault, RouterInv, RouterTyped, Router!RoutingAssumption
  <2>2. copies' \in [Batch -> Nat]
    BY <1>0, <1>6 DEF Router!Copied
  <2>3. RouterTyped' /\ HeldApart'
    BY <1>3, <1>6, <2>1, <2>2
  <2>4. \A x \in Message : Credit(x)' <=> Credit(x)
    BY <1>1, <1>6 DEF Credit, Router!Failed
  <2>5. CASE Router!Copied(m)
    BY <2>1, <2>3, <2>4, <2>5, FaultPays
  <2>6. CASE UNCHANGED copies
    BY <2>1, <2>3, <2>4, <2>6, SameCredit
  <2>. QED BY <1>6, <2>5, <2>6
<1>. QED BY <1>4, <1>5, <1>6 DEF Router!Route

\* An invocation lets go of what it was handed: its lists are empty.
LEMMA ReleasedApart ==
    ASSUME RouterInv, NEW i \in Invocation, Router!Released(i),
           routerFaults' \in 0..MaxRouterFaults, UNCHANGED <<copies, routerReceives>>,
           at' \in [Message -> {"outbox", "visible", "taken", "deleted", "dead"}],
           \A m \in Message \ Router!Held(i) : at'[m] = at[m]
    PROVE  /\ RouterTyped' /\ HeldApart'
           /\ routed'[i] = {} /\ \A j \in Invocation \ {i} : routed'[j] = routed[j]
<1>1. /\ handed' = [handed EXCEPT ![i] = {}]
      /\ routerFailures' = [routerFailures EXCEPT ![i] = {}]
      /\ routed' = [routed EXCEPT ![i] = {}]
  BY DEF Router!Released
<1>2. RouterTyped'
  BY <1>1 DEF RouterInv, RouterTyped
<1>3. /\ handed'[i] = {} /\ routerFailures'[i] = {} /\ routed'[i] = {}
      /\ \A j \in Invocation \ {i} : /\ handed'[j] = handed[j] /\ routed'[j] = routed[j]
                                     /\ routerFailures'[j] = routerFailures[j]
  BY <1>1 DEF RouterInv, RouterTyped
<1>4. /\ Router!Held(i)' = {}
      /\ \A j \in Invocation \ {i} : Router!Held(j)' = Router!Held(j)
  BY <1>3 DEF Router!Held
<1>5. HeldApart'
  <2>1. \A j \in Invocation : \A m \in Router!Held(j)' : at'[m] = "taken"
    <3>1. SUFFICES ASSUME NEW j \in Invocation \ {i}, NEW m \in Router!Held(j)
                   PROVE  at'[m] = "taken"
      BY <1>4
    <3>2. m \in Message \ Router!Held(i) /\ at[m] = "taken"
      BY DEF RouterInv, RouterTyped, HeldApart, Router!Held
    <3>. QED BY <3>2
  <2>2. \A j, k \in Invocation : j # k => Router!Held(j)' \cap Router!Held(k)' = {}
    BY <1>4 DEF RouterInv, HeldApart
  <2>3. Cardinality({}) <= BatchSize
    BY RouterConstants, FS_EmptySet DEF Router!RoutingAssumption
  <2>4. \A j \in Invocation : Cardinality(Router!Held(j)') <= BatchSize
    BY <1>4, <2>3 DEF RouterInv, HeldApart
  <2>5. \A j \in Invocation : /\ handed'[j] \cap routed'[j] = {}
                              /\ handed'[j] \cap routerFailures'[j] = {}
                              /\ routed'[j] \cap routerFailures'[j] = {}
    BY <1>3 DEF RouterInv, HeldApart
  <2>. QED BY <2>1, <2>2, <2>4, <2>5 DEF HeldApart
<1>. QED BY <1>2, <1>3, <1>5

LEMMA ReturnKept ==
    ASSUME RouterInv, NEW i \in Invocation, Router!Return(i)
    PROVE  RouterInv'
<1>1. /\ handed[i] = {}
      /\ at' = [m \in Message |-> IF m \in routerFailures[i] THEN "visible"
                                  ELSE IF m \in Router!Held(i) THEN "deleted" ELSE at[m]]
      /\ Router!Released(i) /\ UNCHANGED <<routerReceives, copies, routerFaults>>
  BY DEF Router!Return, Router!LookedAt, Router!Returned
<1>2. Router!Held(i) = routerFailures[i] \cup routed[i] /\ routerFailures[i] \cap routed[i] = {}
      /\ Router!Held(i) \subseteq Message
  BY <1>1 DEF Router!Held, RouterInv, HeldApart, RouterTyped
<1>3. at' \in [Message -> {"outbox", "visible", "taken", "deleted", "dead"}]
  BY <1>1 DEF RouterInv, RouterTyped
<1>4. \A m \in Message \ Router!Held(i) : at'[m] = at[m]
  BY <1>1, <1>2
<1>5. /\ RouterTyped' /\ HeldApart'
      /\ routed'[i] = {} /\ \A j \in Invocation \ {i} : routed'[j] = routed[j]
  BY <1>1, <1>3, <1>4, ReleasedApart DEF RouterInv, RouterTyped
<1>6. ASSUME NEW m \in Message
      PROVE  Credit(m)' <=> Credit(m)
  <2>1. CASE m \in routed[i]
    BY <1>1, <1>2, <2>1 DEF Credit
  <2>2. CASE m \in routerFailures[i]
    <3>1. at[m] = "taken" /\ \A j \in Invocation : m \notin routed[j]
      BY <1>2, <2>2 DEF RouterInv, HeldApart, Router!Held
    <3>. QED BY <1>1, <1>5, <2>2, <3>1 DEF Credit
  <2>3. CASE m \notin Router!Held(i)
    BY <1>2, <1>4, <1>5, <2>3 DEF Credit
  <2>. QED BY <1>2, <2>1, <2>2, <2>3
<1>. QED BY <1>1, <1>5, <1>6, SameCredit

LEMMA DieKept ==
    ASSUME RouterInv, NEW i \in Invocation, Router!Die(i)
    PROVE  RouterInv'
<1>1. /\ at' = [m \in Message |-> IF m \in Router!Held(i) THEN "visible" ELSE at[m]]
      /\ Router!Released(i) /\ UNCHANGED <<routerReceives, copies>>
      /\ routerFaults' = routerFaults + 1 /\ routerFaults < MaxRouterFaults
  BY DEF Router!Die, Router!Move, Router!AFault
<1>2. routerFaults' \in 0..MaxRouterFaults
  BY <1>1, RouterConstants DEF RouterInv, RouterTyped, Router!RoutingAssumption
<1>3. at' \in [Message -> {"outbox", "visible", "taken", "deleted", "dead"}]
  BY <1>1 DEF RouterInv, RouterTyped
<1>4. /\ RouterTyped' /\ HeldApart'
      /\ routed'[i] = {} /\ \A j \in Invocation \ {i} : routed'[j] = routed[j]
  BY <1>1, <1>2, <1>3, ReleasedApart
<1>5. ASSUME NEW m \in Message
      PROVE  /\ Credit(m)' => Credit(m)
             /\ Credit(m) => Credit(m)' \/ m \in Router!Held(i)
  BY <1>1, <1>4 DEF Credit, Router!Held
<1>. QED BY <1>1, <1>4, <1>5, DeathPays

LEMMA RouterKept == RouterInv /\ [Router!Next]_(Router!vars) => RouterInv'
<1> SUFFICES ASSUME RouterInv, [Router!Next]_(Router!vars) PROVE RouterInv'
  OBVIOUS
<1>1. ASSUME NEW m \in Message, Router!Publish(m) \/ Router!SetAside(m) \/ Router!Redrive(m)
      PROVE  RouterInv'
  <2>1. /\ Router!Move({m}, "visible") \/ Router!Move({m}, "dead")
        /\ at[m] \in {"outbox", "visible", "dead"}
        /\ UNCHANGED <<copies, handed, routerFailures, routed, routerFaults>>
    BY <1>1 DEF Router!Publish, Router!SetAside, Router!Redrive, Router!lambda
  <2>2. routerReceives' \in [Message -> 0..MaxDeliveries]
    BY <1>1, RouterConstants DEF Router!Publish, Router!SetAside, Router!Redrive, RouterInv,
       RouterTyped, Router!RoutingAssumption
  <2>. QED BY <2>1, <2>2, MoveKept
<1>2. ASSUME NEW m \in Message, Router!Receive(m)
      PROVE  RouterInv'
  BY <1>2, InvokeKept DEF Router!Receive
<1>3. ASSUME NEW i \in Invocation, Router!Step(i) \/ Router!Die(i)
      PROVE  RouterInv'
  BY <1>3, RouteKept, ReturnKept, DieKept DEF Router!Step
<1>4. CASE UNCHANGED Router!vars
  <2>1. UNCHANGED <<at, routerReceives, copies, handed, routerFailures, routed, routerFaults>>
    BY <1>4 DEF Router!vars, Router!lambda
  <2>. QED BY <2>1 DEF RouterInv, RouterTyped, HeldApart, Router!Held, CreditHasCopy,
                       CopiesCredited, Credited, Credit
<1>. QED BY <1>1, <1>2, <1>3, <1>4 DEF Router!Next

-----------------------------------------------------------------------------
(* The way of an email. *)

PathInv == RouterInv /\ WalkInv /\ TruthInv

\* The stage that moves keeps its invariant, and the others stand still.
LEMMA PathInvariant == PathSpec => []PathInv
<1>1. PathInit => PathInv
  BY RouterStarts, WalkStarts, TruthStarts DEF PathInit, PathInv
<1>2. PathInv /\ [PathNext]_all => PathInv'
  <2>1. SUFFICES ASSUME PathInv, [PathNext]_all PROVE PathInv'
    OBVIOUS
  <2>2. [Router!Next]_(Router!vars)
    BY <2>1 DEF PathNext, Others, all, router, Router!vars, Router!lambda
  <2>3. [Walk!Next]_(Walk!vars)
    BY <2>1 DEF PathNext, Others, all, pages, Walk!vars, Walk!message, Walk!policy,
       Walk!outcome, Walk!poller
  <2>4. [Truth!Next]_(Truth!vars)
    BY <2>1 DEF PathNext, Others, all, truth, Truth!vars
  <2>. QED BY <2>1, <2>2, <2>3, <2>4, RouterKept, WalkKept, TruthKept DEF PathInv
<1>. QED BY <1>1, <1>2, PTL DEF PathSpec

\* Wherever invocations of the router fail or die, a message leaves the delivery
\* queue only when its batch is in a channel's queue, and every further copy is
\* paid for by a message of the dispatcher's or by a fault.
THEOREM CopiesExplained == PathSpec => []CopiesAccounted
<1>1. RouterInv => Router!TypeOK
  <2> SUFFICES ASSUME RouterInv PROVE Router!TypeOK
    OBVIOUS
  <2>1. \A i \in Invocation : Router!Held(i) \subseteq Message
    BY DEF RouterInv, RouterTyped, Router!Held
  <2>. QED BY <2>1 DEF RouterInv, RouterTyped, HeldApart, Router!TypeOK
<1>2. RouterInv => Router!NothingVanishes
  BY DEF RouterInv, CreditHasCopy, Credit, Router!NothingVanishes
<1>3. RouterInv => Router!CopiesAccounted
  <2> SUFFICES ASSUME RouterInv, NEW b \in Batch
               PROVE  copies[b] <=
                         Router!Cardinality({m \in Message : Carries[m] = b /\ at[m] # "outbox"})
                         + BatchSize * routerFaults
    BY DEF Router!CopiesAccounted
  <2>. DEFINE left == {m \in Message : Carries[m] = b /\ at[m] # "outbox"}
  <2>1. Credited(b) \subseteq left
    BY DEF Credited, Credit, RouterInv, HeldApart, Router!Held
  <2>2. IsFiniteSet(left)
    <3>1. IsFiniteSet(Message)
      BY RouterConstants, SameCount DEF Router!RoutingAssumption
    <3>. QED BY <3>1, FS_Subset
  <2>3. /\ Cardinality(Credited(b)) <= Cardinality(left)
        /\ Cardinality(Credited(b)) \in Nat /\ Cardinality(left) \in Nat
    BY <2>1, <2>2, FS_Subset, FS_CardinalityType, CreditedFinite
  <2>4. copies[b] <= Cardinality(Credited(b)) + BatchSize * routerFaults /\ copies[b] \in Nat
    BY DEF RouterInv, CopiesCredited, RouterTyped
  <2>5. BatchSize * routerFaults \in Nat
    <3>1. BatchSize \in Nat /\ routerFaults \in Nat
      BY RouterConstants DEF RouterInv, RouterTyped, Router!RoutingAssumption
    <3>. QED BY <3>1
  <2>6. Router!Cardinality(left) = Cardinality(left)
    BY SameCount, Zenon
  <2>. HIDE DEF left
  <2>7. copies[b] <= Cardinality(left) + BatchSize * routerFaults
    BY <2>3, <2>4, <2>5
  <2>. QED BY <2>6, <2>7 DEF left
<1>4. PathInv => CopiesAccounted
  BY <1>1, <1>2, <1>3 DEF PathInv, CopiesAccounted
<1>. QED BY <1>4, PathInvariant, PTL

\* The batch message goes only when every candidate was emailed, scheduled with
\* the reference published, or deliberately left out, whatever poll loops share
\* it, addresses change, and calls fail.
THEOREM NobodyLeftOut == PathSpec => []NobodyForgotten
<1>1. PathInv => NobodyForgotten
  <2> SUFFICES ASSUME WalkInv PROVE NobodyForgotten
    BY DEF PathInv
  <2>1. Walk!NobodyForgotten
    BY DEF WalkInv, AllSettled, Settled, Walk!NobodyForgotten
  <2>2. Walk!RetriesPublished
    BY DEF WalkInv, AllSettled, Settled, Walk!RetriesPublished
  <2>. QED BY <2>1, <2>2 DEF WalkInv, NobodyForgotten
<1>. QED BY <1>1, PathInvariant, PTL

\* Whoever writes, in whatever order and however often, the evidence is a chain
\* of allowed transitions without repetition, and a doubt that follows
\* acceptance names the message it is about.
THEOREM ChainsLegal == PathSpec => []LegalChain
<1>1. PathInv => LegalChain
  BY DEF PathInv, TruthInv, LegalChain
<1>. QED BY <1>1, PathInvariant, PTL

\* What the evidence concluded stays concluded, but for the delivery of a message
\* that had expired.
THEOREM LastWordStands == PathSpec => TerminalIsFinal
<1>1. PathInv /\ [PathNext]_all =>
         [chain # <<>> /\ Truth!Latest(chain).state \in Truth!Terminal /\ chain' # chain =>
             /\ Truth!Latest(chain).state = "expired"
             /\ Truth!Latest(chain').state = "delivered"
             /\ Truth!SameLineage(Truth!Latest(chain), Truth!Latest(chain'))]_(Truth!vars)
  <2> SUFFICES ASSUME PathInv, [PathNext]_all, chain' # chain, chain # <<>>,
                      Truth!Latest(chain).state \in Truth!Terminal
               PROVE  /\ Truth!Latest(chain).state = "expired"
                      /\ Truth!Latest(chain').state = "delivered"
                      /\ Truth!SameLineage(Truth!Latest(chain), Truth!Latest(chain'))
    OBVIOUS
  <2>1. Truth!Next
    BY DEF PathNext, Others, all, truth
  <2>. QED BY <2>1, LastWord DEF PathInv
<1>. QED BY <1>1, PathInvariant, PTL DEF PathSpec, TerminalIsFinal, Truth!TerminalIsFinal
=============================================================================
