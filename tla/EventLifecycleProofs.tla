------------------------ MODULE EventLifecycleProofs ------------------------
(***************************************************************************)
(* Theorems about EventLifecycle, for any numbers of events, commands and  *)
(* requests, any kinds of commands, staff or synthetic, and any bound on   *)
(* the previews.                                                           *)
(***************************************************************************)
EXTENDS Integers, EventLifecycle, FiniteSetTheorems, WellFoundedInduction, TLAPS

Previewed == {"start", "all-clear", "reactivate"}

\* A request carries a command whose input is fixed.
Carrying ==
    /\ \A q \in Request : pc[q] # "new" => cmd[q] \in Command /\ input[cmd[q]] # None
    /\ \A q \in Request : pc[q] = "row" => Kind[cmd[q]] # "start"
    /\ answer = [q \in Request |-> answer[q]]
    /\ \A q \in Request : pc[q] # "done" => answer[q].kind = "none"

\* What a client may put into a command: a preview on record that was made for
\* it, or an event it has seen.
InputsSound ==
    \A c \in Command : input[c] # None =>
        /\ Kind[c] \in Previewed =>
              /\ input[c].preview \in preview
              /\ input[c].preview.purpose = Purpose(Kind[c])
              /\ input[c].event = input[c].preview.event
        /\ Kind[c] \notin Previewed => input[c].event \in InService

\* Previews name a state the event has been in and the audience it was given.
Lifecycle(p) == p.purpose \in {"all-clear", "reactivation"}
PreviewsSound ==
    \A p \in preview :
        /\ p.at =< clock /\ p.purpose # "none"
        /\ p.purpose = "activation" => p.event = None
        /\ Lifecycle(p) => /\ p.event \in InService
                           /\ p.partners = row[p.event].preview.partners
                           /\ p.epoch =< Epoch(p.event)


Typed == TypeOK /\ Carrying /\ InputsSound /\ PreviewsSound

\* Locks are held by who works under them, and what was read under a lock
\* still holds.
UnderLocks ==
    \A q \in Request :
        LET k == Kind[cmd[q]]  e == input[cmd[q]].event IN
        /\ pc[q] \in {"row", "facility", "locked"} =>
              claim[cmd[q]] = q /\ idem[cmd[q]] = None
        /\ pc[q] \in {"facility", "locked"} /\ k # "start" =>
              rowLock[e] = q /\ read[q].row = row[e]
        /\ pc[q] = "locked" /\ k # "post" =>
              facLock = q /\ read[q].active = ActiveEvents

\* Server time is later than the preview the client had seen.
StampsLater ==
    \A q \in Request :
        pc[q] \in {"claim", "row", "facility", "locked"} /\ Kind[cmd[q]] \in Previewed =>
            stamp[q] > input[cmd[q]].preview.at

\* The row is where the journal leaves it.
JournalTells ==
    /\ \A e \in Event :
          /\ (row[e].status = "none") <=> (Len(journal[e]) = 0)
          /\ Len(journal[e]) > 0 => /\ journal[e][1].kind = "start"
                                    /\ EventAsOf(e, Len(journal[e])) = row[e].status
          /\ \A i \in 1..Len(journal[e]) :
                journal[e][i].cmd # None => input[journal[e][i].cmd] # None
    /\ \A c \in Command : idem[c] # None =>
          idem[c].upto \in 1..Len(journal[idem[c].event])

\* A preview of an earlier state is older than one of a later state and older
\* than the event's entry into the state it is in.
From(purpose) == IF purpose = "all-clear" THEN "active" ELSE "all-clear"
PreviewsInOrder ==
    \A p \in preview : Lifecycle(p) =>
        /\ \A o \in preview :
              Lifecycle(o) /\ o.event = p.event /\ o.epoch < p.epoch => o.at < p.at
        /\ p.epoch = Epoch(p.event) => row[p.event].status = From(p.purpose)
        /\ row[p.event].status = From(p.purpose)
              /\ p.at >= StateChangedAt(row[p.event], p.purpose)
           => p.epoch = Epoch(p.event)

\* The messages of an event are those its activation preview pinned.
OutboxAsPinned ==
    \A m \in outbox :
        /\ m.event \in InService
        /\ m.population = "partner" => row[m.event].preview.partners
        /\ m.population = "roster" /\ row[m.event].preview.partners =>
              [m EXCEPT !.population = "partner"] \in outbox

Shown == \A e \in Event : row[e].status # "none" => among[e] = row[e].preview.seen
-----------------------------------------------------------------------------
(* The operators. *)

LEMMA Arrows ==
    /\ Transitions = {"all-clear", "reactivate", "close"}
    /\ StateMachine["all-clear"] = [from |-> "active", to |-> "all-clear"]
    /\ StateMachine["reactivate"] = [from |-> "all-clear", to |-> "active"]
    /\ StateMachine["close"] = [from |-> "all-clear", to |-> "closed"]
BY DEF Transitions, StateMachine

LEMMA PurposeNames ==
    /\ Purpose("start") = "activation"
    /\ Purpose("all-clear") = "all-clear"
    /\ Purpose("reactivate") = "reactivation"
    /\ \A k \in Kinds : Purpose(k) \in {"none", "activation", "all-clear", "reactivation"}
BY DEF Purpose, Kinds

\* The records the model builds.
LEMMA EmptyRecords ==
    /\ NoPreview \in PreviewRecord /\ NoRow \in RowRecord /\ NoRead \in ReadRecord
    /\ NoRow.status = "none" /\ Unissued \in Confirmation
<1>1. NoPreview \in PreviewRecord
  BY DEF NoPreview, PreviewRecord
<1>2. NoRow \in RowRecord /\ NoRow.status = "none"
  BY <1>1 DEF NoRow, RowRecord, RowStatuses
<1>3. Unissued \in Confirmation
  BY DEF Unissued, Confirmation
<1>. QED BY <1>1, <1>2, <1>3 DEF NoRead, ReadRecord

LEMMA MovedType ==
    ASSUME NEW r \in RowRecord, NEW k \in Transitions, NEW at \in Nat
    PROVE  /\ Moved(r, k, at) \in RowRecord
           /\ Moved(r, k, at).status = StateMachine[k].to
           /\ Moved(r, k, at).preview = r.preview
           /\ Moved(r, k, at).activatedAt = r.activatedAt
           /\ Moved(r, k, at).allClearAt = IF k = "all-clear" THEN at ELSE r.allClearAt
           /\ Moved(r, k, at).reactivatedAt =
                  IF k = "reactivate" THEN at ELSE r.reactivatedAt
<1>1. StateMachine[k].to \in RowStatuses
  BY Arrows DEF RowStatuses
<1>. QED BY <1>1 DEF Moved, RowRecord

\* One entry more at the end of a journal.
LEMMA JournalGrows ==
    ASSUME TypeOK, NEW e \in Event, NEW x,
           journal' = [journal EXCEPT ![e] = Append(@, x)]
    PROVE  /\ Len(journal[e]) \in Nat
           /\ Len(journal'[e]) = Len(journal[e]) + 1
           /\ journal'[e][Len(journal[e]) + 1] = x
           /\ \A i \in 1..Len(journal[e]) : journal'[e][i] = journal[e][i]
           /\ \A d \in Event : d # e => journal'[d] = journal[d]
<1>. DEFINE S == [kind : Kinds, cmd : Command \cup {None}]
<1>1. journal \in [Event -> Seq(S)]
  BY DEF TypeOK
<1>2. journal'[e] = Append(journal[e], x) /\ journal[e] \in Seq(S)
  BY <1>1
<1>3. \A d \in Event : d # e => journal'[d] = journal[d]
  BY <1>1
<1>. HIDE DEF S
<1>. QED BY <1>2, <1>3

LEMMA MovesFinite ==
    ASSUME NEW e, NEW n \in Nat
    PROVE  IsFiniteSet(Moves(e, n)) /\ Cardinality(Moves(e, n)) \in Nat
<1>1. IsFiniteSet(1..n)
  BY FS_Interval
<1>. QED BY <1>1, FS_Subset, FS_CardinalityType DEF Moves

\* A set of entries has a last one.
LEMMA LastEntry ==
    ASSUME NEW n \in Nat, NEW T, T \subseteq 1..n, T # {}
    PROVE  \E i \in T : \A j \in T : j =< i
<1>. DEFINE R == OpToRel(<, Nat)
            U == {n - i : i \in T}
<1>1. U \subseteq Nat /\ U # {}
  <2>1. \A i \in T : i \in Int /\ 1 =< i /\ i =< n
    OBVIOUS
  <2>2. \A i \in T : n - i \in Nat
    BY <2>1
  <2>. QED BY <2>2
<1>2. PICK m \in U : \A y \in U : <<y, m>> \notin R
  <2>. HIDE DEF U, R
  <2>1. IsWellFoundedOn(R, Nat)
    BY NatLessThanWellFounded DEF R
  <2>. QED BY <1>1, <2>1, WFMin
<1>3. \A y \in U : ~(y < m)
  BY <1>1, <1>2 DEF OpToRel
<1>4. PICK i \in T : m = n - i
  OBVIOUS
<1>5. ASSUME NEW j \in T PROVE j =< i
  <2>1. n - j \in U
    OBVIOUS
  <2>2. ~(n - j < n - i)
    BY <2>1, <1>3, <1>4
  <2>3. i \in 1..n /\ j \in 1..n
    OBVIOUS
  <2>. HIDE DEF U
  <2>. QED BY <2>2, <2>3
<1>. QED BY <1>5

\* What the first entries say does not change when others follow.
LEMMA PastStands ==
    ASSUME NEW e, NEW n \in Nat, \A i \in 1..n : journal'[e][i] = journal[e][i]
    PROVE  /\ Moves(e, n)' = Moves(e, n)
           /\ 1 \in Moves(e, n) => EventAsOf(e, n)' = EventAsOf(e, n)
<1>1. Moves(e, n)' = Moves(e, n)
  BY DEF Moves
<1>2. ASSUME 1 \in Moves(e, n) PROVE EventAsOf(e, n)' = EventAsOf(e, n)
  <2>1. PICK m : m = LastOf(Moves(e, n))
    OBVIOUS
  <2>2. Moves(e, n) \subseteq 1..n /\ Moves(e, n) # {}
    BY <1>2 DEF Moves
  <2>3. m \in 1..n
    BY <2>1, <2>2, LastEntry DEF LastOf
  <2>4. journal'[e][m] = journal[e][m] /\ LastOf(Moves(e, n)') = m
    BY <1>1, <2>1, <2>3
  <2>. QED BY <2>1, <2>4 DEF EventAsOf
<1>. QED BY <1>1, <1>2
-----------------------------------------------------------------------------
(* Types. *)

\* What a request works on is typed.
LEMMA AskedTypes ==
    ASSUME Typed, NEW q \in Request, pc[q] # "new"
    PROVE  /\ cmd[q] \in Command /\ AskedKind(q) \in Kinds
           /\ input[cmd[q]] \in InputRecord
           /\ AskedPreview(q) \in PreviewRecord
           /\ AskedKind(q) # "start" => AskedEvent(q) \in InService
           /\ AskedKind(q) \in Previewed =>
                 /\ AskedPreview(q) \in preview
                 /\ AskedPreview(q).purpose = Purpose(AskedKind(q))
                 /\ AskedEvent(q) = AskedPreview(q).event
<1>. DEFINE i == input[cmd[q]]
<1>1. cmd[q] \in Command /\ AskedKind(q) \in Kinds /\ i \in InputRecord
  BY LifecycleAssumption DEF Typed, TypeOK, Carrying, AskedKind
<1>2. i.preview \in PreviewRecord
  BY <1>1 DEF InputRecord
<1>3. AskedKind(q) \in Previewed =>
        /\ i.preview \in preview /\ i.preview.purpose = Purpose(AskedKind(q))
        /\ i.event = i.preview.event
  BY <1>1, NoneAssumption DEF Typed, InputsSound, AskedKind
<1>4. ASSUME AskedKind(q) # "start" PROVE i.event \in InService
  <2>1. CASE AskedKind(q) \in Previewed
    <3>1. Lifecycle(i.preview)
      BY <1>3, <1>4, <2>1, PurposeNames DEF Lifecycle, Previewed
    <3>. QED BY <1>3, <2>1, <3>1 DEF Typed, PreviewsSound
  <2>2. CASE AskedKind(q) \notin Previewed
    BY <1>1, <2>2, NoneAssumption DEF Typed, InputsSound, AskedKind
  <2>. QED BY <2>1, <2>2
<1>. QED BY <1>1, <1>2, <1>3, <1>4 DEF AskedPreview, AskedEvent

LEMMA InitTyped == Init => Typed
<1>. SUFFICES ASSUME Init PROVE Typed
  OBVIOUS
<1>1. PICK b \in BOOLEAN :
        /\ row = [e \in Event |->
               IF e \in Opening
               THEN [NoRow EXCEPT !.status = "active", !.activatedAt = 1,
                                  !.preview = OpeningPreview(b)]
               ELSE NoRow]
        /\ outbox = [event : Opening, purpose : {"activation"}, at : {1},
                      population : {"roster"} \cup {p \in {"partner"} : b}]
  BY DEF Init
<1>2. OpeningPreview(b) \in PreviewRecord
  BY DEF OpeningPreview, NoPreview, PreviewRecord
<1>3. [NoRow EXCEPT !.status = "active", !.activatedAt = 1,
                    !.preview = OpeningPreview(b)] \in RowRecord
  BY <1>2 DEF NoRow, RowRecord, RowStatuses
<1>4. row \in [Event -> RowRecord]
  BY <1>1, <1>3, EmptyRecords
<1>5. journal \in [Event -> Seq([kind : Kinds, cmd : Command \cup {None}])]
  <2>. DEFINE S == [kind : Kinds, cmd : Command \cup {None}]
              x == [kind |-> "start", cmd |-> None]
  <2>1. x \in S
    BY DEF Kinds
  <2>2. <<x>> \in Seq(S) /\ <<>> \in Seq(S)
    <3>. HIDE DEF S, x
    <3>. QED BY <2>1
  <2>3. journal = [e \in Event |-> IF e \in Opening THEN <<x>> ELSE <<>>]
    BY DEF Init
  <2>. HIDE DEF S, x
  <2>4. journal \in [Event -> Seq(S)]
    BY <2>2, <2>3
  <2>. QED BY <2>4 DEF S
<1>6. outbox \subseteq [event : Event, population : {"roster", "partner"},
                        purpose : {"activation", "all-clear", "reactivation"},
                        at : 0..clock]
  BY <1>1, LifecycleAssumption DEF Init
<1>7. preview = {} /\ IsFiniteSet(preview) /\ Cardinality(preview) =< MaxPreviews
  BY FS_EmptySet, LifecycleAssumption DEF Init
<1>8. /\ confirmed \in [Command \cup Request -> Confirmation]
      /\ read \in [Request -> ReadRecord]
  BY EmptyRecords DEF Init
<1>9. \A q \in Request : answer[q].kind = "none"
  BY DEF Init, Untold, Told
<1>10. TypeOK
  <2>1. /\ clock = 1 /\ claim = [c \in Command |-> None]
        /\ input = [c \in Command |-> None] /\ idem = [c \in Command |-> None]
        /\ rowLock = [e \in Event |-> None] /\ facLock = None
        /\ pc = [q \in Request |-> "new"] /\ cmd = [q \in Request |-> None]
        /\ stamp = [q \in Request |-> 0] /\ among = [e \in Event |-> {}]
    BY DEF Init
  <2>2. clock \in Nat /\ stamp \in [Request -> 0..clock]
    BY <2>1
  <2>3. among \in [Event -> SUBSET Event]
    BY <2>1
  <2>. QED BY <2>1, <2>2, <2>3, <1>4, <1>5, <1>6, <1>7, <1>8, <1>9 DEF TypeOK
<1>. QED
  BY <1>7, <1>9, <1>10 DEF Init, Typed, Carrying, InputsSound, PreviewsSound

\* Time goes on: what was in the past stays there.
LEMMA TimeGoesOn ==
    ASSUME TypeOK, clock' \in {clock, clock + 1}
    PROVE  /\ clock' \in Nat /\ 0..clock \subseteq 0..clock'
           /\ UNCHANGED outbox =>
                outbox' \subseteq [event : Event, population : {"roster", "partner"},
                                  purpose : {"activation", "all-clear", "reactivation"},
                                  at : 0..clock']
           /\ UNCHANGED stamp => stamp' \in [Request -> 0..clock']
<1>1. clock \in Nat
  BY DEF TypeOK
<1>2. clock' \in Nat /\ 0..clock \subseteq 0..clock'
  BY <1>1
<1>3. stamp \in [Request -> 0..clock]
  BY DEF TypeOK
<1>4. stamp \in [Request -> 0..clock']
  BY <1>2, <1>3
<1>5. outbox \subseteq [event : Event, population : {"roster", "partner"},
                        purpose : {"activation", "all-clear", "reactivation"},
                        at : 0..clock']
  BY <1>2 DEF TypeOK
<1>. QED BY <1>2, <1>4, <1>5

\* A step that leaves rows, journals, previews and inputs alone.
LEMMA QuietSound ==
    ASSUME TypeOK, InputsSound, PreviewsSound,
           clock' \in {clock, clock + 1}, UNCHANGED <<row, journal, preview, input>>
    PROVE  InputsSound' /\ PreviewsSound'
<1>1. \A p \in preview : p.at =< clock => p.at =< clock'
  BY DEF TypeOK, PreviewRecord
<1>2. \A e : Epoch(e)' = Epoch(e)
  BY DEF Epoch, Moves
<1>3. InService' = InService
  BY DEF InService
<1>. QED BY <1>1, <1>2, <1>3 DEF InputsSound, PreviewsSound

\* The previews the two handlers make.
ActivationPreview(s, b, t) ==
    [NoPreview EXCEPT !.purpose = "activation", !.at = t, !.seen = s, !.partners = b]
LifecyclePreview(purpose, e, b, t, n) ==
    [NoPreview EXCEPT !.purpose = purpose, !.event = e,
                      !.partners = b, !.at = t, !.epoch = n]

LEMMA PreviewTypes ==
    /\ \A s \in SUBSET Event, b \in BOOLEAN, t \in Nat :
          LET p == ActivationPreview(s, b, t) IN
          /\ p \in PreviewRecord
          /\ p.purpose = "activation" /\ p.event = None /\ p.at = t
    /\ \A purpose \in {"all-clear", "reactivation"}, e \in Event, b \in BOOLEAN,
           t \in Nat, n \in Nat :
          LET p == LifecyclePreview(purpose, e, b, t, n) IN
          /\ p \in PreviewRecord
          /\ p.purpose = purpose /\ p.event = e /\ p.at = t
          /\ p.partners = b /\ p.epoch = n
<1>1. ASSUME NEW s \in SUBSET Event, NEW b \in BOOLEAN, NEW t \in Nat
      PROVE  LET p == ActivationPreview(s, b, t) IN
             /\ p \in PreviewRecord
             /\ p.purpose = "activation" /\ p.event = None /\ p.at = t
  BY DEF ActivationPreview, NoPreview, PreviewRecord
<1>2. ASSUME NEW purpose \in {"all-clear", "reactivation"}, NEW e \in Event,
             NEW b \in BOOLEAN, NEW t \in Nat, NEW n \in Nat
      PROVE  LET p == LifecyclePreview(purpose, e, b, t, n) IN
             /\ p \in PreviewRecord
             /\ p.purpose = purpose /\ p.event = e /\ p.at = t
             /\ p.partners = b /\ p.epoch = n
  BY DEF LifecyclePreview, NoPreview, PreviewRecord
<1>. QED BY <1>1, <1>2

LEMMA OneMorePreview ==
    ASSUME TypeOK, RoomForPreview, NEW p \in PreviewRecord,
           preview' = preview \cup {p}
    PROVE  /\ preview' \subseteq PreviewRecord /\ IsFiniteSet(preview')
           /\ Cardinality(preview') =< MaxPreviews
<1>1. /\ IsFiniteSet(preview) /\ Cardinality(preview) < MaxPreviews
      /\ preview \subseteq PreviewRecord
  BY DEF TypeOK, RoomForPreview
<1>2. /\ IsFiniteSet(preview') /\ Cardinality(preview) \in Nat
      /\ Cardinality(preview') = IF p \in preview THEN Cardinality(preview)
                                 ELSE Cardinality(preview) + 1
  BY <1>1, FS_AddElement, FS_CardinalityType
<1>. QED BY <1>1, <1>2, LifecycleAssumption

LEMMA PreviewActivationTyped == ASSUME Typed, PreviewActivation PROVE Typed'
<1>1. PICK b \in BOOLEAN :
        preview' = preview \cup {ActivationPreview(ActiveEvents, b, clock + 1)}
  BY DEF PreviewActivation, ActivationPreview
<1>. DEFINE p == ActivationPreview(ActiveEvents, b, clock + 1)
<1>2. /\ p \in PreviewRecord /\ p.purpose = "activation"
      /\ p.event = None /\ p.at = clock + 1
  <2>1. ActiveEvents \in SUBSET Event /\ clock + 1 \in Nat
    BY DEF ActiveEvents, Typed, TypeOK
  <2>. QED BY <2>1, PreviewTypes
<1>4. preview' = preview \cup {p} /\ clock' = clock + 1
  BY <1>1 DEF PreviewActivation, Tick
<1>5. UNCHANGED <<row, journal, outbox, idem, among, confirmed, input, claim,
                  rowLock, facLock, pc, cmd, stamp, read, answer>>
  BY DEF PreviewActivation, records, locks, request
<1>. HIDE DEF p
<1>6. /\ preview' \subseteq PreviewRecord /\ IsFiniteSet(preview')
      /\ Cardinality(preview') =< MaxPreviews
  BY <1>2, <1>4, OneMorePreview DEF PreviewActivation, Typed
<1>7. TypeOK'
  BY <1>4, <1>5, <1>6, TimeGoesOn DEF Typed, TypeOK
<1>8. Carrying'
  BY <1>5 DEF Typed, Carrying
<1>9. InputsSound'
  BY <1>4, <1>5 DEF Typed, InputsSound, InService
<1>10. PreviewsSound'
  <2>1. ASSUME NEW o \in preview'
        PROVE  /\ o.at =< clock' /\ o.purpose # "none"
               /\ o.purpose = "activation" => o.event = None
               /\ Lifecycle(o) => /\ o.event \in InService'
                                  /\ o.partners = row'[o.event].preview.partners
                                  /\ o.epoch =< Epoch(o.event)'
    <3>1. CASE o = p
      BY <3>1, <1>2, <1>4 DEF Lifecycle, Typed, TypeOK
    <3>2. CASE o \in preview
      BY <3>2, <1>4, <1>5
         DEF Typed, TypeOK, PreviewsSound, PreviewRecord, InService, Epoch, Moves
    <3>. QED BY <3>1, <3>2, <1>4
  <2>. QED BY <2>1 DEF PreviewsSound
<1>. QED BY <1>7, <1>8, <1>9, <1>10 DEF Typed

LEMMA PreviewLifecycleTyped ==
    ASSUME Typed, NEW e \in Event, PreviewLifecycle(e) PROVE Typed'
<1>1. PICK purpose \in {"all-clear", "reactivation"}, b \in PartnersReached(e) :
        /\ row[e].status = IF purpose = "all-clear" THEN "active" ELSE "all-clear"
        /\ preview' = preview \cup {LifecyclePreview(purpose, e, b, clock + 1, Epoch(e))}
  BY DEF PreviewLifecycle, LifecyclePreview
<1>. DEFINE p == LifecyclePreview(purpose, e, b, clock + 1, Epoch(e))
<1>2. /\ p \in PreviewRecord /\ p.purpose = purpose /\ p.event = e
      /\ p.at = clock + 1 /\ p.partners = b /\ p.epoch = Epoch(e)
      /\ b = row[e].preview.partners /\ Epoch(e) \in Nat
  <2>1. b = row[e].preview.partners /\ b \in BOOLEAN
    BY DEF PartnersReached, Typed, TypeOK, RowRecord, PreviewRecord
  <2>2. Epoch(e) \in Nat
    <3>1. Len(journal[e]) \in Nat
      BY DEF Typed, TypeOK
    <3>. QED BY <3>1, MovesFinite DEF Epoch
  <2>3. clock + 1 \in Nat
    BY DEF Typed, TypeOK
  <2>. QED BY <2>1, <2>2, <2>3, PreviewTypes
<1>4. preview' = preview \cup {p} /\ clock' = clock + 1 /\ e \in InService
  BY <1>1 DEF PreviewLifecycle, Tick, InService
<1>5. UNCHANGED <<row, journal, outbox, idem, among, confirmed, input, claim,
                  rowLock, facLock, pc, cmd, stamp, read, answer>>
  BY DEF PreviewLifecycle, records, locks, request
<1>. HIDE DEF p
<1>6. /\ preview' \subseteq PreviewRecord /\ IsFiniteSet(preview')
      /\ Cardinality(preview') =< MaxPreviews
  BY <1>2, <1>4, OneMorePreview DEF PreviewLifecycle, Typed
<1>7. TypeOK'
  BY <1>4, <1>5, <1>6, TimeGoesOn DEF Typed, TypeOK
<1>8. Carrying'
  BY <1>5 DEF Typed, Carrying
<1>9. InputsSound'
  BY <1>4, <1>5 DEF Typed, InputsSound, InService
<1>10. PreviewsSound'
  <2>1. ASSUME NEW o \in preview'
        PROVE  /\ o.at =< clock' /\ o.purpose # "none"
               /\ o.purpose = "activation" => o.event = None
               /\ Lifecycle(o) => /\ o.event \in InService'
                                  /\ o.partners = row'[o.event].preview.partners
                                  /\ o.epoch =< Epoch(o.event)'
    <3>0. Epoch(e)' = Epoch(e) /\ InService' = InService
      BY <1>5 DEF Epoch, Moves, InService
    <3>1. CASE o = p
      BY <3>0, <3>1, <1>2, <1>4, <1>5 DEF Typed, TypeOK
    <3>2. CASE o \in preview
      BY <3>2, <1>4, <1>5
         DEF Typed, TypeOK, PreviewsSound, PreviewRecord, InService, Epoch, Moves
    <3>. QED BY <3>1, <3>2, <1>4
  <2>. QED BY <2>1 DEF PreviewsSound
<1>. QED BY <1>7, <1>8, <1>9, <1>10 DEF Typed

\* What a client submits is one of the inputs its command may have.
LEMMA SubmitTyped ==
    ASSUME Typed, NEW q \in Request, NEW c \in Command, Submit(q, c) PROVE Typed'
<1>1. PICK i \in Inputs(Kind[c]) :
        input[c] \in {None, i} /\ input' = [input EXCEPT ![c] = i]
  BY DEF Submit
<1>2. /\ i \in InputRecord
      /\ Kind[c] \in Previewed =>
            /\ i.preview \in preview /\ i.preview.purpose = Purpose(Kind[c])
            /\ i.event = i.preview.event
      /\ Kind[c] \notin Previewed => i.event \in InService
  <2>1. CASE Kind[c] \in Previewed
    <3>1. PICK p \in preview : p.purpose = Purpose(Kind[c]) /\
                               i = [event |-> p.event, preview |-> p]
      BY <2>1, <1>1 DEF Inputs, Previewed
    <3>2. p \in PreviewRecord
      BY <3>1 DEF Typed, TypeOK
    <3>. QED BY <2>1, <3>1, <3>2 DEF InputRecord, PreviewRecord
  <2>2. CASE Kind[c] \notin Previewed
    <3>1. i \in [event : InService, preview : {NoPreview}]
      BY <2>2, <1>1 DEF Inputs, Previewed
    <3>. QED BY <2>2, <3>1, EmptyRecords DEF InputRecord, InService
  <2>. QED BY <2>1, <2>2
<1>3. /\ cmd' = [cmd EXCEPT ![q] = c]
      /\ pc[q] = "new"
      /\ \E step \in {"confirm", "stamp", "claim"} : pc' = [pc EXCEPT ![q] = step]
      /\ UNCHANGED <<row, journal, outbox, idem, among, preview, confirmed, clock,
                     claim, rowLock, facLock, stamp, read, answer>>
  BY DEF Submit, GoTo, records, locks
<1>4. TypeOK'
  BY <1>1, <1>2, <1>3 DEF Typed, TypeOK
<1>5. Carrying'
  BY <1>1, <1>2, <1>3, NoneAssumption DEF Typed, TypeOK, Carrying
<1>6. InputsSound'
  <2>1. InService' = InService
    BY <1>3 DEF InService
  <2>. QED BY <1>1, <1>2, <1>3, <2>1 DEF Typed, TypeOK, InputsSound
<1>7. PreviewsSound'
  BY <1>3 DEF Typed, PreviewsSound, InService, Epoch, Moves
<1>. QED BY <1>4, <1>5, <1>6, <1>7 DEF Typed

\* Every step of a request but its commit leaves the records alone.
Background ==
    /\ UNCHANGED <<row, journal, outbox, idem, among, preview, input, cmd>>
    /\ clock' \in {clock, clock + 1}

LEMMA Backgrounds ==
    ASSUME TypeOK, NEW q \in Request,
           \/ ConfirmStart(q) \/ ConfirmEnd(q) \/ ReadServerTime(q) \/ Claim(q)
           \/ Replay(q) \/ LockRow(q) \/ LockFacility(q) \/ Refuse(q) \/ Fail(q)
    PROVE  Background
BY DEF Background, ConfirmStart, ConfirmEnd, ReadServerTime, Claim, Replay, LockRow,
       LockFacility, Refuse, Fail, Tick, records, evidence, locks

\* Issued confirmations are confirmations, whatever they are about.
LEMMA IssueType ==
    ASSUME Typed, NEW q \in Request, pc[q] # "new"
    PROVE  /\ ConfirmationId(q) \in Command \cup Request
           /\ \A r \in RowRecord : Digest(q, r) \in Seq(Nat)
           /\ <<AskedPreview(q).at>> \in Seq(Nat)
           /\ \A i \in Command \cup Request, d \in Seq(Nat) :
                 Issue(i, d) => confirmed' \in [Command \cup Request -> Confirmation]
<1>1. ConfirmationId(q) \in Command \cup Request
  BY AskedTypes DEF ConfirmationId
<1>2. <<AskedPreview(q).at>> \in Seq(Nat)
  <2>1. AskedPreview(q).at \in Nat
    BY AskedTypes DEF PreviewRecord
  <2>. QED BY <2>1
<1>3. \A r \in RowRecord : Digest(q, r) \in Seq(Nat)
  BY <1>2 DEF Digest, CloseDigest, RowRecord
<1>4. \A i \in Command \cup Request, d \in Seq(Nat) :
        Issue(i, d) => confirmed' \in [Command \cup Request -> Confirmation]
  BY DEF Issue, Confirmation, Typed, TypeOK
<1>. QED BY <1>1, <1>2, <1>3, <1>4

\* Locks are given back to nobody.
LEMMA ReleaseType ==
    ASSUME TypeOK, NEW q \in Request, Release(q), Forget(q)
    PROVE  /\ claim' \in [Command -> Request \cup {None}]
           /\ rowLock' \in [Event -> Request \cup {None}]
           /\ facLock' \in Request \cup {None}
           /\ stamp' \in [Request -> 0..clock]
           /\ read' \in [Request -> ReadRecord]
<1>1. 0 \in 0..clock
  BY DEF TypeOK
<1>. QED BY <1>1, EmptyRecords DEF Release, Forget, TypeOK

\* A request goes on with what it carries, and answers when it is done.
LEMMA GoesOn ==
    ASSUME TypeOK, Carrying, NEW q \in Request, NEW step, NEW a,
           pc[q] \notin {"new", "done"}, UNCHANGED <<input, cmd>>, GoTo(q, step),
           step \in {"stamp", "claim", "row", "facility", "locked", "done"},
           step = "row" => Kind[cmd[q]] # "start",
           \/ UNCHANGED answer
           \/ /\ step = "done" /\ answer' = [answer EXCEPT ![q] = a]
              /\ a.kind \in {"done", "refused", "failed"}
    PROVE  /\ pc' \in [Request -> {"new", "confirm", "stamp", "claim", "row",
                                   "facility", "locked", "done"}]
           /\ \A r \in Request :
                 answer'[r].kind \in {"none", "done", "refused", "failed"}
           /\ Carrying'
<1>1. pc' = [pc EXCEPT ![q] = step]
  BY DEF GoTo
<1>2. /\ pc' \in [Request -> {"new", "confirm", "stamp", "claim", "row",
                              "facility", "locked", "done"}]
      /\ \A r \in Request : pc'[r] = IF r = q THEN step ELSE pc[r]
  BY <1>1 DEF TypeOK
<1>3. /\ answer' = [r \in Request |-> answer'[r]]
      /\ \A r \in Request : r # q => answer'[r] = answer[r]
      /\ answer'[q] = answer[q] \/ (step = "done" /\ answer'[q] = a)
  BY DEF Carrying
<1>4. \A r \in Request : answer'[r].kind \in {"none", "done", "refused", "failed"}
  <2>1. \A r \in Request : answer[r].kind \in {"none", "done", "refused", "failed"}
    BY DEF TypeOK
  <2>. QED BY <2>1, <1>3
<1>5. \A r \in Request : pc'[r] # "done" => answer'[r].kind = "none"
  BY <1>2, <1>3 DEF Carrying
<1>6. \A r \in Request :
        /\ pc'[r] # "new" => cmd'[r] \in Command /\ input'[cmd'[r]] # None
        /\ pc'[r] = "row" => Kind[cmd'[r]] # "start"
  <2>. TAKE r \in Request
  <2>1. CASE r = q
    BY <1>2, <2>1 DEF Carrying
  <2>2. CASE r # q
    BY <1>2, <2>2 DEF Carrying
  <2>. QED BY <2>1, <2>2
<1>. QED BY <1>2, <1>3, <1>4, <1>5, <1>6 DEF Carrying

LEMMA BackgroundTyped ==
    ASSUME Typed, NEW q \in Request,
           \/ ConfirmStart(q) \/ ConfirmEnd(q) \/ ReadServerTime(q) \/ Claim(q)
           \/ Replay(q) \/ LockRow(q) \/ LockFacility(q) \/ Refuse(q) \/ Fail(q)
    PROVE  Typed'
<1>0. /\ Background /\ TypeOK /\ Carrying /\ pc[q] # "new"
      /\ InputsSound' /\ PreviewsSound'
  <2>1. Background
    BY Backgrounds DEF Typed
  <2>2. pc[q] # "new"
    BY DEF ConfirmStart, ConfirmEnd, ReadServerTime, Claim, Replay, LockRow,
           LockFacility, Refuse, Fail
  <2>. QED BY <2>1, <2>2, QuietSound DEF Background, Typed
<1>. USE <1>0
<1>1. CASE ConfirmStart(q)
  <2>1. confirmed' \in [Command \cup Request -> Confirmation]
    BY <1>1, IssueType, AskedTypes DEF ConfirmStart, TypeOK
  <2>2. stamp' \in [Request -> 0..clock']
    BY <1>1 DEF ConfirmStart, Tick, TypeOK
  <2>3. GoTo(q, "claim") /\ UNCHANGED <<claim, rowLock, facLock, read, answer>>
    BY <1>1 DEF ConfirmStart, locks
  <2>4. Carrying' /\ pc' \in [Request -> {"new", "confirm", "stamp", "claim", "row",
                                          "facility", "locked", "done"}]
    BY <1>1, <2>3, GoesOn DEF ConfirmStart, Background
  <2>5. TypeOK'
    BY <2>1, <2>2, <2>3, <2>4, TimeGoesOn DEF Background, TypeOK
  <2>. QED BY <2>4, <2>5 DEF Typed
<1>2. CASE ConfirmEnd(q)
  <2>1. AskedEvent(q) \in Event
    BY <1>2, AskedTypes, Arrows DEF ConfirmEnd, InService
  <2>2. row[AskedEvent(q)] \in RowRecord
    BY <2>1 DEF TypeOK
  <2>3. confirmed' \in [Command \cup Request -> Confirmation]
    BY <1>2, <2>2, IssueType DEF ConfirmEnd, TypeOK
  <2>4. /\ pc[q] = "confirm"
        /\ \/ UNCHANGED answer /\ GoTo(q, "stamp")
           \/ /\ answer' = [answer EXCEPT ![q] = Told("refused", None)]
              /\ GoTo(q, "done")
    BY <1>2 DEF ConfirmEnd, Answered
  <2>5. Told("refused", None).kind = "refused"
    BY DEF Told
  <2>6. /\ pc' \in [Request -> {"new", "confirm", "stamp", "claim", "row",
                                "facility", "locked", "done"}]
        /\ \A r \in Request : answer'[r].kind \in {"none", "done", "refused", "failed"}
        /\ Carrying'
    BY <2>4, <2>5, GoesOn DEF Background
  <2>7. TypeOK'
    BY <1>2, <2>3, <2>6, TimeGoesOn DEF ConfirmEnd, Background, locks, TypeOK
  <2>. QED BY <2>6, <2>7 DEF Typed
<1>3. CASE ReadServerTime(q)
  <2>1. GoTo(q, "claim") /\ UNCHANGED <<confirmed, claim, rowLock, facLock, read, answer>>
    BY <1>3 DEF ReadServerTime, locks
  <2>2. stamp' \in [Request -> 0..clock']
    BY <1>3 DEF ReadServerTime, Tick, TypeOK
  <2>3. Carrying' /\ pc' \in [Request -> {"new", "confirm", "stamp", "claim", "row",
                                          "facility", "locked", "done"}]
    BY <1>3, <2>1, GoesOn DEF ReadServerTime, Background
  <2>4. TypeOK'
    BY <2>1, <2>2, <2>3, TimeGoesOn DEF Background, TypeOK
  <2>. QED BY <2>3, <2>4 DEF Typed
<1>4. CASE Claim(q)
  <2>1. /\ claim' = [claim EXCEPT ![cmd[q]] = q] /\ cmd[q] \in Command
        /\ UNCHANGED <<clock, confirmed, rowLock, facLock, stamp, read, answer>>
    BY <1>4 DEF Claim, evidence, Carrying
  <2>2. PICK step \in {"facility", "row"} :
          GoTo(q, step) /\ (step = "row" => Kind[cmd[q]] # "start")
    BY <1>4 DEF Claim, AskedKind
  <2>3. Carrying' /\ pc' \in [Request -> {"new", "confirm", "stamp", "claim", "row",
                                          "facility", "locked", "done"}]
    BY <1>4, <2>1, <2>2, GoesOn DEF Claim, Background
  <2>4. TypeOK'
    BY <2>1, <2>3 DEF Background, TypeOK
  <2>. QED BY <2>3, <2>4 DEF Typed
<1>5. CASE Replay(q)
  <2>1. /\ stamp' \in [Request -> 0..clock] /\ read' \in [Request -> ReadRecord]
    <3>1. 0 \in 0..clock
      BY DEF TypeOK
    <3>. QED BY <1>5, <3>1, EmptyRecords DEF Replay, Forget, TypeOK
  <2>2. /\ GoTo(q, "done") /\ pc[q] = "claim"
        /\ answer' = [answer EXCEPT ![q] = Told("done", Hydrated(idem[cmd[q]]))]
        /\ UNCHANGED <<clock, confirmed, claim, rowLock, facLock>>
    BY <1>5 DEF Replay, evidence, locks
  <2>3. Told("done", Hydrated(idem[cmd[q]])).kind = "done"
    BY DEF Told
  <2>4. /\ pc' \in [Request -> {"new", "confirm", "stamp", "claim", "row",
                                "facility", "locked", "done"}]
        /\ \A r \in Request : answer'[r].kind \in {"none", "done", "refused", "failed"}
        /\ Carrying'
    BY <2>2, <2>3, GoesOn DEF Background
  <2>5. TypeOK'
    BY <2>1, <2>2, <2>4 DEF Background, TypeOK
  <2>. QED BY <2>4, <2>5 DEF Typed
<1>6. CASE LockRow(q)
  <2>1. AskedEvent(q) \in Event /\ row[AskedEvent(q)] \in RowRecord
    BY <1>6, AskedTypes DEF LockRow, Carrying, AskedKind, InService, TypeOK
  <2>2. /\ read' = [read EXCEPT ![q].row = row[AskedEvent(q)]]
        /\ rowLock' = [rowLock EXCEPT ![AskedEvent(q)] = q]
        /\ \E step \in {"locked", "facility"} : GoTo(q, step)
        /\ UNCHANGED <<clock, confirmed, claim, facLock, stamp, answer>>
    BY <1>6 DEF LockRow, evidence
  <2>3. read' \in [Request -> ReadRecord]
    BY <2>1, <2>2 DEF TypeOK, ReadRecord
  <2>4. Carrying' /\ pc' \in [Request -> {"new", "confirm", "stamp", "claim", "row",
                                          "facility", "locked", "done"}]
    BY <1>6, <2>2, GoesOn DEF LockRow, Background
  <2>5. TypeOK'
    BY <2>1, <2>2, <2>3, <2>4 DEF Background, TypeOK
  <2>. QED BY <2>4, <2>5 DEF Typed
<1>7. CASE LockFacility(q)
  <2>1. /\ read' = [read EXCEPT ![q].active = ActiveEvents] /\ facLock' = q
        /\ ActiveEvents \in SUBSET Event /\ GoTo(q, "locked")
        /\ UNCHANGED <<clock, confirmed, claim, rowLock, stamp, answer>>
    BY <1>7 DEF LockFacility, ActiveEvents, evidence
  <2>2. read' \in [Request -> ReadRecord]
    BY <2>1 DEF TypeOK, ReadRecord
  <2>3. Carrying' /\ pc' \in [Request -> {"new", "confirm", "stamp", "claim", "row",
                                          "facility", "locked", "done"}]
    BY <1>7, <2>1, GoesOn DEF LockFacility, Background
  <2>4. TypeOK'
    BY <2>1, <2>2, <2>3 DEF Background, TypeOK
  <2>. QED BY <2>3, <2>4 DEF Typed
<1>8. CASE Refuse(q) \/ Fail(q)
  <2>1. PICK kind \in {"refused", "failed"} : Answered(q, kind)
    BY <1>8 DEF Refuse, Fail
  <2>2. /\ GoTo(q, "done") /\ pc[q] \in {"facility", "row", "locked"}
        /\ answer' = [answer EXCEPT ![q] = Told(kind, None)]
        /\ UNCHANGED <<clock, confirmed>> /\ Release(q) /\ Forget(q)
    BY <1>8, <2>1 DEF Answered, Refuse, Fail, evidence
  <2>3. Told(kind, None).kind = kind
    BY DEF Told
  <2>4. /\ pc' \in [Request -> {"new", "confirm", "stamp", "claim", "row",
                                "facility", "locked", "done"}]
        /\ \A r \in Request : answer'[r].kind \in {"none", "done", "refused", "failed"}
        /\ Carrying'
    BY <2>2, <2>3, GoesOn DEF Background
  <2>5. TypeOK'
    BY <2>2, <2>4, ReleaseType DEF Background, TypeOK
  <2>. QED BY <2>4, <2>5 DEF Typed
<1>. QED BY <1>1, <1>2, <1>3, <1>4, <1>5, <1>6, <1>7, <1>8
-----------------------------------------------------------------------------
(* What a commit does, given that what was read under the locks still holds. *)

StartedRow(q) == [NoRow EXCEPT !.status = "active", !.activatedAt = stamp[q],
                               !.preview = AskedPreview(q)]

Starts(q, e) ==
    /\ AskedKind(q) = "start" /\ row[e].status = "none"
    /\ AskedPreview(q).seen = ActiveEvents
    /\ row' = [row EXCEPT ![e] = StartedRow(q)]
    /\ among' = [among EXCEPT ![e] = ActiveEvents]
    /\ Notify(q, e)

Transits(q, e) ==
    /\ AskedKind(q) \in Transitions /\ e = AskedEvent(q)
    /\ row[e].status = StateMachine[AskedKind(q)].from
    /\ row' = [row EXCEPT ![e] = Moved(@, AskedKind(q), stamp[q])]
    /\ AskedKind(q) = "close" => UNCHANGED outbox
    /\ AskedKind(q) # "close" =>
          /\ PreviewMatches(AskedPreview(q), e, row[e], Purpose(AskedKind(q)))
          /\ Notify(q, e)
    /\ UNCHANGED among

Enters(q, e) ==
    /\ AskedKind(q) \in {"join", "post"} /\ e = AskedEvent(q)
    /\ row[e].status \in (IF AskedKind(q) = "join" THEN {"active"}
                          ELSE {"active", "all-clear"})
    /\ UNCHANGED <<row, outbox, among>>

Entry(q) == [kind |-> AskedKind(q), cmd |-> cmd[q]]

Commits(q, e) ==
    /\ Starts(q, e) \/ Transits(q, e) \/ Enters(q, e)
    /\ Record(q, e, row'[e].status)
    /\ \A d \in Event : d # e => row'[d] = row[d]
    /\ pc[q] = "locked" /\ cmd[q] \in Command /\ idem[cmd[q]] = None
    /\ Consume(q) /\ Release(q) /\ Forget(q) /\ GoTo(q, "done")
    /\ UNCHANGED <<preview, input, clock, cmd>>

LEMMA StampType ==
    ASSUME TypeOK, NEW q \in Request
    PROVE  stamp[q] \in Nat /\ stamp[q] =< clock
<1>1. stamp \in [Request -> 0..clock] /\ clock \in Nat
  BY DEF TypeOK
<1>. QED BY <1>1

LEMMA StartedRowType ==
    ASSUME Typed, NEW q \in Request, pc[q] # "new"
    PROVE  /\ StartedRow(q) \in RowRecord /\ StartedRow(q).status = "active"
           /\ StartedRow(q).preview = AskedPreview(q)
           /\ StartedRow(q).reactivatedAt = 0
           /\ StartedRow(q).activatedAt = stamp[q]
<1>1. AskedPreview(q) \in PreviewRecord /\ stamp[q] \in Nat
  BY AskedTypes, StampType DEF Typed
<1>2. StartedRow(q) \in RowRecord
  BY <1>1 DEF StartedRow, NoRow, RowRecord, RowStatuses
<1>. QED BY <1>2 DEF StartedRow, NoRow, RowRecord

LEMMA CommitEffect ==
    ASSUME Typed, UnderLocks, NEW q \in Request, Commit(q)
    PROVE  \E e \in Event : Commits(q, e)
<1>1. /\ pc[q] = "locked" /\ Permitted(q) /\ cmd[q] \in Command
      /\ AskedKind(q) \in Kinds /\ idem[cmd[q]] = None
      /\ row \in [Event -> RowRecord]
      /\ AskedKind(q) # "start" => /\ AskedEvent(q) \in Event
                                   /\ read[q].row = row[AskedEvent(q)]
      /\ AskedKind(q) # "post" => read[q].active = ActiveEvents
  <2>1. pc[q] = "locked" /\ Permitted(q)
    BY DEF Commit
  <2>2. /\ cmd[q] \in Command /\ AskedKind(q) \in Kinds
        /\ AskedKind(q) # "start" => AskedEvent(q) \in Event
    BY <2>1, AskedTypes DEF InService
  <2>3. /\ idem[cmd[q]] = None
        /\ AskedKind(q) # "start" => read[q].row = row[AskedEvent(q)]
        /\ AskedKind(q) # "post" => read[q].active = ActiveEvents
    BY <2>1 DEF UnderLocks, AskedKind, AskedEvent
  <2>. QED BY <2>1, <2>2, <2>3 DEF Typed, TypeOK
<1>2. /\ Consume(q) /\ Release(q) /\ Forget(q) /\ GoTo(q, "done")
      /\ UNCHANGED <<preview, input, clock, cmd>>
  BY DEF Commit
<1>3. CASE CommitStart(q)
  <2>1. PICK e \in Event :
          /\ AskedKind(q) = "start" /\ row[e].status = "none"
          /\ row' = [row EXCEPT ![e] = StartedRow(q)]
          /\ among' = [among EXCEPT ![e] = ActiveEvents]
          /\ Notify(q, e) /\ Record(q, e, "active")
    BY <1>3 DEF CommitStart, StartedRow
  <2>2. AskedPreview(q).seen = ActiveEvents
    BY <1>1, <2>1 DEF Permitted
  <2>3. row'[e].status = "active" /\ \A d \in Event : d # e => row'[d] = row[d]
    BY <1>1, <2>1, StartedRowType
  <2>4. Starts(q, e)
    BY <2>1, <2>2 DEF Starts
  <2>. QED BY <1>1, <1>2, <2>1, <2>3, <2>4 DEF Commits
<1>4. CASE CommitTransition(q)
  <2>. DEFINE e == AskedEvent(q)
              k == AskedKind(q)
  <2>1. /\ k \in Transitions /\ row' = [row EXCEPT ![e] = Moved(@, k, stamp[q])]
        /\ k = "close" => UNCHANGED outbox
        /\ k # "close" => Notify(q, e)
        /\ Record(q, e, StateMachine[k].to) /\ UNCHANGED among
    BY <1>4 DEF CommitTransition
  <2>2. /\ e \in Event /\ read[q].row = row[e] /\ row[e] \in RowRecord
        /\ stamp[q] \in Nat
    BY <1>1, <2>1, Arrows, StampType DEF Typed
  <2>3. /\ row[e].status = StateMachine[k].from
        /\ k # "close" => PreviewMatches(AskedPreview(q), e, row[e], Purpose(k))
    BY <1>1, <2>1, <2>2 DEF Permitted
  <2>4. /\ row'[e].status = StateMachine[k].to
        /\ \A d \in Event : d # e => row'[d] = row[d]
    BY <1>1, <2>1, <2>2, MovedType
  <2>5. Transits(q, e)
    BY <2>1, <2>3 DEF Transits
  <2>. QED BY <1>1, <1>2, <2>1, <2>2, <2>4, <2>5 DEF Commits
<1>5. CASE CommitEntry(q)
  <2>. DEFINE e == AskedEvent(q)
  <2>1. /\ AskedKind(q) \in {"join", "post"} /\ Record(q, e, read[q].row.status)
        /\ UNCHANGED <<row, outbox, among>>
    BY <1>5 DEF CommitEntry
  <2>2. e \in Event /\ read[q].row = row[e] /\ row[e].status \in RowStatuses
    BY <1>1, <2>1 DEF RowRecord
  <2>3. Enters(q, e)
    BY <1>1, <2>1, <2>2 DEF Permitted, Enters, RowStatuses
  <2>. QED BY <1>1, <1>2, <2>1, <2>2, <2>3 DEF Commits
<1>. QED BY <1>3, <1>4, <1>5 DEF Commit

\* The rows after a commit.
LEMMA RowsAfter ==
    ASSUME Typed, NEW q \in Request, NEW e \in Event, Commits(q, e)
    PROVE  /\ row' \in [Event -> RowRecord]
           /\ row'[e].status # "none" /\ InService \subseteq InService'
           /\ \A d \in InService : row'[d].preview = row[d].preview
<1>1. pc[q] # "new" /\ row \in [Event -> RowRecord] /\ stamp[q] \in Nat
  BY StampType DEF Commits, Typed, TypeOK
<1>2. CASE Starts(q, e)
  <2>1. row' = [row EXCEPT ![e] = StartedRow(q)] /\ row[e].status = "none"
    BY <1>2 DEF Starts
  <2>. QED BY <1>1, <2>1, StartedRowType DEF InService
<1>3. CASE Transits(q, e)
  <2>. DEFINE r == Moved(row[e], AskedKind(q), stamp[q])
  <2>1. row' = [row EXCEPT ![e] = r] /\ AskedKind(q) \in Transitions
    BY <1>3 DEF Transits
  <2>2. r \in RowRecord /\ r.status # "none" /\ r.preview = row[e].preview
    <3>1. row[e] \in RowRecord
      BY <1>1
    <3>2. /\ r \in RowRecord /\ r.preview = row[e].preview
          /\ r.status = StateMachine[AskedKind(q)].to
      BY <1>1, <2>1, <3>1, MovedType
    <3>3. StateMachine[AskedKind(q)].to # "none"
      BY <2>1, Arrows
    <3>. QED BY <3>2, <3>3
  <2>. HIDE DEF r
  <2>. QED BY <1>1, <2>1, <2>2 DEF InService
<1>4. CASE Enters(q, e)
  BY <1>1, <1>4 DEF Enters, InService
<1>. QED BY <1>2, <1>3, <1>4 DEF Commits

\* The journals after a commit.
LEMMA JournalsAfter ==
    ASSUME Typed, NEW q \in Request, NEW e \in Event, Commits(q, e),
           NEW n, n = Len(journal[e]), NEW k, k = AskedKind(q)
    PROVE  /\ journal' \in [Event -> Seq([kind : Kinds, cmd : Command \cup {None}])]
           /\ n \in Nat /\ Len(journal'[e]) = n + 1 /\ journal'[e][n + 1] = Entry(q)
           /\ \A i \in 1..n : journal'[e][i] = journal[e][i]
           /\ \A d \in Event : d # e => journal'[d] = journal[d] /\ Epoch(d)' = Epoch(d)
           /\ Moves(e, n)' = Moves(e, n)
           /\ Moves(e, n + 1)' =
                Moves(e, n) \cup (IF k \in {"start"} \cup Transitions THEN {n + 1} ELSE {})
           /\ Epoch(e) \in Nat
           /\ Epoch(e)' = IF k \in {"start"} \cup Transitions THEN Epoch(e) + 1
                          ELSE Epoch(e)
<1>. DEFINE S == [kind : Kinds, cmd : Command \cup {None}]
<1>1. Entry(q) \in S /\ Entry(q).kind = AskedKind(q)
  BY AskedTypes DEF Entry, Commits
<1>2. journal' = [journal EXCEPT ![e] = Append(@, Entry(q))]
  BY DEF Commits, Record, Entry
<1>3. journal \in [Event -> Seq(S)]
  BY DEF Typed, TypeOK
<1>4. journal' \in [Event -> Seq(S)]
  <2>. HIDE DEF S
  <2>. QED BY <1>1, <1>2, <1>3
<1>5. /\ n \in Nat /\ Len(journal'[e]) = n + 1 /\ journal'[e][n + 1] = Entry(q)
      /\ \A i \in 1..n : journal'[e][i] = journal[e][i]
      /\ \A d \in Event : d # e => journal'[d] = journal[d]
  BY <1>2, JournalGrows DEF Typed
<1>6. \A d \in Event : d # e => Epoch(d)' = Epoch(d)
  BY <1>5 DEF Epoch, Moves
<1>7. Moves(e, n)' = Moves(e, n)
  BY <1>5, PastStands
<1>8. Moves(e, n + 1)' =
        Moves(e, n) \cup (IF k \in {"start"} \cup Transitions THEN {n + 1} ELSE {})
  <2>1. 1..(n + 1) = 1..n \cup {n + 1}
    BY <1>5
  <2>2. journal'[e][n + 1].kind = k
    BY <1>1, <1>5
  <2>3. Moves(e, n + 1)' =
          {i \in 1..n : journal'[e][i].kind \in {"start"} \cup Transitions} \cup
          {i \in {n + 1} : k \in {"start"} \cup Transitions}
    BY <2>1, <2>2 DEF Moves
  <2>4. {i \in 1..n : journal'[e][i].kind \in {"start"} \cup Transitions} = Moves(e, n)
    BY <1>5 DEF Moves
  <2>. QED BY <2>3, <2>4
<1>9. /\ IsFiniteSet(Moves(e, n)) /\ n + 1 \notin Moves(e, n)
      /\ Cardinality(Moves(e, n)) \in Nat
  <2>1. n + 1 \notin Moves(e, n)
    BY <1>5 DEF Moves
  <2>. QED BY <1>5, <2>1, MovesFinite
<1>10. /\ Epoch(e) = Cardinality(Moves(e, n))
       /\ Epoch(e)' = Cardinality(Moves(e, n + 1)')
  BY <1>5 DEF Epoch
<1>11. Cardinality(Moves(e, n) \cup {n + 1}) = Cardinality(Moves(e, n)) + 1
  BY <1>9, FS_AddElement
<1>. QED BY <1>4, <1>5, <1>6, <1>7, <1>8, <1>9, <1>10, <1>11 DEF S

LEMMA CommitTyped ==
    ASSUME Typed, NEW q \in Request, NEW e \in Event, Commits(q, e)
    PROVE  Typed'
<1>. PICK n : n = Len(journal[e])
  OBVIOUS
<1>1. /\ pc[q] = "locked" /\ cmd[q] \in Command /\ stamp[q] \in Nat
      /\ stamp[q] =< clock /\ TypeOK /\ Carrying
      /\ UNCHANGED <<preview, input, clock, cmd>>
  BY StampType DEF Commits, Typed
<1>2. confirmed' \in [Command \cup Request -> Confirmation]
  <2>1. Consume(q) /\ confirmed \in [Command \cup Request -> Confirmation]
    BY DEF Commits, Typed, TypeOK
  <2>2. \A i \in Command \cup Request :
          [confirmed EXCEPT ![i].status = "consumed"]
             \in [Command \cup Request -> Confirmation]
    BY <2>1 DEF Confirmation
  <2>3. ConfirmationId(q) \in Command \cup Request
    BY <1>1, IssueType
  <2>. QED BY <2>1, <2>2, <2>3 DEF Consume
<1>3. outbox' \subseteq [event : Event, population : {"roster", "partner"},
                         purpose : {"activation", "all-clear", "reactivation"},
                         at : 0..clock]
  <2>1. stamp[q] \in 0..clock
    BY <1>1 DEF TypeOK
  <2>2. CASE UNCHANGED outbox
    BY <2>2, <1>1 DEF TypeOK
  <2>3. CASE Notify(q, e) /\ AskedKind(q) \in Previewed
    <3>1. Purpose(AskedKind(q)) \in {"activation", "all-clear", "reactivation"}
      BY <2>3, PurposeNames DEF Previewed
    <3>. QED BY <2>1, <2>3, <3>1, <1>1 DEF Notify, TypeOK
  <2>. QED BY <2>2, <2>3, Arrows DEF Commits, Starts, Transits, Enters, Previewed
<1>4. idem' \in [Command -> IdemRecord \cup {None}]
  <2>1. [event |-> e, upto |-> n + 1] \in IdemRecord
    BY JournalsAfter DEF IdemRecord
  <2>. QED BY <1>1, <2>1 DEF Commits, Record, TypeOK
<1>5. among' \in [Event -> SUBSET Event]
  BY <1>1 DEF Commits, Starts, Transits, Enters, ActiveEvents, TypeOK
<1>6. /\ pc' \in [Request -> {"new", "confirm", "stamp", "claim", "row",
                              "facility", "locked", "done"}]
      /\ \A r \in Request : answer'[r].kind \in {"none", "done", "refused", "failed"}
      /\ Carrying'
  <2>. DEFINE a == Told("done", [event |-> e, status |-> row'[e].status])
  <2>1. GoTo(q, "done") /\ answer' = [answer EXCEPT ![q] = a] /\ a.kind = "done"
    BY DEF Commits, Record, Told
  <2>. HIDE DEF a
  <2>. QED BY <1>1, <2>1, GoesOn
<1>7. TypeOK'
  <2>1. /\ row' \in [Event -> RowRecord]
        /\ journal' \in [Event -> Seq([kind : Kinds, cmd : Command \cup {None}])]
    BY RowsAfter, JournalsAfter
  <2>2. /\ claim' \in [Command -> Request \cup {None}]
        /\ rowLock' \in [Event -> Request \cup {None}]
        /\ facLock' \in Request \cup {None}
        /\ stamp' \in [Request -> 0..clock]
        /\ read' \in [Request -> ReadRecord]
    BY <1>1, ReleaseType DEF Commits
  <2>. QED BY <1>1, <1>2, <1>3, <1>4, <1>5, <1>6, <2>1, <2>2 DEF TypeOK
<1>8. InputsSound'
  BY <1>1, RowsAfter DEF Typed, InputsSound
<1>9. PreviewsSound'
  <2>1. \A d \in Event : Epoch(d) \in Nat /\ Epoch(d)' \in Nat /\ Epoch(d) =< Epoch(d)'
    <3>1. ASSUME NEW d \in Event, d # e
          PROVE  Epoch(d)' = Epoch(d) /\ Epoch(d) \in Nat
      <4>1. Len(journal[d]) \in Nat
        BY <1>1 DEF TypeOK
      <4>. QED BY <3>1, <4>1, JournalsAfter, MovesFinite DEF Epoch
    <3>2. Epoch(e) \in Nat /\ Epoch(e)' \in {Epoch(e), Epoch(e) + 1}
      BY JournalsAfter
    <3>. QED BY <3>1, <3>2
  <2>2. InService \subseteq Event
    BY DEF InService
  <2>3. \A p \in preview : p.epoch \in Nat
    BY <1>1 DEF TypeOK, PreviewRecord
  <2>4. \A p \in preview : Lifecycle(p) =>
          /\ p.event \in InService' /\ p.partners = row'[p.event].preview.partners
          /\ p.epoch =< Epoch(p.event)'
    BY <2>1, <2>2, <2>3, RowsAfter DEF Typed, PreviewsSound
  <2>. QED BY <1>1, <2>4 DEF Typed, PreviewsSound
<1>. QED BY <1>6, <1>7, <1>8, <1>9 DEF Typed

LEMMA StutterTyped == ASSUME Typed, UNCHANGED vars PROVE Typed'
<1>1. TypeOK' /\ Carrying'
  BY DEF Typed, TypeOK, Carrying, vars, records, evidence, locks, request
<1>2. InputsSound' /\ PreviewsSound'
  BY QuietSound DEF Typed, vars, records, evidence
<1>. QED BY <1>1, <1>2 DEF Typed

LEMMA StepTyped == Typed /\ UnderLocks /\ [Next]_vars => Typed'
<1>. SUFFICES ASSUME Typed, UnderLocks, [Next]_vars PROVE Typed'
  OBVIOUS
<1>1. CASE PreviewActivation
  BY <1>1, PreviewActivationTyped
<1>2. ASSUME NEW e \in Event, PreviewLifecycle(e) PROVE Typed'
  BY <1>2, PreviewLifecycleTyped
<1>3. ASSUME NEW q \in Request, NEW c \in Command, Submit(q, c) PROVE Typed'
  BY <1>3, SubmitTyped
<1>4. ASSUME NEW q \in Request,
             \/ ConfirmStart(q) \/ ConfirmEnd(q) \/ ReadServerTime(q) \/ Claim(q)
             \/ Replay(q) \/ LockRow(q) \/ LockFacility(q) \/ Refuse(q) \/ Fail(q)
      PROVE  Typed'
  BY <1>4, BackgroundTyped
<1>5. ASSUME NEW q \in Request, Commit(q) PROVE Typed'
  BY <1>5, CommitEffect, CommitTyped
<1>6. CASE UNCHANGED vars
  BY <1>6, StutterTyped
<1>. QED BY <1>1, <1>2, <1>3, <1>4, <1>5, <1>6 DEF Next, Step
-----------------------------------------------------------------------------
(* What was read under a lock still holds: only the holder of an event's row *)
(* and of the facility moves an event, and only the holder of the facility   *)
(* starts one.                                                               *)

\* What request r relies on.
Relies(r) ==
    LET k == Kind[cmd[r]]  e == input[cmd[r]].event IN
    /\ pc[r] \in {"row", "facility", "locked"} =>
          claim[cmd[r]] = r /\ idem[cmd[r]] = None
    /\ pc[r] \in {"facility", "locked"} /\ k # "start" =>
          rowLock[e] = r /\ read[r].row = row[e]
    /\ pc[r] = "locked" /\ k # "post" =>
          facLock = r /\ read[r].active = ActiveEvents

LEMMA UnderLocksIsReliance == UnderLocks <=> \A r \in Request : Relies(r)
BY DEF UnderLocks, Relies

\* A request whose own state and whose input stay, and whose locks stay.
LEMMA OthersRely ==
    ASSUME Typed, NEW r \in Request, Relies(r),
           pc'[r] = pc[r], cmd'[r] = cmd[r], read'[r] = read[r],
           pc[r] # "new" => input'[cmd[r]] = input[cmd[r]],
           \A c \in Command : claim[c] = r => claim'[c] = r /\ idem'[c] = idem[c],
           \A e \in InService : rowLock[e] = r => rowLock'[e] = r /\ row'[e] = row[e],
           facLock = r => facLock' = r /\ ActiveEvents' = ActiveEvents
    PROVE  Relies(r)'
<1>1. CASE pc[r] \in {"row", "facility", "locked"}
  <2>1. /\ cmd[r] \in Command /\ claim[cmd[r]] = r /\ idem[cmd[r]] = None
        /\ Kind[cmd[r]] # "start" => input[cmd[r]].event \in InService
    BY <1>1, AskedTypes DEF Relies, AskedKind, AskedEvent
  <2>. QED BY <1>1, <2>1 DEF Relies
<1>2. CASE pc[r] \notin {"row", "facility", "locked"}
  BY <1>2 DEF Relies
<1>. QED BY <1>1, <1>2

\* A request that gives its locks back takes nobody else's.
LEMMA OthersKeepLocks ==
    ASSUME TypeOK, NEW q \in Request, NEW r \in Request, r # q, Release(q), Forget(q)
    PROVE  /\ read'[r] = read[r]
           /\ facLock = r => facLock' = r
           /\ \A c \in Command : claim[c] = r => claim'[c] = r
           /\ \A e \in Event : rowLock[e] = r => rowLock'[e] = r
BY DEF Release, Forget, TypeOK

LEMMA InitUnderLocks == Init => UnderLocks
BY DEF Init, UnderLocks

LEMMA StepUnderLocks == Typed /\ UnderLocks /\ [Next]_vars => UnderLocks'
<1>. SUFFICES ASSUME Typed, UnderLocks, [Next]_vars PROVE UnderLocks'
  OBVIOUS
<1>0. \A r \in Request : Relies(r)
  BY UnderLocksIsReliance
<1>. SUFFICES ASSUME NEW r \in Request PROVE Relies(r)'
  BY DEF UnderLocks, Relies
<1>1. CASE PreviewActivation \/ \E e \in Event : PreviewLifecycle(e)
  <2>1. UNCHANGED <<row, idem, input, claim, rowLock, facLock, pc, cmd, read>>
    BY <1>1 DEF PreviewActivation, PreviewLifecycle, records, locks, request
  <2>. QED BY <1>0, <2>1 DEF Relies, ActiveEvents
<1>2. ASSUME NEW q \in Request, NEW c \in Command, Submit(q, c) PROVE Relies(r)'
  <2>1. PICK i \in Inputs(Kind[c]) :
          input[c] \in {None, i} /\ input' = [input EXCEPT ![c] = i]
    BY <1>2 DEF Submit
  <2>2. /\ cmd' = [cmd EXCEPT ![q] = c] /\ pc[q] = "new"
        /\ \E step \in {"confirm", "stamp", "claim"} : pc' = [pc EXCEPT ![q] = step]
        /\ UNCHANGED <<row, idem, claim, rowLock, facLock, read>>
    BY <1>2 DEF Submit, GoTo, records, locks
  <2>3. CASE r = q
    BY <2>2, <2>3 DEF Relies, Typed, TypeOK
  <2>4. CASE r # q
    <3>1. pc'[r] = pc[r] /\ cmd'[r] = cmd[r]
      BY <2>2, <2>4 DEF Typed, TypeOK
    <3>2. pc[r] # "new" => input'[cmd[r]] = input[cmd[r]]
      BY <2>1 DEF Typed, TypeOK, Carrying
    <3>. QED BY <1>0, <2>2, <3>1, <3>2, OthersRely DEF ActiveEvents
  <2>. QED BY <2>3, <2>4
<1>3. ASSUME NEW q \in Request,
             ConfirmStart(q) \/ ConfirmEnd(q) \/ ReadServerTime(q) \/ Replay(q)
      PROVE  Relies(r)'
  <2>1. /\ Background /\ UNCHANGED <<claim, rowLock, facLock>>
        /\ pc'[q] \in {"stamp", "claim", "done"}
        /\ r # q => pc'[r] = pc[r] /\ read'[r] = read[r]
    BY <1>3, Backgrounds
       DEF ConfirmStart, ConfirmEnd, ReadServerTime, Replay, Forget, GoTo, Answered,
           locks, Typed, TypeOK
  <2>2. CASE r = q
    BY <2>1, <2>2 DEF Relies
  <2>3. CASE r # q
    BY <1>0, <2>1, <2>3, OthersRely DEF Background, ActiveEvents
  <2>. QED BY <2>2, <2>3
<1>4. ASSUME NEW q \in Request, Claim(q) PROVE Relies(r)'
  <2>1. /\ Background /\ UNCHANGED <<rowLock, facLock, read>>
        /\ claim' = [claim EXCEPT ![cmd[q]] = q] /\ claim[cmd[q]] = None
        /\ idem[cmd[q]] = None /\ cmd[q] \in Command
        /\ pc' = [pc EXCEPT ![q] = IF AskedKind(q) = "start" THEN "facility" ELSE "row"]
    BY <1>4, Backgrounds, AskedTypes DEF Claim, KeyUnclaimed, GoTo, Typed
  <2>2. CASE r = q
    BY <2>1, <2>2 DEF Relies, Background, AskedKind, Typed, TypeOK
  <2>3. CASE r # q
    <3>1. pc'[r] = pc[r] /\ \A c \in Command : claim[c] = r => claim'[c] = r
      BY <2>1, <2>3, NoneAssumption DEF Typed, TypeOK
    <3>. QED BY <1>0, <2>1, <3>1, OthersRely DEF Background, ActiveEvents
  <2>. QED BY <2>2, <2>3
<1>5. ASSUME NEW q \in Request, LockRow(q) PROVE Relies(r)'
  <2>. DEFINE e == AskedEvent(q)
  <2>1. /\ Background /\ UNCHANGED <<claim, facLock>> /\ pc[q] = "row"
        /\ rowLock' = [rowLock EXCEPT ![e] = q] /\ rowLock[e] = None
        /\ read' = [read EXCEPT ![q].row = row[e]]
        /\ pc' = [pc EXCEPT ![q] = IF AskedKind(q) = "post" THEN "locked" ELSE "facility"]
    BY <1>5, Backgrounds DEF LockRow, RowFree, GoTo, Typed
  <2>2. e \in Event /\ cmd[q] \in Command
    BY <2>1, AskedTypes DEF Typed, Carrying, AskedKind, InService
  <2>3. CASE r = q
    <3>1. /\ rowLock'[e] = q /\ read'[q].row = row[e]
          /\ pc'[q] = IF AskedKind(q) = "post" THEN "locked" ELSE "facility"
      BY <2>1, <2>2 DEF Typed, TypeOK, ReadRecord
    <3>. QED BY <1>0, <2>1, <2>2, <2>3, <3>1
             DEF Relies, Background, AskedKind, AskedEvent
  <2>4. CASE r # q
    <3>1. /\ pc'[r] = pc[r] /\ read'[r] = read[r]
          /\ \A d \in Event : rowLock[d] = r => rowLock'[d] = r
      BY <2>1, <2>2, <2>4, NoneAssumption DEF Typed, TypeOK
    <3>. QED BY <1>0, <2>1, <3>1, OthersRely DEF Background, ActiveEvents, InService
  <2>. QED BY <2>3, <2>4
<1>6. ASSUME NEW q \in Request, LockFacility(q) PROVE Relies(r)'
  <2>1. /\ Background /\ UNCHANGED <<claim, rowLock>> /\ pc[q] = "facility"
        /\ facLock' = q /\ facLock = None
        /\ read' = [read EXCEPT ![q].active = ActiveEvents]
        /\ pc' = [pc EXCEPT ![q] = "locked"]
    BY <1>6, Backgrounds DEF LockFacility, FacilityFree, GoTo, Typed
  <2>2. CASE r = q
    <3>1. /\ read'[q].row = read[q].row /\ read'[q].active = ActiveEvents
          /\ pc'[q] = "locked"
      BY <2>1 DEF Typed, TypeOK, ReadRecord
    <3>2. ActiveEvents' = ActiveEvents
      BY <2>1 DEF Background, ActiveEvents
    <3>. QED BY <1>0, <2>1, <2>2, <3>1, <3>2 DEF Relies, Background
  <2>3. CASE r # q
    <3>1. pc'[r] = pc[r] /\ read'[r] = read[r] /\ facLock # r
      BY <2>1, <2>3, NoneAssumption DEF Typed, TypeOK
    <3>. QED BY <1>0, <2>1, <3>1, OthersRely DEF Background, ActiveEvents
  <2>. QED BY <2>2, <2>3
<1>7. ASSUME NEW q \in Request, Refuse(q) \/ Fail(q) PROVE Relies(r)'
  <2>1. /\ Background /\ Release(q) /\ Forget(q)
        /\ pc' = [pc EXCEPT ![q] = "done"]
    BY <1>7, Backgrounds DEF Refuse, Fail, Answered, GoTo, Typed
  <2>2. CASE r = q
    BY <2>1, <2>2 DEF Relies, Typed, TypeOK
  <2>3. CASE r # q
    <3>1. pc'[r] = pc[r]
      BY <2>1, <2>3 DEF Typed, TypeOK
    <3>2. /\ UNCHANGED <<row, idem, input, cmd>> /\ ActiveEvents' = ActiveEvents
          /\ InService \subseteq Event
      BY <2>1 DEF Background, ActiveEvents, InService
    <3>3. /\ read'[r] = read[r]
          /\ facLock = r => facLock' = r
          /\ \A c \in Command : claim[c] = r => claim'[c] = r
          /\ \A e \in Event : rowLock[e] = r => rowLock'[e] = r
      BY <2>1, <2>3, OthersKeepLocks DEF Typed
    <3>. QED BY <1>0, <3>1, <3>2, <3>3, OthersRely
  <2>. QED BY <2>2, <2>3
<1>8. ASSUME NEW q \in Request, Commit(q) PROVE Relies(r)'
  <2>1. PICK e \in Event : Commits(q, e)
    BY <1>8, CommitEffect
  <2>2. /\ Release(q) /\ Forget(q) /\ pc' = [pc EXCEPT ![q] = "done"]
        /\ pc[q] = "locked" /\ cmd[q] \in Command
        /\ UNCHANGED <<input, cmd>> /\ \A d \in Event : d # e => row'[d] = row[d]
        /\ \A c \in Command : c # cmd[q] => idem'[c] = idem[c]
    BY <2>1 DEF Commits, GoTo, Record, Typed, TypeOK
  <2>3. CASE r = q
    BY <2>2, <2>3 DEF Relies, Typed, TypeOK
  <2>4. CASE r # q
    <3>1. pc'[r] = pc[r] /\ claim[cmd[q]] # r
      BY <1>0, <2>2, <2>4 DEF Relies, Typed, TypeOK
    <3>2. ASSUME NEW d \in InService, rowLock[d] = r PROVE row'[d] = row[d]
      <4>1. CASE Starts(q, e)
        BY <2>2, <4>1 DEF Starts, InService
      <4>2. CASE Transits(q, e)
        <5>1. rowLock[e] = q
          BY <1>0, <2>2, <4>2, Arrows DEF Relies, Transits, AskedKind, AskedEvent
        <5>. QED BY <2>2, <2>4, <3>2, <5>1 DEF InService
      <4>3. CASE Enters(q, e)
        BY <4>3 DEF Enters
      <4>. QED BY <2>1, <4>1, <4>2, <4>3 DEF Commits
    <3>3. facLock = r => ActiveEvents' = ActiveEvents
      <4>1. CASE Starts(q, e) \/ Transits(q, e)
        <5>1. facLock = q
          BY <1>0, <2>2, <4>1, Arrows DEF Relies, Starts, Transits, AskedKind
        <5>. QED BY <2>4, <5>1
      <4>2. CASE Enters(q, e)
        BY <4>2 DEF Enters, ActiveEvents
      <4>. QED BY <2>1, <4>1, <4>2 DEF Commits
    <3>4. /\ read'[r] = read[r]
          /\ facLock = r => facLock' = r
          /\ \A c \in Command : claim[c] = r => claim'[c] = r
          /\ \A d \in Event : rowLock[d] = r => rowLock'[d] = r
          /\ InService \subseteq Event
      BY <2>2, <2>4, OthersKeepLocks DEF Typed, InService
    <3>5. \A c \in Command : claim[c] = r => claim'[c] = r /\ idem'[c] = idem[c]
      BY <2>2, <3>1, <3>4
    <3>6. \A d \in InService : rowLock[d] = r => rowLock'[d] = r /\ row'[d] = row[d]
      BY <3>2, <3>4
    <3>. QED BY <1>0, <2>2, <3>1, <3>3, <3>4, <3>5, <3>6, OthersRely
  <2>. QED BY <2>3, <2>4
<1>9. CASE UNCHANGED vars
  BY <1>0, <1>9 DEF vars, records, evidence, locks, request, Relies, ActiveEvents
<1>. QED BY <1>1, <1>2, <1>3, <1>4, <1>5, <1>6, <1>7, <1>8, <1>9 DEF Next, Step
-----------------------------------------------------------------------------
(* Safety.  A step either commits one request or leaves the records alone.   *)

Unrecorded ==
    /\ UNCHANGED <<row, journal, outbox, idem, among>>
    /\ \A c \in Command : input[c] # None => input'[c] = input[c]

LEMMA StepKinds ==
    Typed /\ UnderLocks /\ [Next]_vars =>
        Unrecorded \/ \E q \in Request, e \in Event : Commits(q, e)
<1>. SUFFICES ASSUME Typed, UnderLocks, [Next]_vars
              PROVE  Unrecorded \/ \E q \in Request, e \in Event : Commits(q, e)
  OBVIOUS
<1>1. CASE PreviewActivation \/ \E e \in Event : PreviewLifecycle(e)
  BY <1>1 DEF PreviewActivation, PreviewLifecycle, records, Unrecorded
<1>2. ASSUME NEW q \in Request, NEW c \in Command, Submit(q, c) PROVE Unrecorded
  <2>1. PICK i \in Inputs(Kind[c]) :
          input[c] \in {None, i} /\ input' = [input EXCEPT ![c] = i]
    BY <1>2 DEF Submit
  <2>2. UNCHANGED <<row, journal, outbox, idem, among>>
    BY <1>2 DEF Submit, records
  <2>. QED BY <2>1, <2>2 DEF Unrecorded, Typed, TypeOK
<1>3. ASSUME NEW q \in Request,
             \/ ConfirmStart(q) \/ ConfirmEnd(q) \/ ReadServerTime(q) \/ Claim(q)
             \/ Replay(q) \/ LockRow(q) \/ LockFacility(q) \/ Refuse(q) \/ Fail(q)
      PROVE  Unrecorded
  BY <1>3, Backgrounds DEF Background, Unrecorded, Typed
<1>4. ASSUME NEW q \in Request, Commit(q) PROVE \E e \in Event : Commits(q, e)
  BY <1>4, CommitEffect
<1>5. CASE UNCHANGED vars
  BY <1>5 DEF vars, records, evidence, Unrecorded
<1>. QED BY <1>1, <1>2, <1>3, <1>4, <1>5 DEF Next, Step

LEMMA InitShown == Init => Shown
<1>. SUFFICES ASSUME Init PROVE Shown
  OBVIOUS
<1>1. PICK b \in BOOLEAN :
        row = [e \in Event |->
               IF e \in Opening
               THEN [NoRow EXCEPT !.status = "active", !.activatedAt = 1,
                                  !.preview = OpeningPreview(b)]
               ELSE NoRow]
  BY DEF Init
<1>2. OpeningPreview(b).seen = {}
  BY DEF OpeningPreview, NoPreview
<1>3. \A e \in Event : row[e].status # "none" => row[e].preview = OpeningPreview(b)
  BY <1>1 DEF NoRow
<1>. QED BY <1>2, <1>3 DEF Init, Shown

LEMMA StepShown == Typed /\ UnderLocks /\ Shown /\ [Next]_vars => Shown'
<1>. SUFFICES ASSUME Typed, UnderLocks, Shown, [Next]_vars PROVE Shown'
  OBVIOUS
<1>1. CASE Unrecorded
  BY <1>1 DEF Unrecorded, Shown
<1>2. ASSUME NEW q \in Request, NEW e \in Event, Commits(q, e) PROVE Shown'
  <2>1. pc[q] # "new" /\ row \in [Event -> RowRecord] /\ among \in [Event -> SUBSET Event]
    BY <1>2 DEF Commits, Typed, TypeOK
  <2>2. CASE Starts(q, e)
    BY <2>1, <2>2, StartedRowType DEF Starts, Shown
  <2>3. CASE Transits(q, e)
    <3>1. row[e].status # "none" /\ among' = among
      BY <2>3, Arrows DEF Transits
    <3>2. /\ row'[e].preview = row[e].preview
          /\ \A d \in Event : d # e => row'[d] = row[d]
      BY <1>2, <3>1, RowsAfter DEF Commits, InService
    <3>. QED BY <3>1, <3>2 DEF Shown
  <2>4. CASE Enters(q, e)
    BY <2>4 DEF Enters, Shown
  <2>. QED BY <1>2, <2>2, <2>3, <2>4 DEF Commits
<1>. QED BY <1>1, <1>2, StepKinds

LEMMA LocksHold == Spec => [](Typed /\ UnderLocks)
<1>1. Init => Typed /\ UnderLocks
  BY InitTyped, InitUnderLocks
<1>2. Typed /\ UnderLocks /\ [Next]_vars => (Typed /\ UnderLocks)'
  BY StepTyped, StepUnderLocks
<1>. QED BY <1>1, <1>2, PTL DEF Spec

\* Whatever runs in between, an event is started only by somebody who was
\* shown every event that was active at that moment, and all state stays well
\* typed: the list is compared under the facility lock, and only a holder of
\* that lock changes which events are active.
THEOREM ShownBeforeStart == Spec => []StartedAsShown
<1>1. Typed /\ Shown => StartedAsShown
  BY DEF Typed, Shown, StartedAsShown
<1>2. Spec => []Shown
  BY InitShown, StepShown, LocksHold, PTL DEF Spec
<1>. QED BY <1>1, <1>2, LocksHold, PTL
-----------------------------------------------------------------------------
(* The audience of an event. *)

LEMMA InitPinned == Init => OutboxAsPinned
<1>. SUFFICES ASSUME Init PROVE OutboxAsPinned
  OBVIOUS
<1>1. PICK b \in BOOLEAN :
        /\ row = [e \in Event |->
               IF e \in Opening
               THEN [NoRow EXCEPT !.status = "active", !.activatedAt = 1,
                                  !.preview = OpeningPreview(b)]
               ELSE NoRow]
        /\ outbox = [event : Opening, purpose : {"activation"}, at : {1},
                      population : {"roster"} \cup {p \in {"partner"} : b}]
  BY DEF Init
<1>2. OpeningPreview(b).partners = b
  BY DEF OpeningPreview, NoPreview
<1>3. \A e \in Opening : e \in InService /\ row[e].preview.partners = b
  BY <1>1, <1>2, LifecycleAssumption DEF NoRow, InService
<1>4. \A m \in outbox :
        /\ m.event \in Opening
        /\ m.population = "partner" => b
        /\ m.population = "roster" /\ b => [m EXCEPT !.population = "partner"] \in outbox
  BY <1>1
<1>. QED BY <1>3, <1>4 DEF OutboxAsPinned

\* The messages of one commit.
LEMMA Notified ==
    ASSUME Typed, NEW q \in Request, NEW e \in Event, Notify(q, e)
    PROVE  \A m \in outbox' \ outbox :
              /\ m.event = e
              /\ m.population = "partner" => AskedPreview(q).partners
              /\ m.population = "roster" /\ AskedPreview(q).partners =>
                    [m EXCEPT !.population = "partner"] \in outbox'
BY DEF Notify

LEMMA StepPinned ==
    Typed /\ UnderLocks /\ OutboxAsPinned /\ [Next]_vars => OutboxAsPinned'
<1>. SUFFICES ASSUME Typed, UnderLocks, OutboxAsPinned, [Next]_vars PROVE OutboxAsPinned'
  OBVIOUS
<1>1. CASE Unrecorded
  BY <1>1 DEF Unrecorded, OutboxAsPinned, InService
<1>2. ASSUME NEW q \in Request, NEW e \in Event, Commits(q, e) PROVE OutboxAsPinned'
  <2>1. /\ pc[q] # "new" /\ InService \subseteq InService' /\ e \in InService'
        /\ \A d \in InService : row'[d].preview = row[d].preview
        /\ row \in [Event -> RowRecord]
    BY <1>2, RowsAfter DEF Commits, InService, Typed, TypeOK
  <2>2. outbox \subseteq outbox'
    BY <1>2 DEF Commits, Starts, Transits, Enters, Notify
  <2>3. \A m \in outbox :
          /\ m.event \in InService'
          /\ m.population = "partner" => row'[m.event].preview.partners
          /\ m.population = "roster" /\ row'[m.event].preview.partners =>
                [m EXCEPT !.population = "partner"] \in outbox'
    BY <2>1, <2>2 DEF OutboxAsPinned
  <2>4. CASE UNCHANGED outbox
    BY <2>3, <2>4 DEF OutboxAsPinned
  <2>5. CASE Notify(q, e) /\ row'[e].preview.partners = AskedPreview(q).partners
    <3>1. \A m \in outbox' \ outbox :
            /\ m.event = e
            /\ m.population = "partner" => AskedPreview(q).partners
            /\ m.population = "roster" /\ AskedPreview(q).partners =>
                  [m EXCEPT !.population = "partner"] \in outbox'
      BY <2>5, Notified
    <3>2. \A m \in outbox' \ outbox :
            /\ m.event \in InService'
            /\ m.population = "partner" => row'[m.event].preview.partners
            /\ m.population = "roster" /\ row'[m.event].preview.partners =>
                  [m EXCEPT !.population = "partner"] \in outbox'
      BY <3>1, <2>1, <2>5
    <3>. QED BY <2>3, <3>2 DEF OutboxAsPinned
  <2>6. ASSUME Starts(q, e)
        PROVE  Notify(q, e) /\ row'[e].preview.partners = AskedPreview(q).partners
    BY <2>1, <2>6, StartedRowType DEF Starts
  <2>7. ASSUME Transits(q, e), AskedKind(q) # "close"
        PROVE  Notify(q, e) /\ row'[e].preview.partners = AskedPreview(q).partners
    <3>1. /\ AskedKind(q) \in {"all-clear", "reactivate"} /\ e = AskedEvent(q)
          /\ row[e].status # "none"
      BY <2>7, Arrows DEF Transits
    <3>2. /\ AskedPreview(q) \in preview /\ Lifecycle(AskedPreview(q))
          /\ e = AskedPreview(q).event
      BY <2>1, <3>1, AskedTypes, PurposeNames DEF Previewed, Lifecycle
    <3>3. AskedPreview(q).partners = row[e].preview.partners
      BY <3>2 DEF Typed, PreviewsSound
    <3>. QED BY <2>1, <2>7, <3>1, <3>3 DEF Transits, InService
  <2>. QED BY <1>2, <2>4, <2>5, <2>6, <2>7 DEF Commits, Transits, Enters
<1>. QED BY <1>1, <1>2, StepKinds

\* Whoever was alerted is told the end, and nobody else: all messages of an
\* event go to the audience its activation preview pinned.
THEOREM AudienceIsKept == Spec => []SameAudience
<1>1. OutboxAsPinned => SameAudience
  <2>. SUFFICES ASSUME OutboxAsPinned, NEW m \in outbox, m.population = "roster"
                PROVE  ([m EXCEPT !.population = "partner"] \in outbox) <=>
                         row[m.event].preview.partners
    BY DEF SameAudience
  <2>. DEFINE o == [m EXCEPT !.population = "partner"]
  <2>1. ASSUME o \in outbox PROVE row[m.event].preview.partners
    <3>1. o.event = m.event /\ o.population = "partner"
      OBVIOUS
    <3>. QED BY <2>1, <3>1 DEF OutboxAsPinned
  <2>. QED BY <2>1 DEF OutboxAsPinned
<1>2. Spec => []OutboxAsPinned
  BY InitPinned, StepPinned, LocksHold, PTL DEF Spec
<1>. QED BY <1>1, <1>2, PTL
-----------------------------------------------------------------------------
(* Times.  Server time is read after the preview was made.                   *)

Later(r) ==
    pc[r] \in {"claim", "row", "facility", "locked"} /\ Kind[cmd[r]] \in Previewed =>
        stamp[r] > input[cmd[r]].preview.at

LEMMA InitStamps == Init => StampsLater
BY DEF Init, StampsLater

LEMMA StepStamps == Typed /\ UnderLocks /\ StampsLater /\ [Next]_vars => StampsLater'
<1>. SUFFICES ASSUME Typed, UnderLocks, StampsLater, [Next]_vars PROVE StampsLater'
  OBVIOUS
<1>0. \A r \in Request : Later(r)
  BY DEF StampsLater, Later
<1>. SUFFICES ASSUME NEW r \in Request PROVE Later(r)'
  BY DEF StampsLater, Later
<1>1. CASE PreviewActivation \/ \E e \in Event : PreviewLifecycle(e)
  <2>1. UNCHANGED <<input, pc, cmd, stamp>>
    BY <1>1 DEF PreviewActivation, PreviewLifecycle, request
  <2>. QED BY <1>0, <2>1 DEF Later
<1>2. ASSUME NEW q \in Request, NEW c \in Command, Submit(q, c) PROVE Later(r)'
  <2>1. PICK i \in Inputs(Kind[c]) :
          input[c] \in {None, i} /\ input' = [input EXCEPT ![c] = i]
    BY <1>2 DEF Submit
  <2>2. /\ cmd' = [cmd EXCEPT ![q] = c] /\ UNCHANGED stamp
        /\ \E step : pc' = [pc EXCEPT ![q] = step] /\
                      (Kind[c] \in Previewed => step \in {"confirm", "stamp"})
    BY <1>2, Arrows DEF Submit, GoTo, Previewed
  <2>3. CASE r = q
    BY <2>2, <2>3 DEF Later, Typed, TypeOK
  <2>4. CASE r # q
    <3>1. pc'[r] = pc[r] /\ cmd'[r] = cmd[r]
      BY <2>2, <2>4 DEF Typed, TypeOK
    <3>2. pc[r] # "new" => input'[cmd[r]] = input[cmd[r]]
      BY <2>1 DEF Typed, TypeOK, Carrying
    <3>. QED BY <1>0, <2>2, <3>1, <3>2 DEF Later
  <2>. QED BY <2>3, <2>4
<1>3. ASSUME NEW q \in Request, ConfirmStart(q) \/ ReadServerTime(q) PROVE Later(r)'
  <2>1. /\ Background /\ stamp' = [stamp EXCEPT ![q] = clock + 1]
        /\ pc[q] # "new" /\ pc' = [pc EXCEPT ![q] = "claim"]
    BY <1>3, Backgrounds DEF ConfirmStart, ReadServerTime, GoTo, Typed
  <2>2. CASE r = q
    <3>1. Kind[cmd[q]] \in Previewed =>
            input[cmd[q]].preview.at =< clock /\ input[cmd[q]].preview.at \in Nat
      BY <2>1, AskedTypes DEF AskedKind, AskedPreview, PreviewRecord, Typed, PreviewsSound
    <3>2. stamp'[q] = clock + 1 /\ clock \in Nat
      BY <2>1 DEF Typed, TypeOK
    <3>. QED BY <2>1, <2>2, <3>1, <3>2 DEF Later, Background
  <2>3. CASE r # q
    <3>1. pc'[r] = pc[r] /\ stamp'[r] = stamp[r]
      BY <2>1, <2>3 DEF Typed, TypeOK
    <3>. QED BY <1>0, <2>1, <3>1 DEF Later, Background
  <2>. QED BY <2>2, <2>3
<1>4. ASSUME NEW q \in Request, Claim(q) \/ LockRow(q) \/ LockFacility(q)
      PROVE  Later(r)'
  <2>1. /\ UNCHANGED <<input, cmd, stamp>>
        /\ pc'[r] = pc[r] \/ pc[r] \in {"claim", "row", "facility"}
    BY <1>4 DEF Claim, LockRow, LockFacility, GoTo, evidence, Typed, TypeOK
  <2>. QED BY <1>0, <2>1 DEF Later
<1>5. ASSUME NEW q \in Request,
             ConfirmEnd(q) \/ Replay(q) \/ Refuse(q) \/ Fail(q) \/ Commit(q)
      PROVE  Later(r)'
  <2>1. /\ UNCHANGED <<input, cmd>>
        /\ \E step \in {"stamp", "done"} : pc' = [pc EXCEPT ![q] = step]
        /\ r # q => stamp'[r] = stamp[r]
    BY <1>5 DEF ConfirmEnd, Replay, Refuse, Fail, Commit, Answered, GoTo, Forget,
                evidence, Typed, TypeOK
  <2>2. CASE r = q
    BY <2>1, <2>2 DEF Later, Typed, TypeOK
  <2>3. CASE r # q
    <3>1. pc'[r] = pc[r]
      BY <2>1, <2>3 DEF Typed, TypeOK
    <3>. QED BY <1>0, <2>1, <2>3, <3>1 DEF Later
  <2>. QED BY <2>2, <2>3
<1>6. CASE UNCHANGED vars
  BY <1>0, <1>6 DEF vars, evidence, request, Later
<1>. QED BY <1>1, <1>2, <1>3, <1>4, <1>5, <1>6 DEF Next, Step
-----------------------------------------------------------------------------
(* The journal. *)

LEMMA LastIs ==
    ASSUME NEW n \in Nat, NEW T, T \subseteq 1..n, NEW m \in T, \A j \in T : j =< m
    PROVE  LastOf(T) = m
<1>1. LastOf(T) \in T /\ \A j \in T : j =< LastOf(T)
  BY DEF LastOf
<1>2. LastOf(T) =< m /\ m =< LastOf(T) /\ m \in 1..n /\ LastOf(T) \in 1..n
  BY <1>1
<1>. QED BY <1>2

\* What a move does to the event, and what anything else does not.
LEMMA AsOfMove ==
    ASSUME NEW e, NEW n \in Nat, n + 1 \in Moves(e, n + 1)'
    PROVE  EventAsOf(e, n + 1)' = IF journal'[e][n + 1].kind = "start" THEN "active"
                                  ELSE StateMachine[journal'[e][n + 1].kind].to
<1>. PICK T : T = Moves(e, n + 1)'
  OBVIOUS
<1>1. T \subseteq 1..(n + 1) /\ n + 1 \in T
  BY DEF Moves
<1>2. \A j \in T : j =< n + 1
  BY <1>1
<1>3. LastOf(T) = n + 1
  BY <1>1, <1>2, LastIs
<1>4. LastOf(Moves(e, n + 1)') = n + 1
  BY <1>3
<1>. QED BY <1>4 DEF EventAsOf

LEMMA AsOfEntry ==
    ASSUME NEW e, NEW n \in Nat, Moves(e, n + 1)' = Moves(e, n)'
    PROVE  EventAsOf(e, n + 1)' = EventAsOf(e, n)'
BY DEF EventAsOf

LEMMA OneEntry == ASSUME NEW x PROVE Len(<<x>>) = 1 /\ <<x>>[1] = x
OBVIOUS

LEMMA InitJournal == Init => JournalTells
<1>. SUFFICES ASSUME Init PROVE JournalTells
  OBVIOUS
<1>. DEFINE x == [kind |-> "start", cmd |-> None]
<1>1. /\ \A e \in Opening : row[e].status = "active"
      /\ \A e \in Event \ Opening : row[e].status = "none"
  BY EmptyRecords, LifecycleAssumption DEF Init, NoRow
<1>2. /\ \A e \in Opening : journal[e] = <<x>>
      /\ \A e \in Event \ Opening : journal[e] = <<>>
  <2>1. journal = [e \in Event |-> IF e \in Opening THEN <<x>> ELSE <<>>]
    BY DEF Init
  <2>2. Opening \subseteq Event
    BY LifecycleAssumption
  <2>. HIDE DEF x
  <2>. QED BY <2>1, <2>2
<1>3. ASSUME NEW e \in Opening
      PROVE  /\ Len(journal[e]) = 1 /\ journal[e][1] = x
             /\ EventAsOf(e, 1) = "active"
  <2>1. Len(journal[e]) = 1 /\ journal[e][1] = x
    <3>. HIDE DEF x
    <3>. QED BY <1>2, OneEntry
  <2>2. Moves(e, 1) = {1}
    BY <2>1 DEF Moves
  <2>3. LastOf({1}) = 1
    BY DEF LastOf
  <2>4. LastOf(Moves(e, 1)) = 1 /\ journal[e][1].kind = "start"
    BY <2>1, <2>2, <2>3
  <2>5. EventAsOf(e, 1) = "active"
    BY <2>4 DEF EventAsOf
  <2>. QED BY <2>1, <2>5
<1>4. \A e \in Event \ Opening : Len(journal[e]) = 0
  BY <1>2
<1>5. \A c \in Command : idem[c] = None
  BY DEF Init
<1>6. ASSUME NEW e \in Opening, NEW i \in 1..Len(journal[e])
      PROVE  journal[e][i].cmd = None
  <2>1. Len(journal[e]) = 1
    BY <1>3
  <2>2. i = 1
    BY <2>1
  <2>. QED BY <1>3, <2>2
<1>7. ASSUME NEW e \in Event
      PROVE  /\ (row[e].status = "none") <=> (Len(journal[e]) = 0)
             /\ Len(journal[e]) > 0 => /\ journal[e][1].kind = "start"
                                       /\ EventAsOf(e, Len(journal[e])) = row[e].status
             /\ \A i \in 1..Len(journal[e]) :
                   journal[e][i].cmd # None => input[journal[e][i].cmd] # None
  <2>1. CASE e \in Opening
    BY <2>1, <1>1, <1>3, <1>6
  <2>2. CASE e \notin Opening
    BY <2>2, <1>1, <1>4
  <2>. QED BY <2>1, <2>2
<1>. QED BY <1>5, <1>7 DEF JournalTells

\* The first entry of a journal starts the event, and so moves it.
LEMMA FirstMoves ==
    ASSUME NEW e, NEW n \in Nat, n > 0, journal[e][1].kind = "start"
    PROVE  1 \in Moves(e, n)
BY DEF Moves

\* The journal with a commit's entry leaves the event where its row is.
LEMMA ResultAfter ==
    ASSUME Typed, JournalTells, NEW q \in Request, NEW e \in Event, Commits(q, e),
           NEW n, n = Len(journal[e])
    PROVE  EventAsOf(e, n + 1)' = row'[e].status
<1>. DEFINE k == AskedKind(q)
<1>1. /\ n \in Nat /\ journal'[e][n + 1] = Entry(q) /\ Entry(q).kind = k
      /\ \A i \in 1..n : journal'[e][i] = journal[e][i]
      /\ Moves(e, n)' = Moves(e, n)
      /\ Moves(e, n + 1)' =
           Moves(e, n) \cup (IF k \in {"start"} \cup Transitions THEN {n + 1} ELSE {})
  BY JournalsAfter DEF Entry
<1>2. /\ pc[q] # "new" /\ row \in [Event -> RowRecord] /\ stamp[q] \in Nat
      /\ row[e] \in RowRecord
  BY StampType DEF Commits, Typed, TypeOK
<1>3. ASSUME k \in {"start"} \cup Transitions
      PROVE  EventAsOf(e, n + 1)' = IF k = "start" THEN "active" ELSE StateMachine[k].to
  <2>1. n + 1 \in Moves(e, n + 1)'
    BY <1>1, <1>3
  <2>. QED BY <1>1, <2>1, AsOfMove
<1>4. CASE Starts(q, e)
  <2>1. k = "start" /\ row'[e] = StartedRow(q)
    BY <1>2, <1>4 DEF Starts
  <2>. QED BY <1>2, <1>3, <2>1, StartedRowType
<1>5. CASE Transits(q, e)
  <2>1. k \in Transitions /\ row'[e] = Moved(row[e], k, stamp[q])
    BY <1>2, <1>5 DEF Transits
  <2>2. Moved(row[e], k, stamp[q]).status = StateMachine[k].to
    BY <1>2, <2>1, MovedType
  <2>3. k # "start"
    BY <2>1, Arrows
  <2>. QED BY <1>3, <2>1, <2>2, <2>3
<1>6. CASE Enters(q, e)
  <2>1. row[e].status # "none" /\ row' = row /\ k \notin {"start"} \cup Transitions
    BY <1>6, Arrows DEF Enters
  <2>2. n > 0 /\ journal[e][1].kind = "start" /\ EventAsOf(e, n) = row[e].status
    BY <1>1, <2>1 DEF JournalTells
  <2>3. EventAsOf(e, n)' = EventAsOf(e, n)
    BY <1>1, <2>2, FirstMoves, PastStands
  <2>4. EventAsOf(e, n + 1)' = EventAsOf(e, n)'
    BY <1>1, <2>1, AsOfEntry
  <2>. QED BY <2>1, <2>2, <2>3, <2>4
<1>. QED BY <1>4, <1>5, <1>6 DEF Commits

\* What the journals say of an event, and the records of what.
Tells(e) ==
    /\ (row[e].status = "none") <=> (Len(journal[e]) = 0)
    /\ Len(journal[e]) > 0 => /\ journal[e][1].kind = "start"
                              /\ EventAsOf(e, Len(journal[e])) = row[e].status
    /\ \A i \in 1..Len(journal[e]) :
          journal[e][i].cmd # None => input[journal[e][i].cmd] # None

LEMMA StepJournal == Typed /\ UnderLocks /\ JournalTells /\ [Next]_vars => JournalTells'
<1>. SUFFICES ASSUME Typed, UnderLocks, JournalTells, [Next]_vars PROVE JournalTells'
  OBVIOUS
<1>0. /\ \A e \in Event : Tells(e)
      /\ \A c \in Command : idem[c] # None =>
            idem[c].upto \in 1..Len(journal[idem[c].event])
      /\ \A e \in Event : \A i \in 1..Len(journal[e]) :
            journal[e][i].cmd \in Command \cup {None}
  <2>. DEFINE S == [kind : Kinds, cmd : Command \cup {None}]
  <2>1. journal \in [Event -> Seq(S)] /\ \A x \in S : x.cmd \in Command \cup {None}
    BY DEF Typed, TypeOK
  <2>2. \A e \in Event : \A i \in 1..Len(journal[e]) :
            journal[e][i].cmd \in Command \cup {None}
    <3>. HIDE DEF S
    <3>1. \A e \in Event : \A i \in 1..Len(journal[e]) : journal[e][i] \in S
      BY <2>1
    <3>. QED BY <2>1, <3>1
  <2>. QED BY <2>2 DEF JournalTells, Tells
<1>. SUFFICES /\ \A e \in Event : Tells(e)'
              /\ \A c \in Command : idem'[c] # None =>
                    idem'[c].upto \in 1..Len(journal'[idem'[c].event])
  BY DEF JournalTells, Tells
<1>1. CASE Unrecorded
  <2>1. UNCHANGED <<row, journal, idem>>
    BY <1>1 DEF Unrecorded
  <2>2. ASSUME NEW e \in Event PROVE Tells(e)'
    <3>1. EventAsOf(e, Len(journal[e]))' = EventAsOf(e, Len(journal[e]))
      BY <2>1 DEF EventAsOf, Moves
    <3>2. \A i \in 1..Len(journal[e]) :
            journal[e][i].cmd # None => input'[journal[e][i].cmd] # None
      BY <1>0, <1>1 DEF Unrecorded, Tells
    <3>. QED BY <1>0, <2>1, <3>1, <3>2 DEF Tells
  <2>. QED BY <1>0, <2>1, <2>2
<1>2. ASSUME NEW q \in Request, NEW e \in Event, Commits(q, e)
      PROVE  /\ \A d \in Event : Tells(d)'
             /\ \A c \in Command : idem'[c] # None =>
                   idem'[c].upto \in 1..Len(journal'[idem'[c].event])
  <2>. PICK n : n = Len(journal[e])
    OBVIOUS
  <2>1. /\ n \in Nat /\ Len(journal'[e]) = n + 1 /\ journal'[e][n + 1] = Entry(q)
        /\ \A i \in 1..n : journal'[e][i] = journal[e][i]
        /\ \A d \in Event : d # e => journal'[d] = journal[d]
    BY <1>2, JournalsAfter
  <2>2. /\ row'[e].status # "none" /\ \A d \in Event : d # e => row'[d] = row[d]
        /\ input' = input /\ cmd[q] \in Command /\ input[cmd[q]] # None
        /\ Entry(q).kind = AskedKind(q) /\ Entry(q).cmd = cmd[q]
        /\ idem' = [idem EXCEPT ![cmd[q]] = [event |-> e, upto |-> n + 1]]
    BY <1>2, RowsAfter DEF Commits, Typed, Carrying, Entry, Record
  <2>3. Tells(e)'
    <3>1. journal'[e][1].kind = "start"
      <4>1. CASE n = 0
        <5>1. row[e].status = "none"
          BY <1>0, <4>1 DEF Tells
        <5>2. AskedKind(q) = "start"
          BY <1>2, <5>1, Arrows DEF Commits, Starts, Transits, Enters
        <5>. QED BY <2>1, <2>2, <4>1, <5>2
      <4>2. CASE n > 0
        BY <1>0, <2>1, <4>2 DEF Tells
      <4>. QED BY <2>1, <4>1, <4>2
    <3>2. EventAsOf(e, n + 1)' = row'[e].status
      BY <1>2, ResultAfter
    <3>3. ASSUME NEW i \in 1..(n + 1), journal'[e][i].cmd # None
          PROVE  input'[journal'[e][i].cmd] # None
      <4>1. CASE i = n + 1
        BY <2>1, <2>2, <4>1
      <4>2. CASE i \in 1..n
        BY <1>0, <2>1, <2>2, <3>3, <4>2 DEF Tells
      <4>. QED BY <2>1, <4>1, <4>2
    <3>. QED BY <2>1, <2>2, <3>1, <3>2, <3>3 DEF Tells
  <2>4. ASSUME NEW d \in Event, d # e PROVE Tells(d)'
    <3>1. journal'[d] = journal[d] /\ row'[d] = row[d] /\ input' = input
      BY <2>1, <2>2, <2>4
    <3>2. EventAsOf(d, Len(journal[d]))' = EventAsOf(d, Len(journal[d]))
      BY <3>1 DEF EventAsOf, Moves
    <3>. QED BY <1>0, <3>1, <3>2 DEF Tells
  <2>5. ASSUME NEW c \in Command, idem'[c] # None
        PROVE  idem'[c].upto \in 1..Len(journal'[idem'[c].event])
    <3>1. CASE c = cmd[q]
      BY <2>1, <2>2, <3>1 DEF Typed, TypeOK
    <3>2. CASE c # cmd[q]
      <4>1. idem'[c] = idem[c] /\ idem[c].event \in Event
        BY <2>2, <2>5, <3>2 DEF Typed, TypeOK, IdemRecord
      <4>2. idem[c].upto \in 1..Len(journal[idem[c].event])
        BY <1>0, <2>5, <4>1
      <4>. QED BY <2>1, <4>1, <4>2
    <3>. QED BY <3>1, <3>2
  <2>. QED BY <2>3, <2>4, <2>5
<1>. QED BY <1>1, <1>2, StepKinds
-----------------------------------------------------------------------------
(* The previews of an event, in the order of its states. *)

InOrder(p) ==
    Lifecycle(p) =>
        /\ \A o \in preview :
              Lifecycle(o) /\ o.event = p.event /\ o.epoch < p.epoch => o.at < p.at
        /\ p.epoch = Epoch(p.event) => row[p.event].status = From(p.purpose)
        /\ row[p.event].status = From(p.purpose)
              /\ p.at >= StateChangedAt(row[p.event], p.purpose)
           => p.epoch = Epoch(p.event)

\* A preview that matches the row was made in the state the event is in.
LEMMA MatchIsCurrent ==
    ASSUME Typed, PreviewsInOrder, NEW q \in Request, NEW e \in Event,
           Commits(q, e), Transits(q, e), AskedKind(q) # "close"
    PROVE  /\ AskedKind(q) \in {"all-clear", "reactivate"}
           /\ AskedPreview(q) \in preview /\ Lifecycle(AskedPreview(q))
           /\ AskedPreview(q).event = e /\ AskedPreview(q).epoch = Epoch(e)
           /\ AskedPreview(q).purpose = Purpose(AskedKind(q))
<1>. DEFINE k == AskedKind(q)
            p == AskedPreview(q)
<1>1. /\ k \in {"all-clear", "reactivate"} /\ row[e].status = StateMachine[k].from
      /\ PreviewMatches(p, e, row[e], Purpose(k))
  BY Arrows DEF Transits
<1>2. pc[q] # "new"
  BY DEF Commits
<1>3. p \in preview /\ p.purpose = Purpose(k)
  BY <1>1, <1>2, AskedTypes DEF Previewed
<1>4. /\ Purpose(k) \in {"all-clear", "reactivation"}
      /\ From(Purpose(k)) = StateMachine[k].from
  BY <1>1, PurposeNames, Arrows DEF From
<1>5. p.event = e /\ p.at >= StateChangedAt(row[e], p.purpose)
  BY <1>1, <1>3 DEF PreviewMatches
<1>6. Lifecycle(p) /\ p.epoch = Epoch(e)
  BY <1>1, <1>3, <1>4, <1>5 DEF Lifecycle, PreviewsInOrder
<1>. QED BY <1>1, <1>3, <1>5, <1>6

LEMMA StepOrder ==
    Typed /\ UnderLocks /\ StampsLater /\ PreviewsInOrder /\ [Next]_vars => PreviewsInOrder'
<1>. SUFFICES ASSUME Typed, UnderLocks, StampsLater, PreviewsInOrder, [Next]_vars
              PROVE  PreviewsInOrder'
  OBVIOUS
<1>0. \A p \in preview :
        /\ InOrder(p) /\ p \in PreviewRecord /\ p.at =< clock
        /\ Lifecycle(p) => p.event \in InService /\ p.epoch =< Epoch(p.event)
  BY DEF PreviewsInOrder, InOrder, Typed, TypeOK, PreviewsSound
<1>. SUFFICES \A p \in preview' : InOrder(p)'
  BY DEF PreviewsInOrder, InOrder
<1>1. ASSUME UNCHANGED <<row, journal>>,
             \A p \in preview' \ preview : ~Lifecycle(p)
      PROVE  \A p \in preview' : InOrder(p)'
  <2>1. \A e : Epoch(e)' = Epoch(e)
    BY <1>1 DEF Epoch, Moves
  <2>. QED BY <1>0, <1>1, <2>1 DEF InOrder
<1>2. ASSUME NEW e \in Event, PreviewLifecycle(e)
      PROVE  \A p \in preview' : InOrder(p)'
  <2>1. PICK purpose \in {"all-clear", "reactivation"}, b \in PartnersReached(e) :
          /\ row[e].status = IF purpose = "all-clear" THEN "active" ELSE "all-clear"
          /\ preview' = preview \cup
                 {[NoPreview EXCEPT !.purpose = purpose, !.event = e,
                      !.partners = b, !.at = clock + 1, !.epoch = Epoch(e)]}
    BY <1>2, Zenon DEF PreviewLifecycle
  <2>0. PICK new : new = [NoPreview EXCEPT !.purpose = purpose, !.event = e,
                             !.partners = b, !.at = clock + 1, !.epoch = Epoch(e)]
    OBVIOUS
  <2>2. /\ preview' = preview \cup {new} /\ new.purpose = purpose /\ new.event = e
        /\ new.at = clock + 1 /\ new.epoch = Epoch(e)
        /\ row[e].status = From(purpose)
    BY <2>0, <2>1 DEF NoPreview, From
  <2>3. /\ UNCHANGED <<row, journal>> /\ clock \in Nat
        /\ \A p \in preview : p.at \in Nat /\ p.epoch \in Nat
    BY <1>0, <1>2 DEF PreviewLifecycle, records, Typed, TypeOK, PreviewRecord
  <2>4. \A d : Epoch(d)' = Epoch(d)
    BY <2>3 DEF Epoch, Moves
  <2>5. Epoch(e) \in Nat
    <3>1. Len(journal[e]) \in Nat
      BY DEF Typed, TypeOK
    <3>. QED BY <3>1, MovesFinite DEF Epoch
  <2>6. ASSUME NEW p \in preview PROVE InOrder(p)'
    <3>1. Lifecycle(p) /\ p.event = e => p.epoch =< Epoch(e)
      BY <1>0
    <3>2. ASSUME Lifecycle(p), NEW o \in preview', Lifecycle(o), o.event = p.event,
                 o.epoch < p.epoch
          PROVE  o.at < p.at
      <4>1. CASE o = new
        BY <2>2, <2>3, <2>5, <3>1, <3>2, <4>1
      <4>2. CASE o \in preview
        BY <1>0, <3>2, <4>2 DEF InOrder
      <4>. QED BY <2>2, <4>1, <4>2
    <3>. QED BY <1>0, <2>3, <2>4, <3>2 DEF InOrder
  <2>7. InOrder(new)'
    <3>1. ASSUME NEW o \in preview', o.epoch < new.epoch PROVE o.at < new.at
      <4>1. o # new
        BY <2>2, <2>5, <3>1
      <4>2. o \in preview /\ o.at =< clock /\ o.at \in Nat
        BY <1>0, <2>2, <2>3, <4>1
      <4>. QED BY <2>2, <2>3, <4>2
    <3>. QED BY <2>2, <2>3, <2>4, <3>1 DEF InOrder
  <2>. QED BY <2>2, <2>6, <2>7
<1>3. ASSUME NEW q \in Request, NEW e \in Event, Commits(q, e)
      PROVE  \A p \in preview' : InOrder(p)'
  <2>. SUFFICES ASSUME NEW p \in preview PROVE InOrder(p)'
    BY <1>3 DEF Commits
  <2>1. /\ preview' = preview /\ pc[q] = "locked"
        /\ row \in [Event -> RowRecord] /\ stamp[q] \in Nat
        /\ \A d \in Event : d # e => row'[d] = row[d]
    BY <1>3, StampType DEF Commits, Typed, TypeOK
  <2>2. /\ \A d \in Event : d # e => Epoch(d)' = Epoch(d)
        /\ Epoch(e) \in Nat
        /\ Epoch(e)' = IF AskedKind(q) \in {"start"} \cup Transitions
                       THEN Epoch(e) + 1 ELSE Epoch(e)
    <3>. PICK n : n = Len(journal[e])
      OBVIOUS
    <3>. QED BY <1>3, JournalsAfter
  <2>3. Lifecycle(p) => p.event \in Event /\ row[p.event].status # "none"
    BY <1>0 DEF InService
  <2>4. CASE p.event # e
    BY <1>0, <2>1, <2>2, <2>3, <2>4 DEF InOrder
  <2>5. CASE Enters(q, e)
    <3>1. row' = row /\ AskedKind(q) \notin {"start"} \cup Transitions
      BY <2>5, Arrows DEF Enters
    <3>2. \A d \in Event : Epoch(d)' = Epoch(d)
      BY <2>2, <3>1
    <3>. QED BY <1>0, <2>1, <2>3, <3>1, <3>2 DEF InOrder
  <2>6. CASE Starts(q, e) /\ p.event = e
    BY <2>3, <2>6 DEF Starts, InOrder
  <2>7. CASE Transits(q, e) /\ p.event = e /\ Lifecycle(p)
    <3>. DEFINE k == AskedKind(q)
                r == Moved(row[e], k, stamp[q])
                pq == AskedPreview(q)
    <3>1. /\ k \in Transitions /\ row'[e] = r
          /\ row[e].status = StateMachine[k].from
      BY <2>1, <2>7 DEF Transits
    <3>2. /\ r.status = StateMachine[k].to
          /\ r.allClearAt = IF k = "all-clear" THEN stamp[q] ELSE row[e].allClearAt
          /\ r.reactivatedAt =
                 IF k = "reactivate" THEN stamp[q] ELSE row[e].reactivatedAt
      <4>1. row[e] \in RowRecord
        BY <2>1
      <4>. QED BY <2>1, <3>1, <4>1, MovedType
    <3>3. p.epoch \in Nat /\ p.epoch =< Epoch(e) /\ p.at \in Nat
      BY <1>0, <2>7 DEF PreviewRecord
    <3>4. p.epoch # Epoch(e)'
      BY <2>2, <3>1, <3>3
    <3>5. ASSUME r.status = From(p.purpose) PROVE p.at < StateChangedAt(r, p.purpose)
      <4>1. /\ k \in {"all-clear", "reactivate"} /\ row[e].status # From(p.purpose)
            /\ StateMachine[k].to = From(p.purpose)
        <5>1. StateMachine[k].to = From(p.purpose)
          BY <3>2, <3>5
        <5>2. /\ From(p.purpose) \in {"active", "all-clear"}
              /\ k = "close" => StateMachine[k].to = "closed"
              /\ k \in Transitions => StateMachine[k].from # StateMachine[k].to
          BY Arrows DEF From
        <5>3. k \in {"all-clear", "reactivate"}
          BY <3>1, <5>1, <5>2, Arrows
        <5>. QED BY <3>1, <5>1, <5>2, <5>3
      <4>2. /\ pq \in preview /\ Lifecycle(pq) /\ pq.event = e /\ pq.epoch = Epoch(e)
        BY <1>3, <2>7, <4>1, MatchIsCurrent
      <4>3. p.epoch < Epoch(e)
        BY <1>0, <2>2, <2>7, <3>3, <4>1 DEF InOrder
      <4>4. p.at < pq.at
        BY <1>0, <2>7, <4>2, <4>3 DEF InOrder
      <4>5. stamp[q] > pq.at
        BY <2>1, <4>1 DEF StampsLater, AskedKind, AskedPreview, Previewed
      <4>6. pq.at \in Nat /\ p.at < stamp[q] /\ stamp[q] # 0
        BY <1>0, <2>1, <3>3, <4>2, <4>4, <4>5 DEF PreviewRecord
      <4>7. StateChangedAt(r, p.purpose) = stamp[q]
        <5>1. CASE k = "all-clear"
          <6>1. p.purpose = "reactivation"
            BY <2>7, <4>1, <5>1, Arrows DEF Lifecycle, From
          <6>. QED BY <3>2, <5>1, <6>1 DEF StateChangedAt
        <5>2. CASE k = "reactivate"
          <6>1. p.purpose = "all-clear"
            BY <2>7, <4>1, <5>2, Arrows DEF Lifecycle, From
          <6>. QED BY <3>2, <4>6, <5>2, <6>1 DEF StateChangedAt
        <5>. QED BY <4>1, <5>1, <5>2
      <4>. QED BY <4>6, <4>7
    <3>6. ~(r.status = From(p.purpose) /\ p.at >= StateChangedAt(r, p.purpose))
      <4>1. ASSUME r.status = From(p.purpose) PROVE StateChangedAt(r, p.purpose) \in Nat
        <5>1. r \in RowRecord
          BY <2>1, <3>1, MovedType
        <5>. HIDE DEF r
        <5>. QED BY <5>1 DEF StateChangedAt, RowRecord
      <4>. HIDE DEF r
      <4>. QED BY <3>3, <3>5, <4>1
    <3>. QED BY <1>0, <2>1, <2>7, <3>1, <3>4, <3>6 DEF InOrder
  <2>8. CASE ~Lifecycle(p)
    BY <2>8 DEF InOrder
  <2>. QED BY <1>3, <2>4, <2>5, <2>6, <2>7, <2>8 DEF Commits
<1>4. CASE PreviewActivation
  <2>1. \A p \in preview' \ preview : p.purpose = "activation"
    BY <1>4 DEF PreviewActivation, NoPreview
  <2>2. UNCHANGED <<row, journal>>
    BY <1>4 DEF PreviewActivation, records
  <2>. QED BY <1>1, <2>1, <2>2 DEF Lifecycle
<1>5. ASSUME UNCHANGED <<row, journal, preview>> PROVE \A p \in preview' : InOrder(p)'
  BY <1>1, <1>5
<1>6. ASSUME NEW q \in Request, NEW c \in Command, Submit(q, c)
      PROVE  UNCHANGED <<row, journal, preview>>
  BY <1>6 DEF Submit, records
<1>7. ASSUME NEW q \in Request,
             \/ ConfirmStart(q) \/ ConfirmEnd(q) \/ ReadServerTime(q) \/ Claim(q)
             \/ Replay(q) \/ LockRow(q) \/ LockFacility(q) \/ Refuse(q) \/ Fail(q)
      PROVE  UNCHANGED <<row, journal, preview>>
  BY <1>7, Backgrounds DEF Background, Typed
<1>8. UNCHANGED vars => UNCHANGED <<row, journal, preview>>
  BY DEF vars, records, evidence
<1>9. ASSUME NEW q \in Request, Commit(q) PROVE \E e \in Event : Commits(q, e)
  BY <1>9, CommitEffect
<1>. QED BY <1>2, <1>3, <1>4, <1>5, <1>6, <1>7, <1>8, <1>9 DEF Next, Step

\* An all-clear or a reactivation on record, and the state it ended.
Ends(e, i) ==
    journal[e][i].cmd # None /\ journal[e][i].kind \in {"all-clear", "reactivate"} =>
        input[journal[e][i].cmd].preview.epoch = Cardinality(Moves(e, i - 1))
EndsInState == \A e \in Event : \A i \in 1..Len(journal[e]) : Ends(e, i)

LEMMA InitOrder == Init => PreviewsInOrder
BY DEF Init, PreviewsInOrder

LEMMA InitEnds == Init => EndsInState
<1>. SUFFICES ASSUME Init, NEW e \in Event, NEW i \in 1..Len(journal[e])
              PROVE  journal[e][i].cmd = None
  BY DEF EndsInState, Ends
<1>. DEFINE x == [kind |-> "start", cmd |-> None]
<1>1. journal[e] = <<x>> \/ journal[e] = <<>>
  <2>1. journal = [d \in Event |-> IF d \in Opening THEN <<x>> ELSE <<>>]
    BY DEF Init
  <2>. HIDE DEF x
  <2>. QED BY <2>1
<1>2. Len(journal[e]) = 1 /\ journal[e][1] = x
  <2>. HIDE DEF x
  <2>1. journal[e] = <<x>>
    BY <1>1
  <2>. QED BY <2>1, OneEntry
<1>3. i = 1
  BY <1>2
<1>. QED BY <1>2, <1>3

LEMMA StepEnds ==
    /\ Typed /\ UnderLocks /\ JournalTells /\ PreviewsInOrder /\ EndsInState
    /\ [Next]_vars
    => EndsInState'
<1>. SUFFICES ASSUME Typed, UnderLocks, JournalTells, PreviewsInOrder, EndsInState,
                     [Next]_vars
              PROVE  EndsInState'
  OBVIOUS
<1>0. \A e \in Event : \A i \in 1..Len(journal[e]) :
        /\ Ends(e, i) /\ journal[e][i].cmd \in Command \cup {None}
        /\ journal[e][i].cmd # None => input[journal[e][i].cmd] # None
  <2>. DEFINE S == [kind : Kinds, cmd : Command \cup {None}]
  <2>1. journal \in [Event -> Seq(S)] /\ \A x \in S : x.cmd \in Command \cup {None}
    BY DEF Typed, TypeOK
  <2>2. \A e \in Event : \A i \in 1..Len(journal[e]) :
            journal[e][i].cmd \in Command \cup {None}
    <3>. HIDE DEF S
    <3>1. \A e \in Event : \A i \in 1..Len(journal[e]) : journal[e][i] \in S
      BY <2>1
    <3>. QED BY <2>1, <3>1
  <2>. QED BY <2>2 DEF JournalTells, EndsInState
<1>1. ASSUME NEW e \in Event, NEW i \in 1..Len(journal[e]),
             \A j \in 1..i : journal'[e][j] = journal[e][j],
             \A c \in Command : input[c] # None => input'[c] = input[c]
      PROVE  Ends(e, i)'
  <2>1. i \in Nat /\ i - 1 \in Nat /\ i \in 1..i
    BY DEF Typed, TypeOK
  <2>2. Moves(e, i - 1)' = Moves(e, i - 1)
    BY <1>1, <2>1, PastStands
  <2>3. journal'[e][i] = journal[e][i]
    BY <1>1, <2>1
  <2>4. journal[e][i].cmd # None => input'[journal[e][i].cmd] = input[journal[e][i].cmd]
    BY <1>0, <1>1
  <2>. QED BY <1>0, <2>2, <2>3, <2>4 DEF Ends
<1>2. CASE Unrecorded
  <2>1. journal' = journal /\ \A c \in Command : input[c] # None => input'[c] = input[c]
    BY <1>2 DEF Unrecorded
  <2>. QED BY <1>1, <2>1 DEF EndsInState
<1>3. ASSUME NEW q \in Request, NEW e \in Event, Commits(q, e) PROVE EndsInState'
  <2>. PICK n : n = Len(journal[e])
    OBVIOUS
  <2>1. /\ n \in Nat /\ Len(journal'[e]) = n + 1 /\ journal'[e][n + 1] = Entry(q)
        /\ \A i \in 1..n : journal'[e][i] = journal[e][i]
        /\ \A d \in Event : d # e => journal'[d] = journal[d]
        /\ Moves(e, n)' = Moves(e, n)
    BY <1>3, JournalsAfter
  <2>2. input' = input /\ Entry(q).kind = AskedKind(q) /\ Entry(q).cmd = cmd[q]
    BY <1>3 DEF Commits, Entry
  <2>3. ASSUME AskedKind(q) \in {"all-clear", "reactivate"}
        PROVE  input[cmd[q]].preview.epoch = Cardinality(Moves(e, n))
    <3>1. Transits(q, e) /\ AskedKind(q) # "close"
      BY <1>3, <2>3 DEF Commits, Starts, Enters
    <3>2. AskedPreview(q).epoch = Epoch(e)
      BY <1>3, <3>1, MatchIsCurrent
    <3>. QED BY <3>2 DEF AskedPreview, Epoch
  <2>4. Ends(e, n + 1)'
    BY <2>1, <2>2, <2>3 DEF Ends
  <2>5. ASSUME NEW i \in 1..(n + 1) PROVE Ends(e, i)'
    <3>1. CASE i = n + 1
      BY <2>4, <3>1
    <3>2. CASE i \in 1..n
      <4>1. \A j \in 1..i : j \in 1..n
        BY <2>1, <3>2
      <4>. QED BY <1>1, <2>1, <2>2, <3>2, <4>1
    <3>. QED BY <2>1, <3>1, <3>2
  <2>6. ASSUME NEW d \in Event, d # e, NEW i \in 1..Len(journal[d]) PROVE Ends(d, i)'
    BY <1>1, <2>1, <2>2, <2>6
  <2>. QED BY <2>1, <2>5, <2>6 DEF EndsInState
<1>. QED BY <1>2, <1>3, StepKinds

LEMMA HistoryHolds == Spec => [](JournalTells /\ StampsLater /\ PreviewsInOrder)
<1>1. Init => JournalTells /\ StampsLater /\ PreviewsInOrder
  BY InitJournal, InitStamps, InitOrder
<1>2. /\ Typed /\ UnderLocks /\ JournalTells /\ StampsLater /\ PreviewsInOrder
      /\ [Next]_vars
      => (JournalTells /\ StampsLater /\ PreviewsInOrder)'
  BY StepJournal, StepStamps, StepOrder
<1>. QED BY <1>1, <1>2, LocksHold, PTL DEF Spec

\* An all-clear or a reactivation follows a preview made in the very state it
\* ends, however often the event was reactivated in between: what decides is
\* the order of the stamps of previews, server times and rows.
THEOREM PreviewsAreCurrent == Spec => []PreviewedInItsState
<1>1. TypeOK /\ EndsInState => PreviewedInItsState
  <2>. SUFFICES ASSUME TypeOK, EndsInState, NEW e \in Event, NEW i \in DOMAIN journal[e]
                PROVE  Ends(e, i)
    BY DEF PreviewedInItsState, Ends
  <2>1. i \in 1..Len(journal[e])
    BY DEF TypeOK
  <2>. QED BY <2>1 DEF EndsInState
<1>2. Typed => TypeOK
  BY DEF Typed
<1>3. Spec => []EndsInState
  BY InitEnds, StepEnds, LocksHold, HistoryHolds, PTL DEF Spec
<1>. QED BY <1>1, <1>2, <1>3, LocksHold, PTL
-----------------------------------------------------------------------------
(* The commands are atomic.  A commit is the atomic command, a replay tells   *)
(* its result again, and every other step is invisible to a client.           *)

DoneBar == [c \in Command |->
                IF idem[c] = None THEN None
                ELSE [event |-> idem[c].event,
                      status |-> EventAsOf(idem[c].event, idem[c].upto)]]
ToldBar == {<<cmd[q], answer[q].result>> : q \in {q \in Request : answer[q].kind = "done"}}
StatusBar == [e \in Event |-> row[e].status]

LEMMA AsOfType ==
    ASSUME NEW e, NEW n \in Nat, 1 \in Moves(e, n)
    PROVE  EventAsOf(e, n) \in RowStatuses
<1>1. Moves(e, n) \subseteq 1..n /\ Moves(e, n) # {}
  BY DEF Moves
<1>2. LastOf(Moves(e, n)) \in Moves(e, n)
  BY <1>1, LastEntry DEF LastOf
<1>3. journal[e][LastOf(Moves(e, n))].kind \in {"start"} \cup Transitions
  BY <1>2 DEF Moves
<1>. QED BY <1>3, Arrows DEF EventAsOf, RowStatuses

\* Results on record are results, of an event that is in service.
LEMMA ResultType ==
    ASSUME TypeOK, JournalTells, NEW c \in Command, idem[c] # None
    PROVE  /\ idem[c].event \in Event /\ idem[c].upto \in Nat
           /\ idem[c].upto =< Len(journal[idem[c].event])
           /\ 1 \in Moves(idem[c].event, idem[c].upto)
           /\ DoneBar[c] = Hydrated(idem[c]) /\ DoneBar[c] # None
<1>. DEFINE d == idem[c].event
            u == idem[c].upto
<1>1. idem[c] \in IdemRecord /\ Len(journal[idem[c].event]) \in Nat
  BY DEF TypeOK, IdemRecord
<1>2. d \in Event /\ u \in 1..Len(journal[d])
  BY <1>1 DEF IdemRecord, JournalTells
<1>3. u \in Nat /\ u > 0 /\ u =< Len(journal[d])
  BY <1>1, <1>2
<1>4. 1 \in Moves(d, u)
  <2>1. journal[d][1].kind = "start"
    BY <1>1, <1>2, <1>3 DEF JournalTells
  <2>. QED BY <1>3, <2>1, FirstMoves
<1>5. DoneBar[c] = Hydrated(idem[c])
  BY DEF DoneBar, Hydrated
<1>6. Hydrated(idem[c]) # None
  <2>1. EventAsOf(d, u) \in RowStatuses
    BY <1>3, <1>4, AsOfType
  <2>2. Hydrated(idem[c]) \in [event : Event, status : RowStatuses]
    BY <1>2, <2>1 DEF Hydrated
  <2>. QED BY <2>2, NoneAssumption
<1>. QED BY <1>2, <1>3, <1>4, <1>5, <1>6

\* What clients were told changes only when a request is told of success.
LEMMA ToldStands ==
    ASSUME \A r \in Request :
              /\ answer'[r].kind = "done" <=> answer[r].kind = "done"
              /\ answer[r].kind = "done" => /\ cmd'[r] = cmd[r]
                                            /\ answer'[r] = answer[r]
    PROVE  ToldBar' = ToldBar
BY DEF ToldBar

LEMMA ToldOnce ==
    ASSUME Typed, NEW q \in Request, pc[q] # "done", NEW result,
           answer' = [answer EXCEPT ![q] = Told("done", result)], cmd' = cmd
    PROVE  ToldBar' = ToldBar \cup {<<cmd[q], result>>}
<1>1. /\ answer = [r \in Request |-> answer[r]] /\ answer[q].kind = "none"
  BY DEF Typed, Carrying
<1>2. /\ answer'[q].kind = "done" /\ answer'[q].result = result
      /\ \A r \in Request : r # q => answer'[r] = answer[r]
  BY <1>1 DEF Told
<1>. QED BY <1>1, <1>2 DEF ToldBar

\* Steps that are neither a commit nor a replay tell nobody of success.
LEMMA OthersTellNothing ==
    ASSUME Typed, UnderLocks, [Next]_vars,
           ~\E q \in Request : Commit(q) \/ Replay(q)
    PROVE  ToldBar' = ToldBar /\ UNCHANGED <<row, journal, idem>>
<1>. DEFINE Same == \A r \in Request :
                       /\ answer'[r].kind = "done" <=> answer[r].kind = "done"
                       /\ answer[r].kind = "done" => /\ cmd'[r] = cmd[r]
                                                     /\ answer'[r] = answer[r]
<1>1. CASE PreviewActivation \/ \E e \in Event : PreviewLifecycle(e)
  <2>1. UNCHANGED <<row, journal, idem, cmd, answer>>
    BY <1>1 DEF PreviewActivation, PreviewLifecycle, request, records
  <2>. QED BY <2>1, ToldStands
<1>2. ASSUME NEW q \in Request, NEW c \in Command, Submit(q, c)
      PROVE  Same /\ UNCHANGED <<row, journal, idem>>
  <2>1. /\ pc[q] = "new" /\ cmd' = [cmd EXCEPT ![q] = c]
        /\ UNCHANGED <<answer, row, journal, idem>>
    BY <1>2 DEF Submit, records
  <2>2. answer[q].kind = "none" /\ \A r \in Request : r # q => cmd'[r] = cmd[r]
    BY <2>1 DEF Typed, TypeOK, Carrying
  <2>. QED BY <2>1, <2>2
<1>3. ASSUME NEW q \in Request,
             \/ ConfirmStart(q) \/ ReadServerTime(q) \/ Claim(q) \/ LockRow(q)
             \/ LockFacility(q)
      PROVE  Same /\ UNCHANGED <<row, journal, idem>>
  <2>1. UNCHANGED <<row, journal, idem, cmd, answer>>
    BY <1>3 DEF ConfirmStart, ReadServerTime, Claim, LockRow, LockFacility, records
  <2>. QED BY <2>1
<1>4. ASSUME NEW q \in Request, ConfirmEnd(q) \/ Refuse(q) \/ Fail(q)
      PROVE  Same /\ UNCHANGED <<row, journal, idem>>
  <2>1. /\ pc[q] # "done" /\ UNCHANGED <<row, journal, idem, cmd>>
        /\ answer' = answer \/ \E kind \in {"refused", "failed"} :
                                  answer' = [answer EXCEPT ![q] = Told(kind, None)]
    BY <1>4 DEF ConfirmEnd, Refuse, Fail, Answered, records
  <2>2. answer[q].kind = "none" /\ answer = [r \in Request |-> answer[r]]
    BY <2>1 DEF Typed, Carrying
  <2>3. ASSUME NEW kind \in {"refused", "failed"},
               answer' = [answer EXCEPT ![q] = Told(kind, None)]
        PROVE  Same
    <3>1. answer'[q].kind = kind /\ \A r \in Request : r # q => answer'[r] = answer[r]
      BY <2>2, <2>3 DEF Told
    <3>. QED BY <2>1, <2>2, <3>1
  <2>. QED BY <2>1, <2>3
<1>5. CASE UNCHANGED vars
  <2>1. UNCHANGED <<row, journal, idem, cmd, answer>>
    BY <1>5 DEF vars, records, request
  <2>. QED BY <2>1, ToldStands
<1>6. Same => ToldBar' = ToldBar
  BY ToldStands
<1>. QED BY <1>1, <1>2, <1>3, <1>4, <1>5, <1>6 DEF Next, Step

LEMMA StutterMaps ==
    ASSUME ToldBar' = ToldBar, UNCHANGED <<row, journal, idem>>
    PROVE  UNCHANGED Abstract!vars
<1>1. StatusBar' = StatusBar
  BY DEF StatusBar
<1>2. \A e, n : EventAsOf(e, n)' = EventAsOf(e, n)
  BY DEF EventAsOf, Moves
<1>3. DoneBar' = DoneBar
  BY <1>2 DEF DoneBar
<1>. QED BY <1>1, <1>3 DEF Abstract!vars, StatusBar, DoneBar, ToldBar

LEMMA ReplayMaps ==
    ASSUME Typed, JournalTells, NEW q \in Request, Replay(q), NEW c, c = cmd[q]
    PROVE  c \in Command /\ Abstract!Tell(c)
<1>1. /\ pc[q] = "claim" /\ idem[cmd[q]] # None
      /\ answer' = [answer EXCEPT ![q] = Told("done", Hydrated(idem[cmd[q]]))]
      /\ UNCHANGED <<row, journal, idem, cmd>>
  BY DEF Replay, records
<1>2. cmd[q] \in Command
  BY <1>1 DEF Typed, Carrying
<1>3. DoneBar[cmd[q]] = Hydrated(idem[cmd[q]]) /\ DoneBar[cmd[q]] # None
  BY <1>1, <1>2, ResultType DEF Typed
<1>4. ToldBar' = ToldBar \cup {<<cmd[q], DoneBar[cmd[q]]>>}
  BY <1>1, <1>3, ToldOnce
<1>5. StatusBar' = StatusBar
  BY <1>1 DEF StatusBar
<1>6. DoneBar' = DoneBar
  <2>1. \A e, n : EventAsOf(e, n)' = EventAsOf(e, n)
    BY <1>1 DEF EventAsOf, Moves
  <2>. QED BY <1>1, <2>1 DEF DoneBar
<1>. QED BY <1>2, <1>3, <1>4, <1>5, <1>6 DEF Abstract!Tell, DoneBar, StatusBar, ToldBar

LEMMA CommitMaps ==
    ASSUME Typed, JournalTells, NEW q \in Request, NEW e \in Event, Commits(q, e),
           NEW c, c = cmd[q], NEW to, to = row'[e].status
    PROVE  c \in Command /\ to \in RowStatuses /\ Abstract!Apply(c, e, to)
<1>. PICK n : n = Len(journal[e])
  OBVIOUS
<1>1. /\ n \in Nat
      /\ \A i \in 1..n : journal'[e][i] = journal[e][i]
      /\ \A d \in Event : d # e => journal'[d] = journal[d]
  BY JournalsAfter
<1>2. /\ pc[q] = "locked" /\ cmd[q] \in Command /\ idem[cmd[q]] = None
      /\ idem' = [idem EXCEPT ![cmd[q]] = [event |-> e, upto |-> n + 1]]
      /\ answer' = [answer EXCEPT ![q] = Told("done", [event |-> e, status |-> to])]
      /\ cmd' = cmd
  BY DEF Commits, Record
<1>3. to \in RowStatuses
  BY RowsAfter DEF RowRecord
<1>4. Abstract!Allowed(Kind[cmd[q]], row[e].status, to)
  <2>1. CASE Starts(q, e)
    <3>1. row'[e] = StartedRow(q)
      BY <2>1 DEF Starts, Typed, TypeOK
    <3>2. to = "active"
      BY <1>2, <3>1, StartedRowType
    <3>. QED BY <2>1, <3>2 DEF Starts, AskedKind, Abstract!Allowed
  <2>2. CASE Transits(q, e)
    <3>. DEFINE k == AskedKind(q)
    <3>1. /\ k \in Transitions /\ row[e].status = StateMachine[k].from
          /\ row'[e] = Moved(row[e], k, stamp[q]) /\ row[e] \in RowRecord
      BY <2>2 DEF Transits, Typed, TypeOK
    <3>2. stamp[q] \in Nat
      BY StampType DEF Typed
    <3>3. to = StateMachine[k].to
      BY <3>1, <3>2, MovedType
    <3>. QED BY <3>1, <3>3, Arrows DEF AskedKind, Abstract!Allowed
  <2>3. CASE Enters(q, e)
    BY <2>3 DEF Enters, AskedKind, Abstract!Allowed
  <2>. QED BY <2>1, <2>2, <2>3 DEF Commits
<1>5. StatusBar' = [StatusBar EXCEPT ![e] = to]
  <2>1. \A d \in Event : d # e => row'[d] = row[d]
    BY DEF Commits
  <2>. QED BY <2>1 DEF StatusBar
<1>6. DoneBar' = [DoneBar EXCEPT ![cmd[q]] = [event |-> e, status |-> to]]
  <2>1. EventAsOf(e, n + 1)' = to
    BY ResultAfter
  <2>2. [event |-> e, upto |-> n + 1] # None
    <3>1. [event |-> e, upto |-> n + 1] \in IdemRecord
      BY <1>1 DEF IdemRecord
    <3>. QED BY <3>1, NoneAssumption
  <2>3. DoneBar'[cmd[q]] = [event |-> e, status |-> to]
    <3>1. idem'[cmd[q]] = [event |-> e, upto |-> n + 1]
      BY <1>2 DEF Typed, TypeOK
    <3>2. DoneBar'[cmd[q]] = [event |-> e, status |-> EventAsOf(e, n + 1)']
      BY <1>2, <2>2, <3>1 DEF DoneBar
    <3>. QED BY <2>1, <3>2
  <2>4. ASSUME NEW b \in Command, b # cmd[q] PROVE DoneBar'[b] = DoneBar[b]
    <3>1. idem'[b] = idem[b]
      BY <1>2, <2>4 DEF Typed, TypeOK
    <3>2. CASE idem[b] = None
      BY <3>1, <3>2 DEF DoneBar
    <3>3. CASE idem[b] # None
      <4>. PICK d : d = idem[b].event
        OBVIOUS
      <4>. PICK u : u = idem[b].upto
        OBVIOUS
      <4>1. /\ d \in Event /\ u \in Nat /\ u =< Len(journal[d]) /\ 1 \in Moves(d, u)
        BY <3>3, ResultType DEF Typed
      <4>2. \A i \in 1..u : journal'[d][i] = journal[d][i]
        BY <1>1, <4>1
      <4>3. EventAsOf(d, u)' = EventAsOf(d, u)
        BY <4>1, <4>2, PastStands
      <4>. QED BY <3>1, <3>3, <4>3 DEF DoneBar
    <3>. QED BY <3>2, <3>3
  <2>5. DoneBar' = [b \in Command |-> DoneBar'[b]]
    BY DEF DoneBar
  <2>6. DoneBar = [b \in Command |-> DoneBar[b]]
    BY DEF DoneBar
  <2>. QED BY <1>2, <2>3, <2>4, <2>5, <2>6
<1>7. ToldBar' = ToldBar \cup {<<cmd[q], [event |-> e, status |-> to]>>}
  BY <1>2, ToldOnce
<1>8. DoneBar[cmd[q]] = None
  BY <1>2 DEF DoneBar
<1>. QED BY <1>2, <1>3, <1>4, <1>5, <1>6, <1>7, <1>8
         DEF Abstract!Apply, Abstract!Result, DoneBar, StatusBar, ToldBar

LEMMA InitMaps == Init => Abstract!Init
<1>. SUFFICES ASSUME Init PROVE Abstract!Init
  OBVIOUS
<1>1. \A e \in Event : row[e].status \in RowStatuses
  BY InitTyped DEF Typed, TypeOK, RowRecord
<1>2. StatusBar \in [Event -> RowStatuses]
  BY <1>1 DEF StatusBar
<1>3. DoneBar = [c \in Command |-> None]
  BY DEF DoneBar, Init
<1>4. ToldBar = {}
  BY DEF ToldBar, Init, Untold, Told
<1>. QED BY <1>2, <1>3, <1>4
         DEF Abstract!Init, Abstract!Statuses, RowStatuses, StatusBar, DoneBar, ToldBar

\* The commands are atomic: however requests, retries, replays, rollbacks and
\* locks interleave, a command takes effect once and whole, along an arrow of
\* the state machine, and whoever is told of success is told its own result.
THEOREM CommandsAtomic == Spec => CommandsAreAtomic
<1>1. /\ Typed /\ UnderLocks /\ JournalTells /\ [Next]_vars
      => [Abstract!Next]_(Abstract!vars)
  <2>. SUFFICES ASSUME Typed, UnderLocks, JournalTells, [Next]_vars
                PROVE  Abstract!Next \/ UNCHANGED Abstract!vars
    OBVIOUS
  <2>1. ASSUME NEW q \in Request, Commit(q) PROVE Abstract!Next
    <3>1. PICK e \in Event : Commits(q, e)
      BY <2>1, CommitEffect
    <3>2. PICK c : c = cmd[q]
      OBVIOUS
    <3>3. PICK to : to = row'[e].status
      OBVIOUS
    <3>4. c \in Command /\ to \in Abstract!Statuses /\ Abstract!Apply(c, e, to)
      BY <3>1, <3>2, <3>3, CommitMaps DEF RowStatuses, Abstract!Statuses
    <3>. QED BY <3>4 DEF Abstract!Next
  <2>2. ASSUME NEW q \in Request, Replay(q) PROVE Abstract!Next
    <3>1. PICK c : c = cmd[q]
      OBVIOUS
    <3>2. c \in Command /\ Abstract!Tell(c)
      BY <2>2, <3>1, ReplayMaps
    <3>. QED BY <3>2 DEF Abstract!Next
  <2>3. CASE ~\E q \in Request : Commit(q) \/ Replay(q)
    BY <2>3, OthersTellNothing, StutterMaps
  <2>. QED BY <2>1, <2>2, <2>3
<1>. QED BY <1>1, InitMaps, LocksHold, HistoryHolds, PTL
         DEF Spec, CommandsAreAtomic, Abstract!Spec
=============================================================================
