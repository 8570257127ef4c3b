------------------------- MODULE PushAudienceProofs -------------------------
(***************************************************************************)
(* Proofs about PushAudience, for every setting: any number of people,     *)
(* installations, tokens, enrolments and registrations, any page size, and *)
(* whatever may happen there.                                              *)
(*                                                                         *)
(* The first part is about one state.  Resolution gives the endpoints of a *)
(* person different live registrations, the fan-out gives the devices that *)
(* they leave, and so, when no two live registrations share a token or a   *)
(* device (Apart), each live device has one candidate and no device two.   *)
(*                                                                         *)
(* The second follows the steps.  Registrations and enrolments are kept    *)
(* and end once; a registration ends whatever it is in the place of, so    *)
(* that those that are open stay apart.  A token that a phone holds was    *)
(* registered from that phone (Traced), and a phone is enrolled once, so   *)
(* that a push that the lookup before it lets through finds its owner.     *)
(* And while a batch is paged the registrations that lived when it was     *)
(* made are the same in each state (Pinned): the candidates, their order   *)
(* and what comes before each do not move, and the cursor covers them      *)
(* one after the other (Covering).                                         *)
(***************************************************************************)
EXTENDS PushAudience, FiniteSetTheorems, SequenceTheorems, TLAPS

Candidature == [who : Persons, endpoint : Nat, token : Providers \X Tokens]

BatchTyped ==
    /\ batch \in [asOf : Nat, cursor : Nat, done : BOOLEAN,
                  todo : SUBSET Candidature, handed : SUBSET Candidature,
                  got : SUBSET [push : Candidature, by : SUBSET Persons]]
    /\ batch.asOf < clock
    /\ \A c \in batch.handed : c.endpoint \in DOMAIN regs

FailuresTyped ==
    failures \subseteq [endpoint : DOMAIN regs, token : Providers \X Tokens,
                        at : Nat, told : BOOLEAN]

Typed == TypeOK /\ BatchTyped /\ FailuresTyped

\* A device has one registration that lives with each provider.
OnePerDevice ==
    \A r, s \in DOMAIN regs :
        /\ regs[r].off = Open /\ regs[s].off = Open
        /\ regs[r].enrol = regs[s].enrol /\ regs[r].provider = regs[s].provider
        => r = s

\* The registrations that live at an instant: none is of the token, and none
\* of the device and provider, of another.
Apart(asOf) ==
    \A r, s \in DOMAIN regs :
        /\ Live(r, asOf) /\ Live(s, asOf)
        /\ \/ Held(r) = Held(s)
           \/ regs[r].enrol = regs[s].enrol /\ regs[r].provider = regs[s].provider
        => r = s

\* A candidate that the policy lets through unless its endpoint is invalid.
Standing(c, asOf) == c.endpoint \in snapshot => c.endpoint \in DOMAIN Resolved(c.who, asOf)

-----------------------------------------------------------------------------
(* Registrations and whom they reach, in one state. *)

LEMMA SequenceIs ==
    ASSUME NEW S, NEW s \in Seq(S)
    PROVE  DOMAIN s = 1..Len(s) /\ Len(s) \in Nat /\ \A i \in DOMAIN s : s[i] \in S
OBVIOUS

LEMMA RowsAre ==
    ASSUME TypeOK
    PROVE  /\ DOMAIN regs = 1..Len(regs) /\ DOMAIN regs \subseteq Nat
           /\ IsFiniteSet(DOMAIN regs)
           /\ DOMAIN enrolments = 1..Len(enrolments) /\ DOMAIN enrolments \subseteq Nat
           /\ \A r \in DOMAIN regs : /\ regs[r] \in Rows
                                     /\ regs[r].enrol \in DOMAIN enrolments
                                     /\ Owner(r) \in Persons
                                     /\ Held(r) \in Providers \X Tokens
           /\ \A e \in DOMAIN enrolments :
                 enrolments[e] \in [who : Persons, install : Installs, revoked : BOOLEAN]
           /\ Len(regs) \in Nat /\ Len(enrolments) \in Nat
<1>1. regs \in Seq(Rows) /\ enrolments \in Seq([who : Persons, install : Installs, revoked : BOOLEAN])
  BY DEF TypeOK
<1>2. /\ DOMAIN regs = 1..Len(regs) /\ Len(regs) \in Nat
      /\ DOMAIN enrolments = 1..Len(enrolments) /\ Len(enrolments) \in Nat
      /\ \A r \in DOMAIN regs : regs[r] \in Rows
      /\ \A e \in DOMAIN enrolments :
                 enrolments[e] \in [who : Persons, install : Installs, revoked : BOOLEAN]
  BY <1>1, SequenceIs, Zenon
<1>3. IsFiniteSet(DOMAIN regs)
  BY <1>2, FS_Interval
<1>4. \A r \in DOMAIN regs : regs[r].enrol \in DOMAIN enrolments
  BY DEF TypeOK
<1>5. \A r \in DOMAIN regs : Owner(r) \in Persons /\ Held(r) \in Providers \X Tokens
  BY <1>2, <1>4 DEF Owner, Held, Rows
<1> QED  BY <1>2, <1>3, <1>4, <1>5

\* Fewer come before the earlier of two.
LEMMA FewerBefore ==
    ASSUME NEW S, IsFiniteSet(S), NEW T \in SUBSET S, NEW x \in S \ T
    PROVE  Cardinality(T) < Cardinality(S) /\ Cardinality(T) \in Nat /\ Cardinality(S) \in Nat
<1>1. IsFiniteSet(T) /\ Cardinality(T) <= Cardinality(S)
      /\ (Cardinality(S) = Cardinality(T) => S = T)
  BY FS_Subset
<1>2. Cardinality(S) \in Nat /\ Cardinality(T) \in Nat
  BY <1>1, FS_CardinalityType
<1> QED  BY <1>1, <1>2

LEMMA RanksDiffer ==
    ASSUME NEW S \in SUBSET Nat, IsFiniteSet(S), NEW d \in S, NEW e \in S,
           Cardinality({y \in S : y < d}) = Cardinality({y \in S : y < e})
    PROVE  d = e
<1>1. ASSUME NEW a \in S, NEW b \in S, a < b
      PROVE  Cardinality({y \in S : y < a}) < Cardinality({y \in S : y < b})
             /\ Cardinality({y \in S : y < a}) \in Nat /\ Cardinality({y \in S : y < b}) \in Nat
  <2> DEFINE A == {y \in S : y < a}
             B == {y \in S : y < b}
  <2>1. A \in SUBSET B /\ a \in B \ A
    <3>1. a \in Nat /\ b \in Nat /\ \A y \in S : y \in Nat
      OBVIOUS
    <3>2. \A y \in S : y < a => y < b
      BY <1>1, <3>1
    <3>3. ~(a < a)
      BY <3>1
    <3> QED  BY <1>1, <3>2, <3>3
  <2>2. IsFiniteSet(B)
    BY FS_Subset, B \in SUBSET S
  <2> QED  BY <2>1, <2>2, FewerBefore
<1>3. ~(d < e) /\ ~(e < d)
  BY <1>1
<1> QED  BY <1>3

\* What resolution gives a person's endpoints.
LEMMA ResolvedWell ==
    ASSUME TypeOK, NEW p \in Persons, NEW asOf
    PROVE  LET f == Resolved(p, asOf) IN
           /\ DOMAIN f \subseteq snapshot \cap Group(p, Selected)
           /\ f = [e \in DOMAIN f |-> f[e]]
           /\ \A e \in DOMAIN f : f[e] \in Group(p, Selected) /\ Live(f[e], asOf)
           /\ \A e \in snapshot \cap Group(p, Selected) :
                 Live(e, asOf) => e \in DOMAIN f /\ f[e] = e
           /\ \A e \in DOMAIN f : f[e] \in snapshot => f[e] = e
           /\ \A d, e \in DOMAIN f : f[d] = f[e] => d = e
<1> DEFINE own   == {e \in snapshot \cap Group(p, Selected) : Live(e, asOf)}
           gone  == GoneOf(p, Selected, asOf)
           spare == SpareOf(p, Selected, asOf)
           taking == {e \in gone : Replacing(e, gone, spare) # {}}
           f == Resolved(p, asOf)
<1>1. f = [e \in own \cup taking |->
             IF e \in own THEN e ELSE Only(Replacing(e, gone, spare))]
  BY DEF Resolved, Assigned
<1>0. \A rs : rs # {} => Only(rs) \in rs
  BY DEF Only
<1>2. DOMAIN f = own \cup taking
      /\ (\A e \in own : f[e] = e)
      /\ (\A e \in taking \ own : f[e] \in Replacing(e, gone, spare))
  <2>1. \A e \in own \cup taking :
            f[e] = IF e \in own THEN e ELSE Only(Replacing(e, gone, spare))
    BY <1>1
  <2>2. DOMAIN f = own \cup taking
    BY <1>1
  <2> QED  BY <1>0, <2>1, <2>2
<1>3. own \cap gone = {} /\ gone \subseteq snapshot \cap Group(p, Selected)
  BY DEF GoneOf
<1>4. \A e : Replacing(e, gone, spare) \subseteq spare
  BY DEF Replacing
<1>5. spare \subseteq Group(p, Selected) \ snapshot /\ \A r \in spare : Live(r, asOf)
  BY DEF SpareOf
<1>6. \A e \in taking : f[e] \in spare /\ Cardinality({s \in spare : Newer(s, f[e])}) = Cardinality({x \in gone : x < e})
  BY <1>2, <1>3 DEF Replacing
<1>7. gone \in SUBSET Nat /\ IsFiniteSet(gone)
  <2>1. gone \in SUBSET DOMAIN regs
    BY DEF GoneOf, Group
  <2> QED  BY <2>1, RowsAre, FS_Subset
<1>8. ASSUME NEW d \in DOMAIN f, NEW e \in DOMAIN f, f[d] = f[e]
      PROVE  d = e
  <2>1. CASE d \in own /\ e \in own
    BY <2>1, <1>2, <1>8
  <2>2. CASE d \in taking /\ e \in taking
    <3>1. Cardinality({x \in gone : x < d}) = Cardinality({x \in gone : x < e})
      BY <2>2, <1>6, <1>8
    <3> QED  BY <3>1, <2>2, <1>7, RanksDiffer
  <2>3. CASE d \in own /\ e \in taking
    BY <2>3, <1>2, <1>5, <1>6, <1>8
  <2>4. CASE d \in taking /\ e \in own
    BY <2>4, <1>2, <1>5, <1>6, <1>8
  <2> QED  BY <1>2, <1>8, <2>1, <2>2, <2>3, <2>4
<1>9. /\ DOMAIN f \subseteq snapshot \cap Group(p, Selected)
      /\ \A e \in DOMAIN f : f[e] \in Group(p, Selected) /\ Live(f[e], asOf)
      /\ \A e \in snapshot \cap Group(p, Selected) :
            Live(e, asOf) => e \in DOMAIN f /\ f[e] = e
      /\ \A e \in DOMAIN f : f[e] \in snapshot => f[e] = e
  BY <1>2, <1>3, <1>5, <1>6
<1>10. f = [e \in DOMAIN f |-> f[e]]
  BY <1>1
<1> QED  BY <1>8, <1>9, <1>10

\* What is fanned out besides it.
LEMMA FannedOutWell ==
    ASSUME TypeOK, NEW p \in Persons, NEW asOf
    PROVE  \A r \in FannedOut(p, asOf) :
               /\ r \in Group(p, Selected) \ snapshot /\ Live(r, asOf)
               /\ r \notin Registrations(Resolved(p, asOf))
<1> TAKE r \in FannedOut(p, asOf)
<1>1. r \in Group(p, Selected) /\ Live(r, asOf) /\ r \notin Registrations(Resolved(p, asOf))
  BY DEF FannedOut, FannedOutBeside
<1>2. r \notin snapshot
  BY <1>1, ResolvedWell DEF Registrations
<1> QED  BY <1>1, <1>2

\* A candidate is told by its endpoint.
LEMMA CandidateShape ==
    ASSUME TypeOK, NEW asOf, NEW c \in Candidates(asOf)
    PROVE  /\ c \in Candidature /\ c.endpoint \in DOMAIN regs
           /\ c.who = Owner(c.endpoint) /\ c.who \in Persons
           /\ c.endpoint \notin snapshot =>
                 c.endpoint \in FannedOut(c.who, asOf) /\ c.token = Held(c.endpoint)
           /\ c.endpoint \in snapshot =>
                 c.token = IF c.endpoint \in DOMAIN Resolved(c.who, asOf)
                           THEN Held(Resolved(c.who, asOf)[c.endpoint]) ELSE Held(c.endpoint)
           /\ c = [who |-> c.who, endpoint |-> c.endpoint, token |-> c.token]
<1>1. PICK p \in Persons : c \in CandidatesOf(p, asOf)
  BY DEF Candidates
<1> DEFINE f == Resolved(p, asOf)
<1>2. \/ \E e \in DOMAIN f : c = Candidate(p, e, f[e])
      \/ \E r \in FannedOut(p, asOf) : c = Candidate(p, r, r)
      \/ \E e \in {x \in snapshot : Owner(x) = p} \ DOMAIN f : c = Candidate(p, e, e)
  BY <1>1 DEF CandidatesOf, CandidatesFrom
<1>3. snapshot \subseteq DOMAIN regs /\ \A r \in Group(p, Selected) : r \in DOMAIN regs /\ Owner(r) = p
  BY DEF TypeOK, Group
<1>4. CASE \E e \in DOMAIN f : c = Candidate(p, e, f[e])
  <2>1. PICK e \in DOMAIN f : c = Candidate(p, e, f[e])
    BY <1>4
  <2>2. e \in snapshot /\ e \in DOMAIN regs /\ Owner(e) = p /\ f[e] \in DOMAIN regs
    BY <1>3, ResolvedWell
  <2> QED  BY <2>1, <2>2, RowsAre DEF Candidate, Candidature
<1>5. CASE \E r \in FannedOut(p, asOf) : c = Candidate(p, r, r)
  <2>1. PICK r \in FannedOut(p, asOf) : c = Candidate(p, r, r)
    BY <1>5
  <2>2. r \notin snapshot /\ r \in DOMAIN regs /\ Owner(r) = p
    BY <1>3, FannedOutWell
  <2> QED  BY <2>1, <2>2, RowsAre DEF Candidate, Candidature
<1>6. CASE \E e \in {x \in snapshot : Owner(x) = p} \ DOMAIN f : c = Candidate(p, e, e)
  BY <1>3, <1>6, RowsAre DEF Candidate, Candidature
<1> QED  BY <1>2, <1>4, <1>5, <1>6

LEMMA FinitelyMany ==
    ASSUME TypeOK, NEW asOf
    PROVE  IsFiniteSet(Candidates(asOf)) /\ Cardinality(Candidates(asOf)) \in Nat
<1> DEFINE f == [c \in Candidates(asOf) |-> c.endpoint]
<1>1. f \in [Candidates(asOf) -> DOMAIN regs]
  BY CandidateShape
<1>2. ASSUME NEW c \in Candidates(asOf), NEW d \in Candidates(asOf), c.endpoint = d.endpoint
      PROVE  c = d
  BY <1>2, CandidateShape
<1>3. f \in Injection(Candidates(asOf), DOMAIN regs)
  BY <1>1, <1>2 DEF Injection, IsInjective
<1> QED  BY <1>3, RowsAre, FS_Injection, FS_CardinalityType

\* The registration a standing candidate is pushed to.
LEMMA StandsOn ==
    ASSUME TypeOK, NEW asOf, NEW c \in Candidates(asOf), Standing(c, asOf)
    PROVE  \E r \in Group(c.who, Selected) :
              /\ Live(r, asOf) /\ c.token = Held(r)
              /\ \/ /\ c.endpoint \in DOMAIN Resolved(c.who, asOf)
                    /\ r = Resolved(c.who, asOf)[c.endpoint]
                 \/ /\ c.endpoint = r /\ r \in FannedOut(c.who, asOf)
<1>1. CASE c.endpoint \in snapshot
  BY <1>1, CandidateShape, ResolvedWell DEF Standing
<1>2. CASE c.endpoint \notin snapshot
  BY <1>2, CandidateShape, FannedOutWell
<1> QED  BY <1>1, <1>2

\* No device is meant by two candidates that stand.
LEMMA OnlyOneStands ==
    ASSUME TypeOK, NEW asOf, Apart(asOf),
           NEW c \in Candidates(asOf), NEW d \in Candidates(asOf),
           Standing(c, asOf), Standing(d, asOf), c.token = d.token
    PROVE  c = d
<1>1. PICK r \in Group(c.who, Selected) :
              /\ Live(r, asOf) /\ c.token = Held(r)
              /\ \/ /\ c.endpoint \in DOMAIN Resolved(c.who, asOf)
                    /\ r = Resolved(c.who, asOf)[c.endpoint]
                 \/ /\ c.endpoint = r /\ r \in FannedOut(c.who, asOf)
  BY StandsOn
<1>2. PICK s \in Group(d.who, Selected) :
              /\ Live(s, asOf) /\ d.token = Held(s)
              /\ \/ /\ d.endpoint \in DOMAIN Resolved(d.who, asOf)
                    /\ s = Resolved(d.who, asOf)[d.endpoint]
                 \/ /\ d.endpoint = s /\ s \in FannedOut(d.who, asOf)
  BY StandsOn
<1>3. r = s /\ c.who = d.who
  BY <1>1, <1>2 DEF Apart, Group
<1>4. c.who \in Persons
  BY CandidateShape
<1>5. c.endpoint = d.endpoint
  BY <1>1, <1>2, <1>3, <1>4, ResolvedWell, FannedOutWell DEF Registrations
<1> QED  BY <1>3, <1>5, CandidateShape

\* Every device that lives is meant by one.
LEMMA EveryDeviceStands ==
    ASSUME TypeOK, NEW asOf, Apart(asOf), NEW p \in Persons,
           NEW r \in Group(p, Selected), Live(r, asOf)
    PROVE  \E c \in Candidates(asOf) :
              /\ Standing(c, asOf) /\ c.who = p /\ Owner(c.endpoint) = p
              /\ c.token = Held(r)
<1> DEFINE f == Resolved(p, asOf)
           claimed == Registrations(f)
<1>1. CASE \E e \in DOMAIN f : f[e] = r
  <2>1. PICK e \in DOMAIN f : f[e] = r
    BY <1>1
  <2>2. Candidate(p, e, r) \in Candidates(asOf)
    BY <2>1 DEF Candidates, CandidatesOf, CandidatesFrom
  <2>3. Owner(e) = p
    BY <2>1, ResolvedWell DEF Group
  <2> QED  BY <2>1, <2>2, <2>3 DEF Candidate, Standing
<1>2. CASE ~\E e \in DOMAIN f : f[e] = r
  <2>1. \A x \in claimed : x \in Group(p, Selected) /\ Live(x, asOf)
    BY ResolvedWell DEF Registrations
  <2>2. r \notin claimed
    BY <1>2 DEF Registrations
  <2>3. \A x \in DOMAIN regs : Live(x, asOf) /\ x \in Group(p, Selected)
            /\ regs[x].enrol = regs[r].enrol => x = r
    BY DEF Apart, Group
  <2>4. regs[r].enrol \notin {regs[x].enrol : x \in claimed}
    BY <2>1, <2>2, <2>3 DEF Group
  <2>5. r \in FannedOut(p, asOf)
    BY <2>2, <2>3, <2>4 DEF FannedOut, FannedOutBeside, Group
  <2>6. Candidate(p, r, r) \in Candidates(asOf)
    BY <2>5 DEF Candidates, CandidatesOf, CandidatesFrom
  <2>7. r \notin snapshot /\ Owner(r) = p
    BY <2>5, FannedOutWell DEF Group
  <2> QED  BY <2>6, <2>7 DEF Candidate, Standing
<1> QED  BY <1>1, <1>2

LEMMA OpenApart ==
    ASSUME OneOwner, OnePerDevice
    PROVE  Apart(Now)
BY DEF OneOwner, OnePerDevice, Apart, Live, LiveAt

\* Whom a push made now reaches.
LEMMA NowOnce ==
    ASSUME TypeOK, OneOwner, OnePerDevice
    PROVE  ReachedOnce
<1> SUFFICES ASSUME NEW p \in Persons, NEW e \in Devices(p, Now)
             PROVE  /\ Cardinality(Reaching(e, Now)) <= 1
                    /\ Untroubled(p) => Reaching(e, Now) # {}
  BY DEF ReachedOnce
<1>1. Apart(Now)
  BY OpenApart
<1>2. PICK r \in Group(p, Selected) : Live(r, Now) /\ regs[r].enrol = e
  BY DEF Devices
<1>3. \A c \in Reaching(e, Now) :
         /\ c \in Candidates(Now) /\ Standing(c, Now)
         /\ c.token = Held(r)
  <2> TAKE c \in Reaching(e, Now)
  <2>1. c \in Candidates(Now) /\ Standing(c, Now)
    BY DEF Reaching, Reached, Active, Standing
  <2>2. PICK s \in DOMAIN regs : regs[s].enrol = e /\ Live(s, Now) /\ Held(s) = c.token
    BY DEF Reaching
  <2>3. PICK x \in Group(c.who, Selected) : c.token = Held(x)
    BY <2>1, StandsOn
  <2>4. regs[s].provider = Selected
    BY <2>2, <2>3 DEF Held, Group
  <2>5. s = r
    BY <1>1, <1>2, <2>2, <2>4 DEF Apart, Group
  <2> QED  BY <2>1, <2>2, <2>5
<1>4. \A c, d \in Reaching(e, Now) : c = d
  BY <1>1, <1>3, OnlyOneStands
<1>5. Cardinality(Reaching(e, Now)) <= 1
  <2>1. CASE Reaching(e, Now) = {}
    BY <2>1, FS_EmptySet
  <2>2. CASE Reaching(e, Now) # {}
    <3>1. PICK c : Reaching(e, Now) = {c}
      BY <1>4, <2>2
    <3>2. Cardinality({c}) = 1
      BY FS_Singleton
    <3> QED  BY <3>1, <3>2
  <2> QED  BY <2>1, <2>2
<1>6. ASSUME Untroubled(p) PROVE Reaching(e, Now) # {}
  <2>1. PICK c \in Candidates(Now) : /\ Standing(c, Now) /\ c.who = p /\ Owner(c.endpoint) = p
                                     /\ c.token = Held(r)
    BY <1>1, <1>2, EveryDeviceStands
  <2>2. c \in Reached(Now)
    BY <1>6, <2>1 DEF Reached, Active, Standing, Untroubled
  <2>3. c \in Reaching(e, Now)
    BY <1>2, <2>1, <2>2 DEF Reaching, Group
  <2> QED  BY <2>3
<1> QED  BY <1>5, <1>6

-----------------------------------------------------------------------------
(* What every step leaves alone. *)

\* The settings stay.
LEMMA SettingStays ==
    ASSUME UNCHANGED setting
    PROVE  /\ Persons' = Persons /\ Installs' = Installs /\ Tokens' = Tokens
           /\ Providers' = Providers /\ Selected' = Selected /\ PageSize' = PageSize
           /\ Disturbances' = Disturbances /\ Rows' = Rows /\ Candidature' = Candidature
           /\ People' = People
BY DEF Persons, People, Installs, Tokens, Providers, Selected, PageSize, Disturbances,
       Rows, Candidature

\* Registrations and enrolments are kept, and end once.
RowsGrow ==
    /\ regs' \in Seq(Rows) /\ Len(regs) <= Len(regs')
    /\ \A r \in DOMAIN regs' : regs'[r].enrol \in DOMAIN enrolments
    /\ \A r \in DOMAIN regs :
          /\ regs'[r].enrol = regs[r].enrol /\ regs'[r].provider = regs[r].provider
          /\ regs'[r].token = regs[r].token /\ regs'[r].at = regs[r].at
          /\ \/ regs'[r].off = regs[r].off
             \/ regs[r].off = Open /\ regs'[r].off \in 1..clock
    /\ \A r \in DOMAIN regs' \ DOMAIN regs : regs'[r].at <= clock /\ regs'[r].off = Open

EnrolmentsGrow ==
    /\ enrolments' \in Seq([who : Persons, install : Installs, revoked : BOOLEAN])
    /\ Len(enrolments) <= Len(enrolments')
    /\ \A e \in DOMAIN enrolments :
          /\ enrolments'[e].who = enrolments[e].who
          /\ enrolments'[e].install = enrolments[e].install
          /\ enrolments[e].revoked => enrolments'[e].revoked

LEMMA RowsRest ==
    ASSUME TypeOK, UNCHANGED regs
    PROVE  RowsGrow
BY DEF TypeOK, RowsGrow

LEMMA EnrolmentsRest ==
    ASSUME TypeOK, UNCHANGED enrolments
    PROVE  EnrolmentsGrow
BY DEF TypeOK, EnrolmentsGrow

LEMMA EndWell ==
    ASSUME TypeOK, NEW rs, regs' = End(rs)
    PROVE  /\ RowsGrow /\ Len(regs') = Len(regs) /\ DOMAIN regs' = DOMAIN regs
           /\ \A r \in DOMAIN regs :
                 regs'[r].off = IF r \in rs /\ regs[r].off = Open THEN clock ELSE regs[r].off
<1>1. /\ DOMAIN regs = 1..Len(regs) /\ Len(regs) \in Nat
      /\ \A r \in DOMAIN regs : regs[r] \in Rows
  BY RowsAre
<1>2. clock \in Nat \ {0}
  BY DEF TypeOK
<1>3. regs' = [r \in 1..Len(regs) |-> IF r \in rs /\ regs[r].off = Open
                  THEN [regs[r] EXCEPT !.off = clock] ELSE regs[r]]
  BY <1>1 DEF End
<1>4. \A r \in 1..Len(regs) : regs'[r] \in Rows
  BY <1>1, <1>2, <1>3 DEF Rows
<1>5. regs' \in Seq(Rows) /\ Len(regs') = Len(regs) /\ DOMAIN regs' = 1..Len(regs)
  BY <1>1, <1>3, <1>4
<1>6. \A r \in DOMAIN regs :
          /\ regs'[r].enrol = regs[r].enrol /\ regs'[r].provider = regs[r].provider
          /\ regs'[r].token = regs[r].token /\ regs'[r].at = regs[r].at
          /\ regs'[r].off = IF r \in rs /\ regs[r].off = Open THEN clock ELSE regs[r].off
  BY <1>1, <1>2, <1>3 DEF Rows
<1>7. \A r \in DOMAIN regs : regs[r].enrol \in DOMAIN enrolments
  BY RowsAre
<1> QED  BY <1>1, <1>2, <1>5, <1>6, <1>7 DEF RowsGrow

\* A row put behind others, or none.
LEMMA OneBehind ==
    ASSUME NEW S, NEW e \in Seq(S), NEW a \in Seq(S), Len(a) \in {0, 1}, NEW w, w = e \o a
    PROVE  /\ w \in Seq(S) /\ Len(w) = Len(e) + Len(a) /\ Len(e) \in Nat
           /\ DOMAIN w = 1..Len(w) /\ DOMAIN e = 1..Len(e)
           /\ \A i \in DOMAIN e : i \in DOMAIN w /\ w[i] = e[i]
           /\ \A i \in DOMAIN w \ DOMAIN e : i = Len(e) + 1 /\ Len(a) = 1 /\ w[i] = a[1]
<1>1. /\ w \in Seq(S) /\ Len(w) = Len(e) + Len(a)
      /\ \A i \in 1..Len(e) + Len(a) : w[i] = IF i <= Len(e) THEN e[i] ELSE a[i - Len(e)]
  BY ConcatProperties
<1>2. Len(e) \in Nat /\ DOMAIN e = 1..Len(e) /\ DOMAIN w = 1..Len(w)
  BY <1>1, SequenceIs
<1>3. \A i \in DOMAIN e : i \in DOMAIN w /\ w[i] = e[i]
  BY <1>1, <1>2
<1>4. \A i \in DOMAIN w \ DOMAIN e : i = Len(e) + 1 /\ Len(a) = 1 /\ w[i] = a[1]
  <2> TAKE i \in DOMAIN w \ DOMAIN e
  <2>1. i > Len(e) /\ i <= Len(e) + Len(a) /\ i \in Nat
    BY <1>1, <1>2
  <2>2. i = Len(e) + 1 /\ Len(a) = 1 /\ i - Len(e) = 1
    BY <2>1, <1>2
  <2>3. w[i] = a[i - Len(e)]
    BY <1>1, <1>2, <2>1
  <2> QED  BY <2>2, <2>3
<1> QED  BY <1>1, <1>2, <1>3, <1>4

\* The row of a new registration, and the rows that one ends.
RowOf(q, v) == [enrol |-> q.enrol, provider |-> v, token |-> q.token, at |-> q.at, off |-> Open]
KeptBy(q)   == UNION {Kept(q, v) : v \in Providers}
EndedBy(q)  == (ReleasedBy(q) \cup {r \in DOMAIN regs : regs[r].enrol = q.enrol}) \ KeptBy(q)

LEMMA RegisterWell ==
    ASSUME TypeOK, NEW q \in requests, Register(q), UNCHANGED setting
    PROVE  /\ RowsGrow
           /\ \A r \in DOMAIN regs :
                 regs'[r].off = IF r \in EndedBy(q) /\ regs[r].off = Open THEN q.at ELSE regs[r].off
           /\ \A r \in DOMAIN regs' \ DOMAIN regs :
                 /\ regs'[r].provider \in Providers /\ Kept(q, regs'[r].provider) = {}
                 /\ regs'[r] = RowOf(q, regs'[r].provider)
           /\ \A r, s \in DOMAIN regs' \ DOMAIN regs :
                 regs'[r].provider = regs'[s].provider => r = s
<1> DEFINE n == Len(regs)
           ended == [r \in DOMAIN regs |-> IF r \in EndedBy(q) /\ regs[r].off = Open
                       THEN [regs[r] EXCEPT !.off = q.at] ELSE regs[r]]
           new  == {v \in Providers : Kept(q, v) = {}}
           A == IF "expo" \in new THEN <<RowOf(q, "expo")>> ELSE <<>>
           B == IF "apns" \in new THEN <<RowOf(q, "apns")>> ELSE <<>>
<1>1. regs' = ended \o A \o B
  BY DEF Register, EndedBy, KeptBy, RowOf
<1>2. /\ DOMAIN regs = 1..n /\ n \in Nat
      /\ \A r \in DOMAIN regs : regs[r] \in Rows /\ regs[r].enrol \in DOMAIN enrolments
  BY RowsAre
<1>3. /\ q.enrol \in DOMAIN enrolments /\ q.enrol \in Nat /\ q.token \in Tokens
      /\ q.at \in 1..clock /\ clock \in Nat \ {0} /\ q.at \in Nat
  BY RowsAre DEF TypeOK
<1>4. \A v \in Providers : RowOf(q, v) \in Rows
  BY <1>3 DEF RowOf, Rows, Open
<1>5. A \in Seq(Rows) /\ B \in Seq(Rows)
  BY <1>4
<1>6. \A r \in 1..n : ended[r] \in Rows
  BY <1>2, <1>3 DEF Rows
<1>7. ended \in Seq(Rows) /\ Len(ended) = n
  BY <1>2, <1>6
<1>8. Len(A) \in {0, 1} /\ Len(B) \in {0, 1}
  OBVIOUS
<1>9. DOMAIN ended = DOMAIN regs
  OBVIOUS
<1> DEFINE x == ended \o A
<1>10. /\ x \in Seq(Rows) /\ Len(x) = n + Len(A) /\ DOMAIN x = 1..Len(x)
       /\ \A r \in DOMAIN regs : r \in DOMAIN x /\ x[r] = ended[r]
       /\ \A r \in DOMAIN x \ DOMAIN regs : r = n + 1 /\ Len(A) = 1 /\ x[r] = A[1]
  <2> HIDE DEF ended, A, B, x
  <2>1. x = ended \o A
    BY DEF x
  <2>2. /\ x \in Seq(Rows) /\ Len(x) = Len(ended) + Len(A) /\ Len(ended) \in Nat
        /\ DOMAIN x = 1..Len(x) /\ DOMAIN ended = 1..Len(ended)
        /\ \A i \in DOMAIN ended : i \in DOMAIN x /\ x[i] = ended[i]
        /\ \A i \in DOMAIN x \ DOMAIN ended : i = Len(ended) + 1 /\ Len(A) = 1 /\ x[i] = A[1]
    BY <1>5, <1>7, <1>8, <2>1, OneBehind
  <2> QED  BY <1>7, <1>9, <2>2
<1>11. /\ regs' \in Seq(Rows) /\ Len(regs') = n + Len(A) + Len(B)
       /\ \A r \in DOMAIN x : r \in DOMAIN regs' /\ regs'[r] = x[r]
       /\ \A r \in DOMAIN regs' \ DOMAIN x : r = n + Len(A) + 1 /\ Len(B) = 1 /\ regs'[r] = B[1]
  <2> DEFINE y == x \o B
  <2>3. regs' = y
    BY <1>1
  <2> HIDE DEF ended, A, B, x, y
  <2>1. y = x \o B
    BY DEF y
  <2>4. x \in Seq(Rows) /\ B \in Seq(Rows) /\ Len(B) \in {0, 1}
    BY <1>5, <1>8, <1>10
  <2>2. /\ y \in Seq(Rows) /\ Len(y) = Len(x) + Len(B) /\ Len(x) \in Nat
        /\ DOMAIN y = 1..Len(y) /\ DOMAIN x = 1..Len(x)
        /\ \A i \in DOMAIN x : i \in DOMAIN y /\ y[i] = x[i]
        /\ \A i \in DOMAIN y \ DOMAIN x : i = Len(x) + 1 /\ Len(B) = 1 /\ y[i] = B[1]
    BY <2>1, <2>4, OneBehind
  <2> QED  BY <1>10, <2>2, <2>3
<1>12. \A r \in DOMAIN regs : r \in DOMAIN regs' /\ regs'[r] = ended[r]
  BY <1>10, <1>11
<1>13. \A r \in DOMAIN regs' \ DOMAIN regs :
          \/ r = n + 1 /\ Len(A) = 1 /\ regs'[r] = A[1]
          \/ r = n + Len(A) + 1 /\ Len(B) = 1 /\ regs'[r] = B[1]
  BY <1>10, <1>11
<1>14. /\ Len(A) = 1 => "expo" \in new /\ A[1] = RowOf(q, "expo")
       /\ Len(B) = 1 => "apns" \in new /\ B[1] = RowOf(q, "apns")
  OBVIOUS
<1>15. \A r \in DOMAIN regs' \ DOMAIN regs :
          \/ r = n + 1 /\ Len(A) = 1 /\ regs'[r] = RowOf(q, "expo") /\ "expo" \in new
          \/ r = n + Len(A) + 1 /\ regs'[r] = RowOf(q, "apns") /\ "apns" \in new
  BY <1>13, <1>14
<1>16. \A v : RowOf(q, v).provider = v /\ RowOf(q, v).enrol = q.enrol /\ RowOf(q, v).at = q.at
              /\ RowOf(q, v).off = Open /\ RowOf(q, v).token = q.token
  BY DEF RowOf
<1>17. \A r \in DOMAIN regs' \ DOMAIN regs :
                 /\ regs'[r].provider \in Providers /\ Kept(q, regs'[r].provider) = {}
                 /\ regs'[r] = RowOf(q, regs'[r].provider)
  BY <1>15, <1>16
<1>18. \A r, s \in DOMAIN regs' \ DOMAIN regs :
                 regs'[r].provider = regs'[s].provider => r = s
  BY <1>15, <1>16
<1>19. \A r \in DOMAIN regs :
          /\ regs'[r].enrol = regs[r].enrol /\ regs'[r].provider = regs[r].provider
          /\ regs'[r].token = regs[r].token /\ regs'[r].at = regs[r].at
          /\ regs'[r].off = IF r \in EndedBy(q) /\ regs[r].off = Open THEN q.at ELSE regs[r].off
  BY <1>2, <1>12 DEF Rows
<1>20. \A r \in DOMAIN regs' \ DOMAIN regs : regs'[r].at <= clock /\ regs'[r].off = Open
              /\ regs'[r].enrol \in DOMAIN enrolments
  <2> TAKE r \in DOMAIN regs' \ DOMAIN regs
  <2>1. regs'[r].enrol = q.enrol /\ regs'[r].at = q.at /\ regs'[r].off = Open
    BY <1>16, <1>17
  <2> QED  BY <1>3, <2>1
<1>21. \A r \in DOMAIN regs' : regs'[r].enrol \in DOMAIN enrolments
  BY <1>2, <1>19, <1>20
<1>22. \A r \in DOMAIN regs :
          \/ regs'[r].off = regs[r].off
          \/ regs[r].off = Open /\ regs'[r].off \in 1..clock
  BY <1>3, <1>19
<1>23. RowsGrow
  <2> HIDE DEF ended, A, B, x
  <2>1. n <= Len(regs')
    BY <1>2, <1>8, <1>11
  <2> QED  BY <1>11, <2>1, <1>19, <1>20, <1>21, <1>22 DEF RowsGrow
<1> QED  BY <1>17, <1>18, <1>19, <1>23

-----------------------------------------------------------------------------
(* Who moves what. *)

SignsIn   == \E i \in Installs, p \in Persons : SignIn(p, i)
SignsOut  == \E e \in DOMAIN enrolments : SignOut(e)
Asks      == \E e \in DOMAIN enrolments, newer \in BOOLEAN : Request(e, newer)
Registers == \E q \in requests : Register(q)
Refuses   == \E q \in requests : Refuse(q)
Records   == \E f \in failures : RecordStatus(f)
Sends     == \E c \in batch.todo : Send(c)
Skips     == \E c \in batch.todo : Skip(c)
Installing == \E i \in Installs, t \in Tokens : Install(i, t) \/ Renew(i, t)
Uninstalls == \E i \in Installs : Uninstall(i)

LEMMA WhatMoves ==
    ASSUME [Next]_vars
    PROVE  /\ UNCHANGED setting
           /\ UNCHANGED enrolments \/ SignsIn
           /\ UNCHANGED regs \/ SignsIn \/ SignsOut \/ Registers \/ Records
           /\ UNCHANGED requests \/ Asks \/ Registers \/ Refuses
           /\ UNCHANGED holds \/ Installing \/ Uninstalls
           /\ UNCHANGED snapshot \/ Publish
           /\ UNCHANGED invalid \/ Records
           /\ UNCHANGED failures \/ Sends \/ Records
           /\ UNCHANGED batch \/ CreateBatch \/ Page \/ Sends \/ Skips
           /\ UNCHANGED clock \/ CreateBatch \/ Sends
<1>1. CASE UNCHANGED vars
  BY <1>1 DEF vars
<1>2. CASE SignsIn /\ UNCHANGED setting
  BY <1>2 DEF SignsIn, SignIn
<1>3. CASE Installing /\ UNCHANGED setting
  BY <1>3 DEF Installing, Install, Renew
<1>4. CASE Uninstalls /\ UNCHANGED setting
  BY <1>4 DEF Uninstalls, Uninstall
<1>5. CASE SignsOut /\ UNCHANGED setting
  BY <1>5 DEF SignsOut, SignOut
<1>6. CASE Asks /\ UNCHANGED setting
  BY <1>6 DEF Asks, Request
<1>7. CASE Registers /\ UNCHANGED setting
  BY <1>7 DEF Registers, Register
<1>8. CASE Refuses /\ UNCHANGED setting
  BY <1>8 DEF Refuses, Refuse
<1>9. CASE Publish /\ UNCHANGED setting
  BY <1>9 DEF Publish
<1>10. CASE CreateBatch /\ UNCHANGED setting
  BY <1>10 DEF CreateBatch
<1>11. CASE Page /\ UNCHANGED setting
  BY <1>11 DEF Page
<1>12. CASE Sends /\ UNCHANGED setting
  BY <1>12 DEF Sends, Send
<1>13. CASE Skips /\ UNCHANGED setting
  BY <1>13 DEF Skips, Skip
<1>14. CASE Records /\ UNCHANGED setting
  BY <1>14 DEF Records, RecordStatus
<1> QED
  BY <1>1, <1>2, <1>3, <1>4, <1>5, <1>6, <1>7, <1>8, <1>9, <1>10, <1>11, <1>12, <1>13, <1>14
     DEF Next, Phones, Registering, Notifying, SignsIn, SignsOut, Asks, Registers, Refuses,
         Records, Sends, Skips, Installing, Uninstalls

\* Whoever signs in takes the installation over.
TakenOver(p, i) ==
    [e \in DOMAIN enrolments |->
        IF enrolments[e].install = i /\ enrolments[e].who # p
        THEN [enrolments[e] EXCEPT !.revoked = TRUE] ELSE enrolments[e]]

LEMMA SignInWell ==
    ASSUME TypeOK, NEW i \in Installs, NEW p \in Persons, SignIn(p, i), UNCHANGED setting
    PROVE  /\ EnrolmentsGrow /\ RowsGrow
           /\ Len(enrolments') = Len(enrolments) + 1
           /\ DOMAIN enrolments' = DOMAIN enrolments \cup {Len(enrolments) + 1}
           /\ enrolments'[Len(enrolments) + 1] = [who |-> p, install |-> i, revoked |-> FALSE]
           /\ \A e \in DOMAIN enrolments :
                 enrolments'[e].revoked <=> \/ enrolments[e].revoked
                                            \/ enrolments[e].install = i /\ enrolments[e].who # p
<1> DEFINE E == [who : Persons, install : Installs, revoked : BOOLEAN]
           kept == TakenOver(p, i)
           new  == [who |-> p, install |-> i, revoked |-> FALSE]
           n    == Len(enrolments)
<1>1. enrolments' = Append(kept, new)
  <2>1. kept = [e \in DOMAIN enrolments |->
                  IF e \in {x \in DOMAIN enrolments :
                              enrolments[x].install = i /\ enrolments[x].who # p}
                  THEN [enrolments[e] EXCEPT !.revoked = TRUE] ELSE enrolments[e]]
    BY DEF TakenOver
  <2> QED  BY <2>1 DEF SignIn
<1>2. DOMAIN enrolments = 1..n /\ n \in Nat /\ \A e \in DOMAIN enrolments : enrolments[e] \in E
  BY RowsAre
<1>3. \A e \in 1..n : kept[e] \in E
  BY <1>2 DEF TakenOver
<1>4. kept \in Seq(E) /\ Len(kept) = n /\ DOMAIN kept = 1..n
  BY <1>2, <1>3 DEF TakenOver
<1>5. new \in E
  OBVIOUS
<1> HIDE DEF kept, new
<1>6. /\ enrolments' \in Seq(E) /\ Len(enrolments') = n + 1
      /\ \A e \in 1..n : enrolments'[e] = kept[e]
      /\ enrolments'[n + 1] = new
  BY <1>1, <1>4, <1>5, AppendProperties
<1>7. DOMAIN enrolments' = 1..n + 1
  BY <1>6, SequenceIs
<1>8. \A e \in DOMAIN enrolments :
          /\ enrolments'[e].who = enrolments[e].who
          /\ enrolments'[e].install = enrolments[e].install
          /\ enrolments'[e].revoked <=> \/ enrolments[e].revoked
                                        \/ enrolments[e].install = i /\ enrolments[e].who # p
  <2> TAKE e \in DOMAIN enrolments
  <2>1. enrolments'[e] = IF enrolments[e].install = i /\ enrolments[e].who # p
                         THEN [enrolments[e] EXCEPT !.revoked = TRUE] ELSE enrolments[e]
    BY <1>2, <1>6 DEF kept, TakenOver
  <2>2. enrolments[e] \in E
    BY <1>2
  <2> QED  BY <2>1, <2>2
<1>9. EnrolmentsGrow
  BY <1>2, <1>6, <1>8 DEF EnrolmentsGrow
<1>10. \E rs : regs' = End(rs)
  BY DEF SignIn
<1>11. RowsGrow
  BY <1>10, EndWell
<1>12. 1..n + 1 = 1..n \cup {n + 1}
  BY <1>2
<1> QED  BY <1>2, <1>6, <1>7, <1>8, <1>9, <1>11, <1>12 DEF new

LEMMA Growing ==
    ASSUME TypeOK, [Next]_vars
    PROVE  /\ RowsGrow /\ EnrolmentsGrow /\ clock' \in {clock, clock + 1}
<1>1. UNCHANGED setting
  BY WhatMoves
<1>2. EnrolmentsGrow
  BY <1>1, WhatMoves, SignInWell, EnrolmentsRest DEF SignsIn
<1>3. ASSUME SignsIn PROVE RowsGrow
  BY <1>1, <1>3, SignInWell DEF SignsIn
<1>4. ASSUME SignsOut PROVE RowsGrow
  <2>1. \E rs : regs' = End(rs)
    BY <1>4 DEF SignsOut, SignOut
  <2> QED  BY <2>1, EndWell
<1>5. ASSUME Records PROVE RowsGrow
  <2>1. \E rs : regs' = End(rs)
    BY <1>5 DEF Records, RecordStatus
  <2> QED  BY <2>1, EndWell
<1>6. ASSUME Registers PROVE RowsGrow
  BY <1>1, <1>6, RegisterWell DEF Registers
<1>7. RowsGrow
  BY <1>3, <1>4, <1>5, <1>6, WhatMoves, RowsRest
<1>8. clock' \in {clock, clock + 1}
  BY WhatMoves DEF CreateBatch, Sends, Send
<1> QED  BY <1>2, <1>7, <1>8

\* Who registered what, and when, stays as it was.
LEMMA Constancy ==
    ASSUME TypeOK, RowsGrow, EnrolmentsGrow
    PROVE  /\ DOMAIN regs \subseteq DOMAIN regs' /\ DOMAIN enrolments \subseteq DOMAIN enrolments'
           /\ DOMAIN regs' = 1..Len(regs') /\ DOMAIN enrolments' = 1..Len(enrolments')
           /\ \A r \in DOMAIN regs : Owner(r)' = Owner(r) /\ Held(r)' = Held(r)
<1>1. /\ DOMAIN regs' = 1..Len(regs') /\ DOMAIN enrolments' = 1..Len(enrolments')
      /\ Len(regs') \in Nat /\ Len(enrolments') \in Nat
  BY SequenceIs DEF RowsGrow, EnrolmentsGrow
<1>2. DOMAIN regs \subseteq DOMAIN regs' /\ DOMAIN enrolments \subseteq DOMAIN enrolments'
  BY <1>1, RowsAre DEF RowsGrow, EnrolmentsGrow
<1>3. \A r \in DOMAIN regs : Owner(r)' = Owner(r) /\ Held(r)' = Held(r)
  BY <1>2, RowsAre DEF RowsGrow, EnrolmentsGrow, Owner, Held
<1> QED  BY <1>1, <1>2, <1>3

-----------------------------------------------------------------------------
(* Types. *)

LEMMA SettingFits ==
    ASSUME TypeOK
    PROVE  /\ DOMAIN People \subseteq Nat
           /\ \A i, j \in DOMAIN People : People[i] = People[j] => i = j
           /\ Providers \subseteq {"expo", "apns"} /\ Selected \in Providers
           /\ NoToken \notin Tokens /\ PageSize \in Nat \ {0}
BY AudienceAssumption DEF TypeOK, People, Providers, Selected, Tokens, PageSize

\* What a page holds, and what it leaves of the batch.
Ahead(c, asOf) == Cardinality({d \in Candidates(asOf) : Earlier(d, c, asOf)})
OnPage == {c \in Candidates(batch.asOf) :
              /\ Ahead(c, batch.asOf) \in
                    batch.cursor..PageEnd(Cardinality(Candidates(batch.asOf))) - 1
              /\ Active(c, batch.asOf)}

LEMMA PageWell ==
    ASSUME Typed, Page
    PROVE  LET total == Cardinality(Candidates(batch.asOf)) IN
           /\ ~batch.done
           /\ total \in Nat /\ PageEnd(total) \in Nat
           /\ OnPage \subseteq Candidates(batch.asOf)
           /\ batch' = [batch EXCEPT !.cursor = PageEnd(total),
                                     !.todo = @ \cup OnPage, !.handed = @ \cup OnPage,
                                     !.done = PageEnd(total) = total \/ batch.cursor > total]
<1>1. Cardinality(Candidates(batch.asOf)) \in Nat
  BY FinitelyMany DEF Typed
<1>2. batch.cursor \in Nat
  BY DEF Typed, BatchTyped
<1>3. PageEnd(Cardinality(Candidates(batch.asOf))) \in Nat
  BY <1>1, <1>2, SettingFits DEF Typed, PageEnd
<1>4. batch' = PageOf(Candidates(batch.asOf)) /\ ~batch.done
  BY DEF Page
<1>5. batch' = [batch EXCEPT !.cursor = PageEnd(Cardinality(Candidates(batch.asOf))),
                    !.todo = @ \cup OnPage, !.handed = @ \cup OnPage,
                    !.done = PageEnd(Cardinality(Candidates(batch.asOf)))
                                = Cardinality(Candidates(batch.asOf))
                             \/ batch.cursor > Cardinality(Candidates(batch.asOf))]
  BY <1>4 DEF PageOf, Paged, OnPage, Ahead
<1> QED  BY <1>1, <1>3, <1>4, <1>5 DEF OnPage

Batches == [asOf : Nat, cursor : Nat, done : BOOLEAN,
            todo : SUBSET Candidature, handed : SUBSET Candidature,
            got : SUBSET [push : Candidature, by : SUBSET Persons]]

LEMMA HoldersArePersons ==
    ASSUME TypeOK, NEW t
    PROVE  HolderOf(t) \subseteq Persons
BY RowsAre DEF HolderOf

LEMMA BatchStays ==
    ASSUME Typed, [Next]_vars
    PROVE  BatchTyped' /\ batch'.todo \subseteq batch'.handed
<1>1. /\ batch \in Batches /\ batch.asOf < clock /\ batch.todo \subseteq batch.handed
      /\ \A c \in batch.handed : c.endpoint \in DOMAIN regs
      /\ clock \in Nat \ {0} /\ batch.asOf \in Nat
  BY DEF Typed, BatchTyped, TypeOK, Batches
<1>2. /\ Candidature' = Candidature /\ Persons' = Persons
      /\ clock' \in {clock, clock + 1} /\ DOMAIN regs \subseteq DOMAIN regs'
  BY WhatMoves, SettingStays, Growing, Constancy DEF Typed
<1>3. SUFFICES /\ batch' \in Batches /\ batch'.asOf < clock' /\ batch'.todo \subseteq batch'.handed
               /\ \A c \in batch'.handed : c.endpoint \in DOMAIN regs
  BY <1>2 DEF BatchTyped, Batches
<1>4. CASE UNCHANGED batch
  BY <1>1, <1>2, <1>4
<1>5. CASE CreateBatch
  <2>1. batch' = [NoBatch EXCEPT !.asOf = clock, !.done = FALSE] /\ clock' = clock + 1
    BY <1>5 DEF CreateBatch
  <2>2. batch' = [asOf |-> clock, cursor |-> 0, done |-> FALSE, todo |-> {}, handed |-> {}, got |-> {}]
    BY <2>1 DEF NoBatch
  <2>3. batch' \in Batches
    BY <1>1, <2>2 DEF Batches
  <2>4. batch'.asOf = clock /\ batch'.todo = {} /\ batch'.handed = {}
    BY <2>2
  <2>5. clock < clock'
    BY <1>1, <2>1
  <2> QED  BY <2>3, <2>4, <2>5
<1>6. CASE Page
  <2>1. /\ OnPage \subseteq Candidates(batch.asOf)
        /\ PageEnd(Cardinality(Candidates(batch.asOf))) \in Nat
        /\ batch' = [batch EXCEPT !.cursor = PageEnd(Cardinality(Candidates(batch.asOf))),
                                  !.todo = @ \cup OnPage, !.handed = @ \cup OnPage,
                                  !.done = PageEnd(Cardinality(Candidates(batch.asOf)))
                                             = Cardinality(Candidates(batch.asOf))
                                           \/ batch.cursor > Cardinality(Candidates(batch.asOf))]
    BY <1>6, PageWell
  <2>2. \A c \in OnPage : c \in Candidature /\ c.endpoint \in DOMAIN regs
    BY <2>1, CandidateShape DEF Typed
  <2>3. batch' \in Batches
    BY <1>1, <2>1, <2>2 DEF Batches
  <2>4. /\ batch'.asOf = batch.asOf /\ batch'.todo = batch.todo \cup OnPage
        /\ batch'.handed = batch.handed \cup OnPage
    BY <1>1, <2>1 DEF Batches
  <2> QED  BY <1>1, <1>2, <2>2, <2>3, <2>4
<1>7. CASE Sends
  <2>1. PICK c \in batch.todo : Send(c)
    BY <1>7 DEF Sends
  <2> DEFINE g == [push |-> c, by |-> HolderOf(c.token)]
  <2>2. \/ batch' = [batch EXCEPT !.todo = @ \ {c}, !.got = @ \cup {g}]
        \/ batch' = [batch EXCEPT !.todo = @ \ {c}]
    BY <2>1 DEF Send
  <2>3. HolderOf(c.token) \subseteq Persons /\ c \in Candidature
    BY <1>1, HoldersArePersons DEF Typed, Batches
  <2>4. g \in [push : Candidature, by : SUBSET Persons]
    BY <2>3
  <2> HIDE DEF g
  <2>5. batch' \in Batches
    <3>1. batch.todo \ {c} \in SUBSET Candidature
          /\ batch.got \cup {g} \in SUBSET [push : Candidature, by : SUBSET Persons]
      BY <1>1, <2>4 DEF Batches
    <3>2. CASE batch' = [batch EXCEPT !.todo = @ \ {c}, !.got = @ \cup {g}]
      BY <1>1, <3>1, <3>2 DEF Batches
    <3>3. CASE batch' = [batch EXCEPT !.todo = @ \ {c}]
      BY <1>1, <3>1, <3>3 DEF Batches
    <3> QED  BY <2>2, <3>2, <3>3
  <2>6. batch'.asOf = batch.asOf /\ batch'.todo \subseteq batch.todo /\ batch'.handed = batch.handed
    BY <1>1, <2>2 DEF Batches
  <2>7. batch'.asOf < clock'
    BY <1>1, <1>2, <2>6
  <2> QED  BY <1>1, <2>5, <2>6, <2>7
<1>8. CASE Skips
  <2>1. PICK c \in batch.todo : batch' = [batch EXCEPT !.todo = @ \ {c}]
    BY <1>8 DEF Skips, Skip
  <2> QED  BY <1>1, <1>2, <2>1 DEF Batches
<1> QED  BY <1>4, <1>5, <1>6, <1>7, <1>8, WhatMoves

LEMMA FailuresStay ==
    ASSUME Typed, [Next]_vars
    PROVE  FailuresTyped' /\ \A f \in failures' : f.endpoint \in DOMAIN regs' /\ f.at < clock'
<1> DEFINE F == [endpoint : DOMAIN regs, token : Providers \X Tokens, at : Nat, told : BOOLEAN]
<1>1. failures \subseteq F /\ (\A f \in failures : f.at < clock) /\ clock \in Nat
  BY DEF Typed, FailuresTyped, TypeOK
<1>2. /\ Providers' = Providers /\ Tokens' = Tokens
      /\ clock' \in {clock, clock + 1} /\ DOMAIN regs \subseteq DOMAIN regs'
  BY WhatMoves, SettingStays, Growing, Constancy DEF Typed
<1>3. SUFFICES failures' \subseteq F /\ \A f \in failures' : f.at < clock'
  BY <1>2 DEF FailuresTyped
<1>4. CASE UNCHANGED failures
  BY <1>1, <1>2, <1>4
<1>5. CASE Sends
  <2>1. PICK c \in batch.todo : Send(c)
    BY <1>5 DEF Sends
  <2>2. c \in Candidature /\ c.endpoint \in DOMAIN regs /\ c.token \in Providers \X Tokens
    BY DEF Typed, TypeOK, BatchTyped, Candidature
  <2>3. failures' \subseteq failures
            \cup {[endpoint |-> c.endpoint, token |-> c.token, at |-> clock, told |-> FALSE]}
        /\ clock' = clock + 1
    BY <2>1 DEF Send
  <2>4. [endpoint |-> c.endpoint, token |-> c.token, at |-> clock, told |-> FALSE] \in F
    BY <1>1, <2>2
  <2>5. failures' \subseteq F
    BY <1>1, <2>3, <2>4
  <2>6. \A f \in failures : f.at \in Nat
    BY <1>1
  <2> QED  BY <1>1, <2>3, <2>5, <2>6
<1>6. CASE Records
  <2>1. PICK f \in failures :
           failures' = (failures \ {f}) \cup {[f EXCEPT !.told = TRUE]}
    BY <1>6 DEF Records, RecordStatus
  <2>2. [f EXCEPT !.told = TRUE] \in F /\ [f EXCEPT !.told = TRUE].at < clock
    BY <1>1
  <2>3. failures' \subseteq F
    BY <1>1, <2>1, <2>2
  <2>4. \A g \in failures' : g.at < clock /\ g.at \in Nat
    BY <1>1, <2>1, <2>2, <2>3
  <2> QED  BY <1>1, <1>2, <2>3, <2>4
<1> QED  BY <1>4, <1>5, <1>6, WhatMoves

LEMMA RequestsStay ==
    ASSUME Typed, [Next]_vars
    PROVE  requests' \subseteq [enrol : DOMAIN enrolments', token : Tokens',
                                at : 1..clock', newer : BOOLEAN]
<1> DEFINE Q == [enrol : DOMAIN enrolments, token : Tokens, at : 1..clock, newer : BOOLEAN]
<1>1. requests \subseteq Q /\ clock \in Nat \ {0}
  BY DEF Typed, TypeOK
<1>2. /\ Tokens' = Tokens /\ clock' \in {clock, clock + 1}
      /\ DOMAIN enrolments \subseteq DOMAIN enrolments'
  BY WhatMoves, SettingStays, Growing, Constancy DEF Typed
<1>3. SUFFICES requests' \subseteq Q
  BY <1>1, <1>2
<1>4. CASE UNCHANGED requests \/ Registers \/ Refuses
  BY <1>1, <1>4 DEF Registers, Refuses, Register, Refuse
<1>5. CASE Asks
  <2>1. PICK e \in DOMAIN enrolments, newer \in BOOLEAN : Request(e, newer)
    BY <1>5 DEF Asks
  <2>2. holds[enrolments[e].install] \in Tokens
    BY <2>1, RowsAre DEF Request, Typed, TypeOK
  <2>3. [enrol |-> e, token |-> holds[enrolments[e].install], at |-> clock, newer |-> newer] \in Q
    BY <1>1, <2>2
  <2> QED  BY <1>1, <2>1, <2>3 DEF Request
<1> QED  BY <1>4, <1>5, WhatMoves

LEMMA TypesStay ==
    ASSUME Typed, [Next]_vars
    PROVE  Typed'
<1>1. /\ UNCHANGED setting /\ RowsGrow /\ EnrolmentsGrow /\ clock' \in {clock, clock + 1}
      /\ clock \in Nat \ {0}
  BY WhatMoves, Growing DEF Typed, TypeOK
<1>2. /\ DOMAIN regs \subseteq DOMAIN regs' /\ DOMAIN enrolments \subseteq DOMAIN enrolments'
  BY <1>1, Constancy DEF Typed
<1>3. /\ setting' \in Settings /\ clock' \in Nat \ {0}
      /\ enrolments' \in Seq([who : Persons', install : Installs', revoked : BOOLEAN])
      /\ regs' \in Seq(Rows')
  BY <1>1, SettingStays DEF Typed, TypeOK, RowsGrow, EnrolmentsGrow
<1>4. \A r \in DOMAIN regs' : /\ regs'[r].enrol \in DOMAIN enrolments'
                              /\ regs'[r].at <= clock' /\ regs'[r].off <= clock'
  <2> TAKE r \in DOMAIN regs'
  <2>1. regs'[r].enrol \in DOMAIN enrolments'
    BY <1>1, <1>2 DEF RowsGrow
  <2>2. regs'[r] \in Rows
    BY <1>1, SequenceIs DEF RowsGrow
  <2>3. regs'[r].at <= clock /\ regs'[r].off <= clock
    <3>1. CASE r \in DOMAIN regs
      <4>1. regs[r].at <= clock /\ regs[r].off <= clock
        BY <3>1 DEF Typed, TypeOK
      <4>2. regs'[r].at = regs[r].at
            /\ (regs'[r].off = regs[r].off \/ regs'[r].off \in 1..clock)
        BY <1>1, <3>1 DEF RowsGrow
      <4> QED  BY <1>1, <4>1, <4>2
    <3>2. CASE r \notin DOMAIN regs
      BY <1>1, <3>2 DEF RowsGrow, Open
    <3> QED  BY <3>1, <3>2
  <2>4. regs'[r].at \in Nat /\ regs'[r].off \in Nat
    BY <2>2 DEF Rows
  <2> QED  BY <1>1, <2>1, <2>3, <2>4
<1>5. holds' \in [Installs' -> Tokens' \cup {NoToken}]
  <2>1. holds' \in [Installs -> Tokens \cup {NoToken}]
    BY WhatMoves DEF Typed, TypeOK, Installing, Uninstalls, Install, Renew, Uninstall
  <2> QED  BY <1>1, <2>1, SettingStays
<1>6. snapshot' \subseteq DOMAIN regs'
  BY <1>2, WhatMoves DEF Typed, TypeOK, Publish
<1>7. invalid' \subseteq DOMAIN regs'
  <2>1. CASE Records
    <3>1. PICK f \in failures : invalid' = invalid \cup {f.endpoint}
      BY <2>1 DEF Records, RecordStatus
    <3> QED  BY <1>2, <3>1 DEF Typed, TypeOK
  <2> QED  BY <1>2, <2>1, WhatMoves DEF Typed, TypeOK
<1>8. TypeOK'
  BY <1>3, <1>4, <1>5, <1>6, <1>7, RequestsStay, FailuresStay, BatchStays DEF TypeOK
<1> QED  BY <1>8, BatchStays, FailuresStay DEF Typed

-----------------------------------------------------------------------------
(* One owner of a token, one registration of a device with each provider. *)

\* Rows that live after a step lived before it, unless they are new.
LEMMA EndedOnce ==
    ASSUME TypeOK, RowsGrow, NEW r \in DOMAIN regs, regs'[r].off = Open
    PROVE  regs[r].off = Open
BY DEF TypeOK, RowsGrow, Open

LEMMA OwnersRest ==
    ASSUME TypeOK, RowsGrow, EnrolmentsGrow, DOMAIN regs' = DOMAIN regs
    PROVE  (OneOwner => OneOwner') /\ (OnePerDevice => OnePerDevice')
<1>1. \A r \in DOMAIN regs : Held(r)' = Held(r) /\ (regs'[r].off = Open => regs[r].off = Open)
  BY Constancy, EndedOnce
<1> QED  BY <1>1 DEF OneOwner, OnePerDevice, RowsGrow

\* What a registration leaves of the rows that it is in the place of.
LEMMA NothingBeside ==
    ASSUME TypeOK, NEW q \in requests, Register(q), UNCHANGED setting,
           NEW r \in DOMAIN regs' \ DOMAIN regs, NEW s \in DOMAIN regs,
           \/ Held(s) = <<regs'[r].provider, regs'[r].token>>
           \/ regs[s].enrol = regs'[r].enrol /\ regs[s].provider = regs'[r].provider
    PROVE  regs'[s].off # Open
<1> DEFINE v == regs'[r].provider
<1>1. /\ RowsGrow /\ Kept(q, v) = {} /\ v \in Providers
      /\ regs'[r].enrol = q.enrol /\ regs'[r].token = q.token
      /\ regs'[s].off = IF s \in EndedBy(q) /\ regs[s].off = Open THEN q.at ELSE regs[s].off
  BY RegisterWell DEF RowOf
<1>2. q.at \in 1..clock /\ clock \in Nat
  BY DEF TypeOK
<1>3. regs[s].provider = v
  BY DEF Held
<1>4. s \notin KeptBy(q)
  <2>1. ASSUME NEW w \in Providers, s \in Kept(q, w)
        PROVE  w = v
    <3>1. <<regs[s].provider, regs[s].token>> = <<w, q.token>>
      BY <2>1 DEF Kept, Held
    <3> QED  BY <1>3, <3>1
  <2> QED  BY <1>1, <2>1 DEF KeptBy
<1>5. s \in ReleasedBy(q) \/ regs[s].enrol = q.enrol
  BY <1>1 DEF ReleasedBy, Releases, Held
<1>6. s \in EndedBy(q)
  BY <1>4, <1>5 DEF EndedBy
<1> QED  BY <1>1, <1>2, <1>6 DEF Open

LEMMA OwnersStay ==
    ASSUME Typed, OneOwner, OnePerDevice, [Next]_vars
    PROVE  OneOwner' /\ OnePerDevice'
<1>1. /\ UNCHANGED setting /\ RowsGrow /\ EnrolmentsGrow /\ TypeOK
  BY WhatMoves, Growing DEF Typed
<1>2. ASSUME DOMAIN regs' = DOMAIN regs PROVE OneOwner' /\ OnePerDevice'
  BY <1>1, <1>2, OwnersRest
<1>3. CASE UNCHANGED regs
  BY <1>2, <1>3
<1>4. CASE SignsIn \/ SignsOut \/ Records
  <2>1. \E rs : regs' = End(rs)
    BY <1>4 DEF SignsIn, SignIn, SignsOut, SignOut, Records, RecordStatus
  <2>2. DOMAIN regs' = DOMAIN regs
    BY <1>1, <2>1, EndWell
  <2> QED  BY <1>2, <2>2
<1>5. CASE Registers
  <2>1. PICK q \in requests : Register(q)
    BY <1>5 DEF Registers
  <2> DEFINE New == DOMAIN regs' \ DOMAIN regs
  <2>2. \A r \in DOMAIN regs : Held(r)' = Held(r) /\ (regs'[r].off = Open => regs[r].off = Open)
    BY <1>1, Constancy, EndedOnce
  <2>3. \A r \in DOMAIN regs : regs'[r].enrol = regs[r].enrol /\ regs'[r].provider = regs[r].provider
    BY <1>1 DEF RowsGrow
  <2>4. \A r, s \in New : regs'[r].provider = regs'[s].provider => r = s
    BY <1>1, <2>1, RegisterWell
  <2>5. ASSUME NEW r \in New, NEW s \in DOMAIN regs,
               \/ Held(r)' = Held(s)'
               \/ regs'[r].enrol = regs'[s].enrol /\ regs'[r].provider = regs'[s].provider
        PROVE  regs'[s].off # Open
    <3>1. Held(r)' = <<regs'[r].provider, regs'[r].token>> /\ Held(s)' = Held(s)
      BY <2>2 DEF Held
    <3> QED  BY <1>1, <2>1, <2>3, <2>5, <3>1, NothingBeside
  <2>6. \A r, s \in DOMAIN regs' :
           /\ regs'[r].off = Open /\ regs'[s].off = Open
           /\ \/ Held(r)' = Held(s)'
              \/ regs'[r].enrol = regs'[s].enrol /\ regs'[r].provider = regs'[s].provider
           => r = s
    <3> TAKE r, s \in DOMAIN regs'
    <3> HAVE /\ regs'[r].off = Open /\ regs'[s].off = Open
             /\ \/ Held(r)' = Held(s)'
                \/ regs'[r].enrol = regs'[s].enrol /\ regs'[r].provider = regs'[s].provider
    <3>1. CASE r \in DOMAIN regs /\ s \in DOMAIN regs
      BY <2>2, <2>3, <3>1 DEF OneOwner, OnePerDevice
    <3>2. CASE r \in New /\ s \in New
      BY <2>4, <3>2 DEF Held
    <3>3. CASE r \in New /\ s \in DOMAIN regs
      BY <2>5, <3>3
    <3>4. CASE r \in DOMAIN regs /\ s \in New
      BY <2>5, <3>4
    <3> QED  BY <3>1, <3>2, <3>3, <3>4
  <2>7. OneOwner'
    BY <2>6 DEF OneOwner
  <2>8. OnePerDevice'
    BY <2>6 DEF OnePerDevice
  <2> QED  BY <2>7, <2>8
<1> QED  BY <1>3, <1>4, <1>5, WhatMoves

-----------------------------------------------------------------------------
(* Where a push arrives. *)

\* A token that a phone holds was registered, or is being registered, by an
\* enrolment of that phone only; a phone is enrolled once.
Traced ==
    /\ \A i, j \in Installs : holds[i] = holds[j] => i = j \/ holds[i] = NoToken
    /\ \A j \in Installs, r \in DOMAIN regs :
          holds[j] = regs[r].token => j = enrolments[regs[r].enrol].install
    /\ \A j \in Installs, q \in requests :
          holds[j] = q.token => j = enrolments[q.enrol].install

EnrolledOnce ==
    \A d, e \in DOMAIN enrolments :
        /\ ~enrolments[d].revoked /\ ~enrolments[e].revoked
        /\ enrolments[d].install = enrolments[e].install
        => d = e

\* A device that no endpoint was published for is addressed by its own row.
Addressed ==
    \A c \in batch.handed :
        c.endpoint \notin snapshot => c.token = Held(c.endpoint) /\ c.who = Owner(c.endpoint)

LEMMA EnrolledStays ==
    ASSUME Typed, EnrolledOnce, [Next]_vars
    PROVE  EnrolledOnce'
<1>1. UNCHANGED setting /\ TypeOK
  BY WhatMoves DEF Typed
<1>2. CASE SignsIn
  <2>1. PICK i \in Installs, p \in Persons : SignIn(p, i)
    BY <1>2 DEF SignsIn
  <2> DEFINE n == Len(enrolments)
  <2>2. /\ EnrolmentsGrow /\ DOMAIN enrolments' = DOMAIN enrolments \cup {n + 1}
        /\ enrolments'[n + 1] = [who |-> p, install |-> i, revoked |-> FALSE]
        /\ \A e \in DOMAIN enrolments :
              enrolments'[e].revoked <=> \/ enrolments[e].revoked
                                         \/ enrolments[e].install = i /\ enrolments[e].who # p
    BY <1>1, <2>1, SignInWell
  <2>3. Current(p, i) = {}
    BY <2>1 DEF SignIn
  <2>4. \A e \in DOMAIN enrolments : ~enrolments'[e].revoked => enrolments[e].install # i
    BY <2>2, <2>3 DEF Current
  <2>5. \A e \in DOMAIN enrolments :
           /\ enrolments'[e].install = enrolments[e].install
           /\ ~enrolments'[e].revoked => ~enrolments[e].revoked
    BY <2>2 DEF EnrolmentsGrow
  <2>6. enrolments'[n + 1].install = i
    BY <2>2
  <2> HIDE DEF n
  <2> QED  BY <2>2, <2>4, <2>5, <2>6 DEF EnrolledOnce
<1>3. CASE UNCHANGED enrolments
  BY <1>3 DEF EnrolledOnce
<1> QED  BY <1>2, <1>3, WhatMoves

LEMMA AddressedStays ==
    ASSUME Typed, Addressed, [Next]_vars
    PROVE  Addressed'
<1>1. /\ TypeOK /\ RowsGrow /\ EnrolmentsGrow
      /\ \A r \in DOMAIN regs : Owner(r)' = Owner(r) /\ Held(r)' = Held(r)
      /\ \A c \in batch.handed : c.endpoint \in DOMAIN regs
  BY Growing, Constancy DEF Typed, BatchTyped
<1>2. CASE Publish
  <2>1. batch' = NoBatch
    BY <1>2 DEF Publish
  <2> QED  BY <2>1 DEF Addressed, NoBatch
<1>3. CASE UNCHANGED snapshot
  <2>1. SUFFICES ASSUME NEW c \in batch'.handed, c.endpoint \notin snapshot
                 PROVE  /\ c.token = Held(c.endpoint) /\ c.who = Owner(c.endpoint)
                        /\ c.endpoint \in DOMAIN regs
    BY <1>1, <1>3 DEF Addressed
  <2>2. CASE c \in batch.handed
    BY <1>1, <2>1, <2>2 DEF Addressed
  <2>3. CASE UNCHANGED batch \/ Sends \/ Skips
    <3>1. batch'.handed = batch.handed
      BY <2>3 DEF Sends, Skips, Send, Skip, Typed, BatchTyped
    <3> QED  BY <2>2, <3>1
  <2>4. CASE CreateBatch
    <3>1. batch'.handed = {}
      BY <2>4 DEF CreateBatch, NoBatch
    <3> QED  BY <3>1
  <2>5. CASE Page
    <3>1. batch'.handed = batch.handed \cup OnPage /\ OnPage \subseteq Candidates(batch.asOf)
      BY <2>5, PageWell DEF Typed, BatchTyped
    <3> QED  BY <1>1, <2>1, <2>2, <3>1, CandidateShape
  <2> QED  BY <2>3, <2>4, <2>5, WhatMoves
<1> QED  BY <1>2, <1>3, WhatMoves

LEMMA TracedStays ==
    ASSUME Typed, Traced, [Next]_vars, "move" \notin Disturbances
    PROVE  Traced'
<1>1. /\ TypeOK /\ UNCHANGED setting /\ RowsGrow /\ EnrolmentsGrow /\ Installs' = Installs
      /\ DOMAIN regs \subseteq DOMAIN regs' /\ DOMAIN enrolments \subseteq DOMAIN enrolments'
      /\ requests \subseteq [enrol : DOMAIN enrolments, token : Tokens,
                             at : 1..clock, newer : BOOLEAN]
      /\ holds \in [Installs -> Tokens \cup {NoToken}]
      /\ NoToken \notin Tokens
  BY Growing, Constancy, WhatMoves, SettingStays, SettingFits DEF Typed, TypeOK
<1>2. \A e \in DOMAIN enrolments : enrolments'[e].install = enrolments[e].install
  BY <1>1 DEF EnrolmentsGrow
<1>3. /\ \A r \in DOMAIN regs : /\ regs'[r].enrol = regs[r].enrol /\ regs'[r].token = regs[r].token
                                /\ regs[r].enrol \in DOMAIN enrolments /\ regs[r].token \in Tokens
      /\ \A q \in requests : q.enrol \in DOMAIN enrolments /\ q.token \in Tokens
  BY <1>1, RowsAre DEF RowsGrow, Rows
<1>4. ASSUME NEW i \in Installs, NEW t \in Tokens, Install(i, t) \/ Renew(i, t)
      PROVE  Traced'
  <2>1. /\ holds' = [holds EXCEPT ![i] = t] /\ UNCHANGED <<regs, requests, enrolments>>
        /\ \A j \in Installs : holds[j] # t
        /\ \A q \in requests : q.token # t
        /\ \A r \in DOMAIN regs : regs[r].token # t
    BY <1>4 DEF Install, Renew, Fresh
  <2>2. \A j \in Installs : holds'[j] = IF j = i THEN t ELSE holds[j]
    BY <1>1, <2>1
  <2>3. \A j, k \in Installs : holds'[j] = holds'[k] => j = k \/ holds'[j] = NoToken
    BY <2>1, <2>2 DEF Traced
  <2> QED  BY <1>1, <2>1, <2>2, <2>3 DEF Traced
<1>5. CASE Uninstalls
  <2>1. PICK i \in Installs : holds' = [holds EXCEPT ![i] = NoToken]
    BY <1>5 DEF Uninstalls, Uninstall
  <2>2. \A j \in Installs : holds'[j] = IF j = i THEN NoToken ELSE holds[j]
    BY <1>1, <2>1
  <2>3. UNCHANGED <<regs, requests, enrolments>>
    BY <1>5 DEF Uninstalls, Uninstall
  <2>4. \A j, k \in Installs : holds'[j] = holds'[k] => j = k \/ holds'[j] = NoToken
    BY <2>2 DEF Traced
  <2>5. \A j \in Installs, r \in DOMAIN regs :
           holds'[j] = regs[r].token => j = enrolments[regs[r].enrol].install
    BY <1>1, <1>3, <2>2 DEF Traced
  <2>6. \A j \in Installs, q \in requests :
           holds'[j] = q.token => j = enrolments[q.enrol].install
    BY <1>1, <1>3, <2>2 DEF Traced
  <2> QED  BY <1>1, <2>3, <2>4, <2>5, <2>6 DEF Traced
<1>6. ASSUME UNCHANGED holds
      PROVE  Traced'
  <2>1. \A j \in Installs, r \in DOMAIN regs' :
           holds[j] = regs'[r].token => j = enrolments'[regs'[r].enrol].install
    <3> TAKE j \in Installs, r \in DOMAIN regs'
    <3>1. CASE r \in DOMAIN regs
      BY <1>2, <1>3, <3>1 DEF Traced
    <3>2. CASE r \notin DOMAIN regs
      <4>1. ~UNCHANGED regs /\ ~\E rs : regs' = End(rs)
        BY <3>2, <1>1, EndWell
      <4>2. PICK q \in requests : Register(q)
        BY <4>1, WhatMoves DEF SignsIn, SignIn, SignsOut, SignOut, Records, RecordStatus, Registers
      <4>3. regs'[r].enrol = q.enrol /\ regs'[r].token = q.token
        BY <1>1, <3>2, <4>2, RegisterWell DEF RowOf
      <4> QED  BY <1>2, <1>3, <4>3 DEF Traced
    <3> QED  BY <3>1, <3>2
  <2>2. \A j \in Installs, q \in requests' :
           holds[j] = q.token => j = enrolments'[q.enrol].install
    <3> TAKE j \in Installs, q \in requests'
    <3>1. CASE q \in requests
      BY <1>2, <1>3, <3>1 DEF Traced
    <3>2. CASE q \notin requests
      <4>1. PICK e \in DOMAIN enrolments, newer \in BOOLEAN : Request(e, newer)
        BY <3>2, WhatMoves DEF Asks, Registers, Refuses, Register, Refuse
      <4>2. /\ q.token = holds[enrolments[e].install] /\ q.enrol = e
            /\ holds[enrolments[e].install] # NoToken
        BY <3>2, <4>1 DEF Request
      <4>3. enrolments[e].install \in Installs
        BY <1>1, RowsAre
      <4> QED  BY <1>2, <4>2, <4>3 DEF Traced
    <3> QED  BY <3>1, <3>2
  <2> QED  BY <1>1, <1>6, <2>1, <2>2 DEF Traced
<1> QED  BY <1>4, <1>5, <1>6, WhatMoves DEF Installing

\* The holder of the phone that a push arrives at is the one it is for.
LEMMA SentToOwner ==
    ASSUME Typed, Traced, EnrolledOnce, Addressed,
           NEW c \in batch.todo, SendEligible(c)
    PROVE  HolderOf(c.token) \subseteq {c.who}
<1>1. TypeOK /\ c \in batch.handed /\ c.who \in Persons
  BY DEF Typed, TypeOK, BatchTyped, Candidature
<1>2. \E r \in Group(c.who, Selected) :
         ~enrolments[regs[r].enrol].revoked /\ Held(r) = c.token
  <2>1. CASE c.endpoint \in snapshot
    <3> DEFINE r == Resolved(c.who, Now)[c.endpoint]
    <3>1. c.endpoint \in DOMAIN Resolved(c.who, Now) /\ Held(r) = c.token
      BY <2>1 DEF SendEligible, Active
    <3>2. r \in Group(c.who, Selected) /\ Live(r, Now)
      BY <1>1, <3>1, ResolvedWell
    <3> QED  BY <3>1, <3>2 DEF Live, LiveAt
  <2>2. CASE c.endpoint \notin snapshot
    <3>1. c.endpoint \in Group(c.who, Selected) /\ Live(c.endpoint, batch.asOf)
      BY <1>1, <2>2, FannedOutWell DEF SendEligible
    <3> QED  BY <1>1, <2>2, <3>1 DEF Live, LiveAt, Addressed
  <2> QED  BY <2>1, <2>2
<1>3. PICK r \in Group(c.who, Selected) :
         ~enrolments[regs[r].enrol].revoked /\ Held(r) = c.token
  BY <1>2
<1>4. /\ r \in DOMAIN regs /\ regs[r].enrol \in DOMAIN enrolments
      /\ c.token[2] = regs[r].token /\ enrolments[regs[r].enrol].who = c.who
  <2>1. c.token = <<regs[r].provider, regs[r].token>>
    BY <1>3 DEF Held
  <2>2. r \in DOMAIN regs /\ regs[r].enrol \in DOMAIN enrolments
        /\ enrolments[regs[r].enrol].who = c.who
    BY <1>1, <1>3, RowsAre DEF Group, Owner
  <2> QED  BY <2>1, <2>2
<1>5. ASSUME NEW x \in DOMAIN enrolments, ~enrolments[x].revoked,
             holds[enrolments[x].install] = c.token[2]
      PROVE  enrolments[x].who = c.who
  <2>1. enrolments[x].install \in Installs
    BY <1>1, RowsAre
  <2>2. enrolments[x].install = enrolments[regs[r].enrol].install
    BY <1>4, <1>5, <2>1 DEF Traced
  <2>3. x = regs[r].enrol
    BY <1>3, <1>4, <1>5, <2>2 DEF EnrolledOnce
  <2> QED  BY <1>4, <2>3
<1> QED  BY <1>5 DEF HolderOf

LEMMA HandedOverStays ==
    ASSUME Typed, Traced, EnrolledOnce, Addressed, HandedOver, [Next]_vars
    PROVE  HandedOver'
<1>1. CASE Sends
  <2>1. PICK c \in batch.todo : Send(c)
    BY <1>1 DEF Sends
  <2>2. HolderOf(c.token) \subseteq {c.who}
    BY <2>1, SentToOwner DEF Send
  <2>3. batch'.got \subseteq batch.got \cup {[push |-> c, by |-> HolderOf(c.token)]}
    BY <2>1 DEF Send, Typed, BatchTyped
  <2> QED  BY <2>2, <2>3 DEF HandedOver
<1>2. CASE UNCHANGED batch \/ Skips
  <2>1. batch'.got = batch.got
    BY <1>2 DEF Skips, Skip, Typed, BatchTyped
  <2> QED  BY <2>1 DEF HandedOver
<1>3. CASE CreateBatch
  <2>1. batch'.got = {}
    BY <1>3 DEF CreateBatch, NoBatch
  <2> QED  BY <2>1 DEF HandedOver
<1>4. CASE Page
  <2>1. batch'.got = batch.got
    BY <1>4, PageWell DEF Typed, BatchTyped
  <2> QED  BY <2>1 DEF HandedOver
<1> QED  BY <1>1, <1>2, <1>3, <1>4, WhatMoves

-----------------------------------------------------------------------------
(* What was live when a batch was made stays so while it is paged. *)

Calm == Disturbances \cap {"hand over", "late"} = {}

\* Between two states, the registrations that live at an instant are the same.
Pinned(a) ==
    /\ UNCHANGED setting /\ snapshot' = snapshot
    /\ DOMAIN regs \subseteq DOMAIN regs'
    /\ \A r \in DOMAIN regs :
          /\ Owner(r)' = Owner(r) /\ Held(r)' = Held(r)
          /\ regs'[r].provider = regs[r].provider /\ regs'[r].enrol = regs[r].enrol
          /\ regs'[r].at = regs[r].at
          /\ Live(r, a)' <=> Live(r, a)
    /\ \A r \in DOMAIN regs' \ DOMAIN regs : ~Live(r, a)'

LEMMA PinnedSets ==
    ASSUME TypeOK, NEW a, Pinned(a), NEW p, NEW v \in Providers
    PROVE  /\ {e \in snapshot \cap Group(p, v) : Live(e, a)}'
                = {e \in snapshot \cap Group(p, v) : Live(e, a)}
           /\ GoneOf(p, v, a)' = GoneOf(p, v, a)
           /\ SpareOf(p, v, a)' = SpareOf(p, v, a)
           /\ {r \in Group(p, v) : Live(r, a)}' = {r \in Group(p, v) : Live(r, a)}
<1>1. snapshot \subseteq DOMAIN regs
  BY DEF TypeOK
<1>2. \A r \in DOMAIN regs : r \in Group(p, v)' <=> r \in Group(p, v)
  BY DEF Pinned, Group
<1>3. Group(p, v) \subseteq DOMAIN regs /\ Group(p, v)' \subseteq DOMAIN regs'
  BY DEF Group
<1>4. {e \in snapshot \cap Group(p, v) : Live(e, a)}'
                = {e \in snapshot \cap Group(p, v) : Live(e, a)}
  BY <1>1, <1>2 DEF Pinned
<1>5. GoneOf(p, v, a)' = GoneOf(p, v, a)
  BY <1>1, <1>2 DEF Pinned, GoneOf
<1>6. SpareOf(p, v, a)' = SpareOf(p, v, a)
  BY <1>1, <1>2, <1>3 DEF Pinned, SpareOf
<1>7. {r \in Group(p, v) : Live(r, a)}' = {r \in Group(p, v) : Live(r, a)}
  BY <1>2, <1>3 DEF Pinned
<1> QED  BY <1>4, <1>5, <1>6, <1>7

LEMMA PinnedNewer ==
    ASSUME NEW a, Pinned(a), NEW r \in DOMAIN regs, NEW s \in DOMAIN regs
    PROVE  Newer(r, s)' <=> Newer(r, s)
BY DEF Pinned, Newer

LEMMA PinnedReplacing ==
    ASSUME NEW a, Pinned(a), NEW G, NEW S \in SUBSET DOMAIN regs, NEW e
    PROVE  Replacing(e, G, S)' = Replacing(e, G, S)
<1>1. \A r \in S : {s \in S : Newer(s, r)}' = {s \in S : Newer(s, r)}
  <2> TAKE r \in S
  <2>1. \A s \in S : Newer(s, r)' <=> Newer(s, r)
    BY PinnedNewer
  <2> QED  BY <2>1
<1> QED  BY <1>1 DEF Replacing

LEMMA PinnedResolved ==
    ASSUME TypeOK, NEW a, Pinned(a), NEW p
    PROVE  Resolved(p, a)' = Resolved(p, a)
<1>1. Selected' = Selected /\ Selected \in Providers
  BY SettingFits DEF Pinned, Selected
<1>2. PICK v : v = Selected /\ v \in Providers
  BY <1>1
<1>3. PICK O : O = {e \in snapshot \cap Group(p, v) : Live(e, a)}
  OBVIOUS
<1>4. PICK G : G = GoneOf(p, v, a)
  OBVIOUS
<1>5. PICK S : S = SpareOf(p, v, a) /\ S \subseteq DOMAIN regs
  BY DEF SpareOf, Group
<1>6. /\ {e \in snapshot \cap Group(p, v) : Live(e, a)}' = O
      /\ GoneOf(p, v, a)' = G /\ SpareOf(p, v, a)' = S
  BY <1>2, <1>3, <1>4, <1>5, PinnedSets
<1>7. Resolved(p, a) = Assigned(O, G, S)
  BY <1>2, <1>3, <1>4, <1>5 DEF Resolved
<1>8. Resolved(p, a)' = Assigned(O, G, S)'
  <2>1. Selected' = v
    BY <1>1, <1>2
  <2>2. /\ {e \in snapshot \cap Group(p, Selected) : Live(e, a)}' = O
        /\ GoneOf(p, Selected, a)' = G /\ SpareOf(p, Selected, a)' = S
    BY <1>6, <2>1 DEF GoneOf, SpareOf, Group
  <2> QED  BY <2>2 DEF Resolved, Assigned, Replacing
<1>9. \A e : Replacing(e, G, S)' = Replacing(e, G, S)
  BY <1>5, PinnedReplacing
<1>10. Assigned(O, G, S)' = Assigned(O, G, S)
  BY <1>9 DEF Assigned
<1> QED  BY <1>7, <1>8, <1>10

LEMMA PinnedFannedOut ==
    ASSUME TypeOK, NEW a, Pinned(a), NEW p \in Persons
    PROVE  FannedOut(p, a)' = FannedOut(p, a)
<1>1. PICK v : v = Selected /\ v = Selected' /\ v \in Providers
  BY SettingFits DEF Pinned, Selected
<1>2. PICK C : C = Registrations(Resolved(p, a))
  OBVIOUS
<1>3. Registrations(Resolved(p, a))' = C
  BY <1>2, PinnedResolved DEF Registrations
<1>4. C \subseteq DOMAIN regs
  BY <1>2, ResolvedWell DEF Registrations, Group
<1>5. {regs[x].enrol : x \in C}' = {regs[x].enrol : x \in C}
  BY <1>4 DEF Pinned
<1>6. PICK L : L = {r \in Group(p, v) : Live(r, a)}
  OBVIOUS
<1>7. {r \in Group(p, v) : Live(r, a)}' = L /\ L \subseteq DOMAIN regs
  BY <1>1, <1>6, PinnedSets DEF Group
<1>8. PICK D : D = {regs[x].enrol : x \in C}
  OBVIOUS
<1>9. PICK F : F = {r \in L \ C : regs[r].enrol \notin D}
  OBVIOUS
<1>10. F = {r \in L \ C : regs'[r].enrol \notin D}
  BY <1>7, <1>9 DEF Pinned
<1>11. F = {r \in Group(p, Selected) \ C : Live(r, a) /\ regs[r].enrol \notin {regs[x].enrol : x \in C}}
  BY <1>1, <1>6, <1>8, <1>9
<1>12. F = {r \in Group(p, Selected) \ C : Live(r, a) /\ regs[r].enrol \notin {regs[x].enrol : x \in C}}'
  <2>1. {regs[x].enrol : x \in C}' = D
    BY <1>5, <1>8
  <2>2. {r \in Group(p, Selected) : Live(r, a)}' = L
    BY <1>1, <1>7 DEF Group
  <2> QED  BY <1>10, <2>1, <2>2
<1>13. FannedOutBeside(p, C, a) =
          {r \in F : \A s \in F : s # r /\ regs[s].enrol = regs[r].enrol => Newer(r, s)}
  BY <1>11 DEF FannedOutBeside
<1>14. FannedOutBeside(p, C, a)' =
          {r \in F : \A s \in F : s # r /\ regs'[s].enrol = regs'[r].enrol => Newer(r, s)'}
  BY <1>12 DEF FannedOutBeside
<1>15. F \subseteq DOMAIN regs
  BY <1>7, <1>9
<1>16. \A r, s \in F : /\ Newer(r, s)' <=> Newer(r, s)
                       /\ regs'[s].enrol = regs[s].enrol
  BY <1>15, PinnedNewer DEF Pinned
<1>17. FannedOutBeside(p, C, a)' = FannedOutBeside(p, C, a)
  BY <1>13, <1>14, <1>16
<1>18. FannedOut(p, a) = FannedOutBeside(p, C, a)
  BY <1>2 DEF FannedOut
<1>19. FannedOut(p, a)' = FannedOutBeside(p, C, a)'
  BY <1>3 DEF FannedOut, FannedOutBeside
<1> QED  BY <1>17, <1>18, <1>19

LEMMA PinnedCandidates ==
    ASSUME TypeOK, NEW a, Pinned(a)
    PROVE  Candidates(a)' = Candidates(a)
<1>1. Persons' = Persons
  BY SettingStays DEF Pinned
<1>2. ASSUME NEW p \in Persons
      PROVE  CandidatesOf(p, a)' = CandidatesOf(p, a)
  <2>1. PICK f : f = Resolved(p, a)
    OBVIOUS
  <2>2. Resolved(p, a)' = f /\ \A e \in DOMAIN f : f[e] \in DOMAIN regs
    BY <2>1, PinnedResolved, ResolvedWell DEF Group
  <2>3. PICK F : F = FannedOut(p, a)
    OBVIOUS
  <2>4. FannedOut(p, a)' = F /\ F \subseteq DOMAIN regs
    BY <2>3, PinnedFannedOut, FannedOutWell DEF Group
  <2>5. {x \in snapshot : Owner(x) = p}' = {x \in snapshot : Owner(x) = p}
    BY DEF Pinned, TypeOK
  <2>6. snapshot \subseteq DOMAIN regs
    BY DEF TypeOK
  <2>7. \A e, r : r \in DOMAIN regs => Candidate(p, e, r)' = Candidate(p, e, r)
    BY DEF Pinned, Candidate
  <2>8. CandidatesFrom(p, f, F)' = CandidatesFrom(p, f, F)
    <3>1. {Candidate(p, e, f[e]) : e \in DOMAIN f}' = {Candidate(p, e, f[e]) : e \in DOMAIN f}
      BY <2>2, <2>7
    <3>2. {Candidate(p, r, r) : r \in F}' = {Candidate(p, r, r) : r \in F}
      BY <2>4, <2>7
    <3>3. {Candidate(p, e, e) : e \in {x \in snapshot : Owner(x) = p} \ DOMAIN f}'
            = {Candidate(p, e, e) : e \in {x \in snapshot : Owner(x) = p} \ DOMAIN f}
      BY <2>5, <2>6, <2>7
    <3> QED  BY <3>1, <3>2, <3>3 DEF CandidatesFrom
  <2>9. CandidatesOf(p, a) = CandidatesFrom(p, f, F)
    BY <2>1, <2>3 DEF CandidatesOf
  <2>10. CandidatesOf(p, a)' = CandidatesFrom(p, f, F)'
    BY <2>2, <2>4 DEF CandidatesOf, CandidatesFrom
  <2> QED  BY <2>8, <2>9, <2>10
<1> QED  BY <1>1, <1>2 DEF Candidates

LEMMA PinnedOrder ==
    ASSUME TypeOK, NEW a, Pinned(a), NEW c \in Candidates(a), NEW d \in Candidates(a)
    PROVE  /\ Earlier(c, d, a)' <=> Earlier(c, d, a)
           /\ Standing(c, a)' <=> Standing(c, a)
<1>1. \A x \in Candidates(a) : Resolved(x.who, a)' = Resolved(x.who, a)
  BY PinnedResolved
<1>2. \A x \in Candidates(a) : Turn(x, a)' = Turn(x, a)
  BY <1>1 DEF Turn, Pinned
<1>3. \A x \in Candidates(a) : x.endpoint \in DOMAIN regs
  BY CandidateShape
<1>4. Newer(c.endpoint, d.endpoint)' <=> Newer(c.endpoint, d.endpoint)
  BY <1>3, PinnedNewer
<1>5. Listed(c.who, d.who)' <=> Listed(c.who, d.who)
  BY SettingStays DEF Pinned, Listed
<1>6. Turn(c, a)' = Turn(c, a) /\ Turn(d, a)' = Turn(d, a)
  BY <1>2
<1> QED  BY <1>1, <1>4, <1>5, <1>6 DEF Earlier, Standing, Pinned

LEMMA PinnedAhead ==
    ASSUME TypeOK, NEW a, Pinned(a), NEW c \in Candidates(a)
    PROVE  Ahead(c, a)' = Ahead(c, a)
<1>1. {d \in Candidates(a) : Earlier(d, c, a)}' = {d \in Candidates(a) : Earlier(d, c, a)}
  BY PinnedCandidates, PinnedOrder
<1> QED  BY <1>1 DEF Ahead

\* What has been paged so far of the devices that were live when the batch
\* was made: everything in order, except what the policy leaves out.
Covering(a) ==
    /\ \A q \in requests : q.at > a
    /\ Apart(a)
    /\ batch.cursor <= Cardinality(Candidates(a))
    /\ batch.done => batch.cursor = Cardinality(Candidates(a))
    /\ \A c \in batch.handed : c \in Candidates(a) /\ Standing(c, a)
    /\ \A c \in Candidates(a) :
          Standing(c, a) /\ Ahead(c, a) < batch.cursor
              => c \in batch.handed \/ c.endpoint \in invalid

NoneRevoked == \A e \in DOMAIN enrolments : ~enrolments[e].revoked

Steady ==
    Calm => /\ NoneRevoked
            /\ batch.asOf = 0 => batch = NoBatch
            /\ \A a \in Nat \ {0} : batch.asOf = a => Covering(a)

LEMMA AheadIsNat ==
    ASSUME TypeOK, NEW a, NEW c
    PROVE  Ahead(c, a) \in Nat
<1>1. IsFiniteSet({d \in Candidates(a) : Earlier(d, c, a)})
  BY FinitelyMany, FS_Subset, {d \in Candidates(a) : Earlier(d, c, a)} \in SUBSET Candidates(a)
<1> QED  BY <1>1, FS_CardinalityType DEF Ahead

LEMMA RevokesNone ==
    ASSUME TypeOK, NoneRevoked, Calm, [Next]_vars
    PROVE  NoneRevoked'
<1>1. UNCHANGED setting
  BY WhatMoves
<1>2. CASE SignsIn
  <2>1. PICK i \in Installs, p \in Persons : SignIn(p, i)
    BY <1>2 DEF SignsIn
  <2> DEFINE n == Len(enrolments)
  <2>2. /\ DOMAIN enrolments' = DOMAIN enrolments \cup {n + 1}
        /\ enrolments'[n + 1] = [who |-> p, install |-> i, revoked |-> FALSE]
        /\ \A e \in DOMAIN enrolments :
              enrolments'[e].revoked <=> \/ enrolments[e].revoked
                                         \/ enrolments[e].install = i /\ enrolments[e].who # p
    BY <1>1, <2>1, SignInWell
  <2>3. \A e \in DOMAIN enrolments : enrolments[e].install = i => enrolments[e].who = p
    BY <2>1 DEF SignIn, Calm
  <2>4. ~enrolments'[n + 1].revoked
    BY <2>2
  <2> HIDE DEF n
  <2> QED  BY <2>2, <2>3, <2>4 DEF NoneRevoked
<1>3. CASE UNCHANGED enrolments
  BY <1>3 DEF NoneRevoked
<1> QED  BY <1>2, <1>3, WhatMoves

\* Whatever ends a registration ends it later, and a new one is later.
LEMMA LaterThan ==
    ASSUME TypeOK, [Next]_vars, NEW a \in Nat \ {0}, a < clock, \A q \in requests : q.at > a
    PROVE  /\ \A r \in DOMAIN regs :
                 \/ regs'[r].off = regs[r].off
                 \/ regs[r].off = Open /\ regs'[r].off > a
           /\ \A r \in DOMAIN regs' \ DOMAIN regs : regs'[r].at > a
<1>1. UNCHANGED setting
  BY WhatMoves
<1>2. CASE UNCHANGED regs
  BY <1>2
<1>3. CASE SignsIn \/ SignsOut \/ Records
  <2>1. \E rs : regs' = End(rs)
    BY <1>3 DEF SignsIn, SignIn, SignsOut, SignOut, Records, RecordStatus
  <2> QED  BY <2>1, EndWell
<1>4. CASE Registers
  <2>1. PICK q \in requests : Register(q)
    BY <1>4 DEF Registers
  <2>2. q.at > a
    BY <2>1
  <2>3. \A r \in DOMAIN regs :
           regs'[r].off = IF r \in EndedBy(q) /\ regs[r].off = Open THEN q.at ELSE regs[r].off
    BY <1>1, <2>1, RegisterWell
  <2>4. \A r \in DOMAIN regs' \ DOMAIN regs : regs'[r].at = q.at
    BY <1>1, <2>1, RegisterWell DEF RowOf
  <2> QED  BY <2>2, <2>3, <2>4
<1> QED  BY <1>2, <1>3, <1>4, WhatMoves

LEMMA StepPins ==
    ASSUME Typed, NoneRevoked, Calm, [Next]_vars,
           NEW a \in Nat \ {0}, batch.asOf = a, \A q \in requests : q.at > a
    PROVE  Pinned(a)
<1>1. /\ TypeOK /\ UNCHANGED setting /\ RowsGrow /\ EnrolmentsGrow /\ a < clock /\ NoneRevoked'
      /\ DOMAIN regs \subseteq DOMAIN regs'
      /\ \A r \in DOMAIN regs : Owner(r)' = Owner(r) /\ Held(r)' = Held(r)
      /\ \A r \in DOMAIN regs : regs[r].enrol \in DOMAIN enrolments
      /\ DOMAIN enrolments \subseteq DOMAIN enrolments'
  BY WhatMoves, Growing, Constancy, RevokesNone, RowsAre DEF Typed, BatchTyped
<1>2. snapshot' = snapshot
  BY WhatMoves DEF Publish, NoBatch
<1>3. /\ \A r \in DOMAIN regs :
            \/ regs'[r].off = regs[r].off
            \/ regs[r].off = Open /\ regs'[r].off > a
      /\ \A r \in DOMAIN regs' \ DOMAIN regs : regs'[r].at > a
  BY <1>1, LaterThan
<1>4. \A r \in DOMAIN regs :
          /\ regs'[r].enrol = regs[r].enrol /\ regs'[r].provider = regs[r].provider
          /\ regs'[r].at = regs[r].at
  BY <1>1 DEF RowsGrow
<1>5. \A r \in DOMAIN regs : Live(r, a)' <=> Live(r, a)
  <2> TAKE r \in DOMAIN regs
  <2>1. Live(r, a) <=> regs[r].at <= a /\ (regs[r].off = Open \/ regs[r].off > a)
    BY <1>1 DEF Live, LiveAt, Now, NoneRevoked
  <2>2. Live(r, a)' <=> regs'[r].at <= a /\ (regs'[r].off = Open \/ regs'[r].off > a)
    BY <1>1, <1>4 DEF Live, LiveAt, Now, NoneRevoked
  <2> QED  BY <1>3, <1>4, <2>1, <2>2
<1>6. \A r \in DOMAIN regs' \ DOMAIN regs : ~Live(r, a)'
  <2> TAKE r \in DOMAIN regs' \ DOMAIN regs
  <2>1. regs'[r].at > a /\ regs'[r].at \in Nat
    <3>1. regs' \in Seq(Rows) /\ regs'[r].at > a
      BY <1>1, <1>3 DEF RowsGrow
    <3>2. regs'[r] \in Rows
      BY <3>1, SequenceIs, Zenon
    <3> QED  BY <3>1, <3>2 DEF Rows
  <2>2. ~(regs'[r].at <= a)
    BY <2>1
  <2> QED  BY <2>2 DEF Live, LiveAt, Now
<1> QED  BY <1>1, <1>2, <1>4, <1>5, <1>6 DEF Pinned

\* A batch starts from the registrations that are open.
LEMMA CreatedCovers ==
    ASSUME Typed, OneOwner, OnePerDevice, NoneRevoked, Calm, CreateBatch, UNCHANGED setting,
           NEW a \in Nat \ {0}, batch'.asOf = a
    PROVE  Covering(a)'
<1>1. /\ TypeOK /\ a = clock /\ batch'.cursor = 0 /\ batch'.done = FALSE /\ batch'.handed = {}
      /\ UNCHANGED <<setting, enrolments, regs, requests, snapshot, invalid>>
      /\ requests = {}
  BY DEF CreateBatch, NoBatch, Calm, Typed
<1>2. Pinned(a)
  BY <1>1 DEF Pinned, Owner, Held, Live, LiveAt
<1>3. \A r \in DOMAIN regs : Live(r, a) => regs[r].off = Open
  <2> TAKE r \in DOMAIN regs
  <2>1. regs[r].off <= clock /\ regs[r].off \in Nat /\ clock \in Nat
    BY <1>1, RowsAre DEF TypeOK, Rows
  <2> QED  BY <1>1, <2>1 DEF Live, LiveAt, Now, Open
<1>4. Apart(a)'
  <2>1. Apart(a)
    BY <1>3 DEF Apart, OneOwner, OnePerDevice
  <2> QED  BY <1>1, <1>2, <2>1 DEF Apart, Pinned
<1>5. Cardinality(Candidates(a))' = Cardinality(Candidates(a)) /\ Cardinality(Candidates(a)) \in Nat
  BY <1>1, <1>2, PinnedCandidates, FinitelyMany
<1>6. \A c \in Candidates(a)' : ~(Ahead(c, a)' < batch'.cursor)
  <2> TAKE c \in Candidates(a)'
  <2>1. Ahead(c, a)' = Ahead(c, a) /\ Ahead(c, a) \in Nat
    BY <1>1, <1>2, PinnedCandidates, PinnedAhead, AheadIsNat
  <2> QED  BY <1>1, <2>1
<1> QED  BY <1>1, <1>4, <1>5, <1>6 DEF Covering

\* Every other step goes on with what has been handed out.
LEMMA StepCovers ==
    ASSUME Typed, NoneRevoked, Calm, [Next]_vars, ~CreateBatch,
           NEW a \in Nat \ {0}, batch.asOf = a, Covering(a)
    PROVE  Covering(a)'
<1>1. Pinned(a) /\ TypeOK
  BY StepPins DEF Covering, Typed
<1> DEFINE all   == Candidates(a)
           total == Cardinality(Candidates(a))
<1>2. /\ Candidates(a)' = all /\ total' = total /\ total \in Nat
      /\ \A c \in all : Ahead(c, a)' = Ahead(c, a) /\ (Standing(c, a)' <=> Standing(c, a))
                        /\ Ahead(c, a) \in Nat
  BY <1>1, PinnedCandidates, PinnedAhead, PinnedOrder, FinitelyMany, AheadIsNat
<1>3. invalid \subseteq invalid'
  BY WhatMoves DEF Records, RecordStatus
<1>4. \A q \in requests' : q.at > a
  <2>1. a < clock /\ \A q \in requests : q.at > a
    BY DEF Typed, BatchTyped, Covering
  <2>2. CASE UNCHANGED requests \/ Registers \/ Refuses
    BY <2>1, <2>2 DEF Registers, Register, Refuses, Refuse
  <2>3. CASE Asks
    <3>1. PICK e \in DOMAIN enrolments, newer \in BOOLEAN : Request(e, newer)
      BY <2>3 DEF Asks
    <3> DEFINE q == [enrol |-> e, token |-> holds[enrolments[e].install],
                     at |-> clock, newer |-> newer]
    <3>2. requests' = requests \cup {q}
      BY <3>1 DEF Request
    <3>3. q.at > a
      BY <2>1
    <3> HIDE DEF q
    <3> QED  BY <2>1, <3>2, <3>3
  <2> QED  BY <2>2, <2>3, WhatMoves
<1>5. Apart(a)'
  <2>1. \A r \in DOMAIN regs' : Live(r, a)' => r \in DOMAIN regs /\ Live(r, a)
    BY <1>1 DEF Pinned
  <2> QED  BY <1>1, <2>1 DEF Covering, Apart, Pinned
<1>6. /\ batch'.cursor <= total
      /\ batch'.done => batch'.cursor = total
      /\ \A c \in batch'.handed : c \in all /\ Standing(c, a)
      /\ \A c \in all : Standing(c, a) /\ Ahead(c, a) < batch'.cursor
              => c \in batch'.handed \/ c.endpoint \in invalid
  <2>1. CASE UNCHANGED batch \/ Sends \/ Skips
    <3>1. batch'.cursor = batch.cursor /\ batch'.done = batch.done /\ batch'.handed = batch.handed
      BY <2>1 DEF Sends, Skips, Send, Skip, Typed, BatchTyped
    <3> QED  BY <3>1 DEF Covering
  <2>2. CASE Page
    <3>1. /\ batch'.cursor = PageEnd(total) /\ PageEnd(total) \in Nat
          /\ batch'.handed = batch.handed \cup OnPage
          /\ batch'.done => PageEnd(total) = total \/ batch.cursor > total
          /\ batch.cursor \in Nat /\ batch.cursor <= total
      BY <2>2, PageWell DEF Typed, BatchTyped, Covering
    <3>2. PageEnd(total) <= total
      BY <1>2, <3>1, SettingFits, <1>1 DEF PageEnd
    <3>3. batch'.done => PageEnd(total) = total
      <4>1. ~(batch.cursor > total)
        BY <1>2, <3>1
      <4> QED  BY <3>1, <4>1
    <3>4. OnPage = {c \in all : Ahead(c, a) \in batch.cursor..PageEnd(total) - 1 /\ Active(c, a)}
      BY DEF OnPage
    <3>5. \A c \in OnPage : c \in all /\ Standing(c, a)
      BY <3>4 DEF Active, Standing
    <3>6. ASSUME NEW c \in all, Standing(c, a), Ahead(c, a) < PageEnd(total)
          PROVE  c \in batch'.handed \/ c.endpoint \in invalid
      <4>1. CASE Ahead(c, a) < batch.cursor
        BY <3>1, <3>6, <4>1 DEF Covering
      <4>2. CASE ~(Ahead(c, a) < batch.cursor)
        <5>1. Ahead(c, a) \in batch.cursor..PageEnd(total) - 1
          BY <1>2, <3>1, <3>6, <4>2
        <5>2. c.endpoint \notin invalid => Active(c, a)
          BY <3>6 DEF Active, Standing
        <5> QED  BY <3>1, <3>4, <5>1, <5>2
      <4> QED  BY <4>1, <4>2
    <3> HIDE DEF all, total
    <3> QED  BY <3>1, <3>2, <3>3, <3>5, <3>6 DEF Covering, all
  <2> QED  BY <2>1, <2>2, WhatMoves
<1> QED  BY <1>2, <1>3, <1>4, <1>5, <1>6 DEF Covering

LEMMA SteadyStays ==
    ASSUME Typed, OneOwner, OnePerDevice, Steady, [Next]_vars
    PROVE  Steady'
<1>1. UNCHANGED setting /\ (Calm' <=> Calm)
  BY WhatMoves, SettingStays DEF Calm
<1>2. SUFFICES ASSUME Calm
               PROVE  /\ NoneRevoked'
                      /\ batch'.asOf = 0 => batch' = NoBatch
                      /\ \A a \in Nat \ {0} : batch'.asOf = a => Covering(a)'
  BY <1>1 DEF Steady
<1>3. NoneRevoked'
  BY <1>2, RevokesNone DEF Steady, Typed
<1>4. CASE CreateBatch
  <2>1. batch'.asOf # 0
    BY <1>4 DEF CreateBatch, NoBatch, Typed, TypeOK
  <2>2. \A a \in Nat \ {0} : batch'.asOf = a => Covering(a)'
    BY <1>1, <1>2, <1>4, CreatedCovers DEF Steady
  <2> QED  BY <1>3, <2>1, <2>2
<1>5. CASE ~CreateBatch
  <2>1. batch'.asOf = batch.asOf
    BY <1>5, WhatMoves, PageWell DEF Sends, Skips, Send, Skip, Typed, BatchTyped
  <2>2. \A a \in Nat \ {0} : batch'.asOf = a => Covering(a)'
    BY <1>2, <1>5, <2>1, StepCovers DEF Steady
  <2>3. batch'.asOf = 0 => batch' = NoBatch
    <3>1. batch = NoBatch => UNCHANGED batch
      BY <1>5, WhatMoves DEF NoBatch, Page, Sends, Skips
    <3> QED  BY <1>2, <2>1, <3>1 DEF Steady
  <2> QED  BY <1>3, <2>2, <2>3
<1> QED  BY <1>4, <1>5

-----------------------------------------------------------------------------
(* No one is skipped and no one is handed out twice. *)

\* No one comes before itself.
LEMMA NotBeforeItself ==
    ASSUME TypeOK, NEW a, NEW c \in Candidates(a)
    PROVE  ~Earlier(c, c, a)
<1>1. ~Listed(c.who, c.who)
  <2> SUFFICES ASSUME NEW i \in DOMAIN People, NEW j \in DOMAIN People, i < j,
                      People[i] = c.who, People[j] = c.who
               PROVE  FALSE
    BY DEF Listed
  <2>1. i = j /\ i \in Nat
    BY SettingFits
  <2> QED  BY <2>1
<1>2. c.endpoint \in DOMAIN regs /\ c.endpoint \in Nat /\ regs[c.endpoint].at \in Nat
  BY CandidateShape, RowsAre DEF Rows
<1>3. Turn(c, a) \in Nat
  BY DEF Turn
<1>4. ~Newer(c.endpoint, c.endpoint) /\ ~(c.endpoint < c.endpoint) /\ ~(Turn(c, a) < Turn(c, a))
  BY <1>2, <1>3 DEF Newer
<1> QED  BY <1>1, <1>4 DEF Earlier

LEMMA CoveringSkipsNobody ==
    ASSUME Typed, Steady, Calm
    PROVE  NobodySkipped
<1> SUFFICES ASSUME batch.done, batch.asOf # 0, NEW p \in Persons, Untroubled(p),
                    NEW e \in Devices(p, batch.asOf)
             PROVE  \E c \in batch.handed, r \in DOMAIN regs :
                        regs[r].enrol = e /\ Held(r) = c.token
  BY DEF NobodySkipped
<1>1. PICK a \in Nat \ {0} : a = batch.asOf
  BY DEF Typed, BatchTyped
<1>2. Covering(a) /\ TypeOK
  BY <1>1 DEF Steady, Typed
<1>3. PICK r \in Group(p, Selected) : Live(r, a) /\ regs[r].enrol = e
  BY <1>1 DEF Devices
<1>4. PICK c \in Candidates(a) : /\ Standing(c, a) /\ Owner(c.endpoint) = p
                                 /\ c.token = Held(r)
  BY <1>2, <1>3, EveryDeviceStands DEF Covering
<1>5. Ahead(c, a) < Cardinality(Candidates(a))
  <2>1. IsFiniteSet(Candidates(a))
    BY <1>2, FinitelyMany
  <2>2. c \in Candidates(a) \ {d \in Candidates(a) : Earlier(d, c, a)}
    BY <1>2, NotBeforeItself
  <2> QED  BY <2>1, <2>2, FewerBefore,
              {d \in Candidates(a) : Earlier(d, c, a)} \in SUBSET Candidates(a) DEF Ahead
<1>6. c.endpoint \notin invalid
  BY <1>4 DEF Untroubled
<1>7. c \in batch.handed
  BY <1>2, <1>4, <1>5, <1>6 DEF Covering
<1> QED  BY <1>3, <1>4, <1>7 DEF Group

LEMMA CoveringHandsOutOnce ==
    ASSUME Typed, Steady, Calm
    PROVE  NobodyTwice
<1>1. CASE batch.asOf = 0
  BY <1>1 DEF Steady, NobodyTwice, NoBatch
<1>2. CASE batch.asOf # 0
  <2>1. PICK a \in Nat \ {0} : a = batch.asOf
    BY <1>2 DEF Typed, BatchTyped
  <2>2. Covering(a) /\ TypeOK
    BY <2>1 DEF Steady, Typed
  <2> QED  BY <2>2, OnlyOneStands DEF Covering, NobodyTwice
<1> QED  BY <1>1, <1>2

-----------------------------------------------------------------------------
(* The invariant. *)

Delivering ==
    /\ Typed /\ OneOwner /\ OnePerDevice /\ EnrolledOnce /\ Addressed
    /\ "move" \notin Disturbances => Traced /\ HandedOver
    /\ Steady

LEMMA StartsDelivering ==
    ASSUME Init
    PROVE  Delivering
<1>1. TypeOK
  BY SettingFits DEF Init, TypeOK, NoBatch
<1>2. Typed
  BY <1>1 DEF Init, Typed, BatchTyped, FailuresTyped, NoBatch
<1>3. DOMAIN regs = {} /\ DOMAIN enrolments = {} /\ requests = {} /\ batch = NoBatch
  BY DEF Init
<1>4. OneOwner /\ OnePerDevice /\ EnrolledOnce
  BY <1>3 DEF OneOwner, OnePerDevice, EnrolledOnce
<1>5. Addressed /\ HandedOver
  BY <1>3 DEF Addressed, HandedOver, NoBatch
<1>6. Traced
  BY <1>3 DEF Traced, Init
<1>7. Steady
  BY <1>3 DEF Steady, NoneRevoked, NoBatch
<1> QED  BY <1>2, <1>4, <1>5, <1>6, <1>7 DEF Delivering

LEMMA KeepsDelivering ==
    ASSUME Delivering, [Next]_vars
    PROVE  Delivering'
<1>1. Typed' /\ OneOwner' /\ OnePerDevice' /\ EnrolledOnce' /\ Addressed'
  BY TypesStay, OwnersStay, EnrolledStays, AddressedStays DEF Delivering
<1>2. ASSUME "move" \notin Disturbances' PROVE Traced' /\ HandedOver'
  <2>1. "move" \notin Disturbances
    BY <1>2, WhatMoves, SettingStays
  <2> QED  BY <2>1, TracedStays, HandedOverStays DEF Delivering
<1>3. Steady'
  BY SteadyStays DEF Delivering
<1> QED  BY <1>1, <1>2, <1>3 DEF Delivering

THEOREM AudienceInvariant == Spec => []Delivering
<1>1. Init => Delivering
  BY StartsDelivering
<1>2. Delivering /\ [Next]_vars => Delivering'
  BY KeepsDelivering
<1> QED  BY <1>1, <1>2, PTL DEF Spec

\* In every state a token belongs to one registration, and, unless the
\* platform hands a token on, a push has arrived only at phones its addressee
\* held: signing in revokes the previous account's enrolment and its
\* registrations at once, and a push under way looks both up before it leaves
\* (releasePushTokenFromOtherDevices, supersedeOtherAccountsOnInstallation).
THEOREM PhonesAreHandedOver == Spec => []PhoneHandedOver
<1>1. Delivering => PhoneHandedOver
  BY DEF Delivering, Typed, PhoneHandedOver
<1> QED  BY <1>1, AudienceInvariant, PTL

\* In every state each device that lives would be reached by one push, and a
\* batch that is paged from its own instant has handed out each device that
\* lived then once, whatever was registered, ended or renewed between two pages
\* (loadLivePushRegistrations, fannedOutPushEndpoints, resolvePushEndpointPage).
THEOREM DevicesReachedOnce == Spec => []EachReachedOnce
<1>1. Delivering => EachReachedOnce
  BY NowOnce, CoveringSkipsNobody, CoveringHandsOutOnce
     DEF Delivering, Typed, EachReachedOnce, Calm
<1> QED  BY <1>1, AudienceInvariant, PTL
=============================================================================
