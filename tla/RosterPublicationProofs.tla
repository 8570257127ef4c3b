---------------------- MODULE RosterPublicationProofs ----------------------
(***************************************************************************)
(* Theorems about RosterPublication, for any people, sources and lists,    *)
(* any number of publications at one time, any threshold of the guard and  *)
(* any number of edits, commands and faults.                               *)
(***************************************************************************)
EXTENDS RosterPublication, FiniteSetTheorems, TLAPS

\* Whoever is at work or has answered has a key.
Keyed == \A c \in Call : call[c].at # "idle" => call[c].key \in Key

\* Past the judgement every list was read and none is refused.
Judged ==
    \A c \in Call : call[c].at \in {"contacts", "publish"} =>
        /\ call[c].unread = {} /\ Shrunk(c) = {}
        /\ call[c].lists \in [Source -> Lists]

Typed == TypeOK /\ Keyed /\ Judged

\* A publication that nobody overtook is compared with the snapshot in force,
\* and began to read after everything that snapshot holds.
Compared ==
    /\ snapshot.upto =< edits
    /\ \A c \in Call :
          /\ call[c].from =< edits /\ call[c].upto =< edits
          /\ call[c].current =>
                /\ call[c].from >= snapshot.upto
                /\ call[c].was = [s \in Source |-> Cardinality(snapshot.lists[s])]

\* A key that has published is completed.
Spent == \A k \in Key : published[k] # 0 => record[k].status = "completed"

\* A key names one change: whoever carries it was begun for that change.
OneChange ==
    /\ \A c \in Call :
          /\ call[c].since =< edits
          /\ call[c].key = Occurrence => call[c].since = 0
          /\ call[c].key \in Key => call[c].key =< issued \/ call[c].key = Occurrence
    /\ \A c \in Call, d \in Call :
          call[c].key \in Key /\ call[c].key = call[d].key => call[c].since = call[d].since
    /\ \A k \in Key :
          /\ record[k].since =< edits
          /\ record[k].status # "none" => k =< issued \/ k = Occurrence
          /\ k = Occurrence => record[k].since = 0
    /\ \A c \in Call : call[c].key \in Key /\ record[call[c].key].status # "none" =>
          record[call[c].key].since = call[c].since

\* Reading begins after the change, so what was published holds the change.
ReadAfter ==
    /\ \A c \in Call : call[c].at \in {"read", "contacts", "publish"} =>
          call[c].from >= call[c].since
    /\ \A k \in Key : record[k].result = "published" => record[k].holds >= record[k].since
    /\ \A k \in Key : record[k].status = "none" => record[k].result = "none"

\* Who was told of a publication was told of the one on record, or asks for
\* nothing in particular.
Told ==
    \A c \in Call : call[c].at = "done" /\ call[c].answer = "published" =>
        \/ call[c].key = Occurrence
        \/ /\ record[call[c].key].status = "completed"
           /\ record[call[c].key].result = "published"

IInv == Typed /\ Compared /\ Spent /\ OneChange /\ ReadAfter /\ Told
-----------------------------------------------------------------------------
(* What the steps write. *)

LEMMA StampZero == 0 \in Stamp /\ Stamp \subseteq Nat /\ Occurrence \in Key
BY RosterAssumption DEF Stamp, Key, Occurrence

LEMMA EmptyRecords == Resting \in CallType /\ NoRecord \in RowType
<1>1. NoContacts \in Contacts
  BY StampZero DEF NoContacts, Contacts
<1>. QED BY <1>1, StampZero DEF Resting, CallType, NoRecord, RowType, Origins, Results

\* A publication begins with nothing read.
LEMMA Begun ==
    ASSUME TypeOK, NEW c \in Call, NEW by \in Origins, NEW k \in Key, NEW since \in Stamp,
           Begins(c, by, k, since)
    PROVE  /\ call' \in [Call -> CallType]
           /\ \A d \in Call \ {c} : call'[d] = call[d]
           /\ call'[c].at = "reserve" /\ call'[c].key = k /\ call'[c].since = since
           /\ call'[c].from = 0 /\ call'[c].upto = 0 /\ call'[c].current = FALSE
<1>. DEFINE y == [Resting EXCEPT !.at = "reserve", !.by = by, !.key = k,
                                 !.config = config, !.since = since]
<1>1. y \in CallType
  BY EmptyRecords DEF CallType, TypeOK
<1>2. /\ y.at = "reserve" /\ y.key = k /\ y.since = since
      /\ y.from = 0 /\ y.upto = 0 /\ y.current = FALSE
  BY DEF Resting
<1>3. call' = [call EXCEPT ![c] = y]
  BY DEF Begins
<1>. HIDE DEF y
<1>. QED BY <1>1, <1>2, <1>3 DEF TypeOK

\* A step of a publication leaves what it has read.
LEMMA Gone ==
    ASSUME TypeOK, NEW c \in Call,
           NEW step \in {"load", "contacts", "failing"}, Goes(c, step)
    PROVE  /\ call' \in [Call -> CallType]
           /\ \A d \in Call \ {c} : call'[d] = call[d]
           /\ call'[c].at = step /\ call'[c].key = call[c].key
           /\ call'[c].since = call[c].since
           /\ call'[c].from = call[c].from /\ call'[c].upto = call[c].upto
           /\ call'[c].current = call[c].current /\ call'[c].was = call[c].was
           /\ call'[c].lists = call[c].lists /\ call'[c].unread = call[c].unread
           /\ call'[c].waiting = call[c].waiting
<1>. PICK x \in CallType : x = call[c]
  BY DEF TypeOK
<1>1. call' = [call EXCEPT ![c] = [x EXCEPT !.at = step]]
  BY DEF Goes, TypeOK
<1>2. [x EXCEPT !.at = step] \in CallType
  BY DEF CallType
<1>. PICK y : y = [x EXCEPT !.at = step]
  OBVIOUS
<1>3. /\ y.at = step /\ y.key = x.key /\ y.since = x.since
      /\ y.from = x.from /\ y.upto = x.upto
      /\ y.current = x.current /\ y.was = x.was
      /\ y.lists = x.lists /\ y.unread = x.unread /\ y.waiting = x.waiting
  BY DEF CallType
<1>. QED BY <1>1, <1>2, <1>3 DEF TypeOK

\* The last step keeps who was told of what.
LEMMA Answered ==
    ASSUME TypeOK, NEW c \in Call, NEW answer \in Results \cup {"failed"},
           Ends(c, answer)
    PROVE  /\ call' \in [Call -> CallType]
           /\ \A d \in Call \ {c} : call'[d] = call[d]
           /\ call'[c].at = "done" /\ call'[c].answer = answer
           /\ call'[c].key = call[c].key /\ call'[c].since = call[c].since
           /\ call'[c].from = 0 /\ call'[c].upto = 0 /\ call'[c].current = FALSE
<1>. PICK x \in CallType : x = call[c]
  BY DEF TypeOK
<1>. DEFINE y == [Resting EXCEPT !.at = "done", !.answer = answer, !.by = x.by,
                                 !.key = x.key, !.since = x.since]
<1>1. y \in CallType
  BY EmptyRecords DEF CallType
<1>2. /\ y.at = "done" /\ y.answer = answer /\ y.key = x.key /\ y.since = x.since
      /\ y.from = 0 /\ y.upto = 0 /\ y.current = FALSE
  BY DEF Resting
<1>3. call' = [call EXCEPT ![c] = y]
  BY DEF Ends
<1>. HIDE DEF y
<1>. QED BY <1>1, <1>2, <1>3 DEF TypeOK

\* The configuration's sources are read.
LEMMA Loaded ==
    ASSUME TypeOK, NEW c \in Call, Load(c)
    PROVE  /\ call' \in [Call -> CallType]
           /\ \A d \in Call \ {c} : call'[d] = call[d]
           /\ call'[c].at = "baseline" /\ call'[c].key = call[c].key
           /\ call'[c].since = call[c].since /\ call'[c].from = call[c].from
           /\ call'[c].upto = call[c].upto /\ call'[c].current = call[c].current
           /\ call'[c].was = call[c].was
<1>. PICK x \in CallType : x = call[c]
  BY DEF TypeOK
<1>. PICK w \in SUBSET Source : w = waiting
  BY DEF TypeOK
<1>. PICK y : y = [x EXCEPT !.at = "baseline", !.waiting = w]
  OBVIOUS
<1>1. call' = [call EXCEPT ![c] = y]
  BY DEF Load, TypeOK
<1>2. y \in CallType
  BY DEF CallType
<1>3. /\ y.at = "baseline" /\ y.key = x.key /\ y.since = x.since /\ y.from = x.from
      /\ y.upto = x.upto /\ y.current = x.current /\ y.was = x.was
  BY DEF CallType
<1>. QED BY <1>1, <1>2, <1>3 DEF TypeOK

\* Lists have a size.
LEMMA Sizes ==
    ASSUME NEW lists \in [Source -> Lists]
    PROVE  [s \in Source |-> Cardinality(lists[s])] \in [Source -> Nat]
<1>. SUFFICES ASSUME NEW s \in Source PROVE Cardinality(lists[s]) \in Nat
  OBVIOUS
<1>1. IsFiniteSet(lists[s])
  BY FS_Subset, RosterAssumption
<1>. QED BY <1>1, FS_CardinalityType

\* The snapshot in force becomes what the publication is compared with.
LEMMA BaselineLoaded ==
    ASSUME TypeOK, NEW c \in Call, LoadBaseline(c)
    PROVE  /\ call' \in [Call -> CallType]
           /\ \A d \in Call \ {c} : call'[d] = call[d]
           /\ call'[c].at \in {"failing", "read"} /\ call'[c].key = call[c].key
           /\ call'[c].since = call[c].since /\ call'[c].from = edits
           /\ call'[c].upto = call[c].upto
           /\ call'[c].was = [s \in Source |-> Cardinality(snapshot.lists[s])]
<1>. PICK x \in CallType : x = call[c]
  BY DEF TypeOK
<1>. PICK z \in [Source -> Nat] :
        z = [s \in Source |-> Cardinality(snapshot.lists[s])]
  BY Sizes DEF TypeOK
<1>. PICK n \in Stamp : n = edits
  BY DEF TypeOK
<1>. PICK to \in {"failing", "read"} :
        to = IF x.config < snapshot.config THEN "failing" ELSE "read"
  OBVIOUS
<1>. PICK y : y = [x EXCEPT !.at = to, !.from = n, !.current = TRUE, !.was = z]
  OBVIOUS
<1>1. call' = [call EXCEPT ![c] = y]
  BY DEF LoadBaseline, TypeOK
<1>2. y \in CallType
  BY DEF CallType
<1>3. /\ y.at = to /\ y.key = x.key /\ y.since = x.since /\ y.from = n
      /\ y.upto = x.upto /\ y.was = z
  BY DEF CallType
<1>. QED BY <1>1, <1>2, <1>3 DEF TypeOK

\* Reading a list leaves the others.
LEMMA ListRead ==
    ASSUME TypeOK, NEW c \in Call, NEW s \in Source, ReadList(c, s)
    PROVE  /\ call' \in [Call -> CallType]
           /\ \A d \in Call \ {c} : call'[d] = call[d]
           /\ call[c].at = "read"
           /\ call'[c].at = "read" /\ call'[c].key = call[c].key
           /\ call'[c].since = call[c].since /\ call'[c].from = call[c].from
           /\ call'[c].upto = call[c].upto /\ call'[c].current = call[c].current
           /\ call'[c].was = call[c].was
<1>. PICK x \in CallType : x = call[c] /\ x.at = "read"
  BY DEF TypeOK, ReadList
<1>. PICK l \in Lists : l = members[s]
  BY DEF TypeOK
<1>. PICK u \in SUBSET Source : u = x.unread \cup {s}
  BY DEF CallType
<1>. PICK z : z = [x.lists EXCEPT ![s] = l]
  OBVIOUS
<1>0. z \in [Source -> Lists \cup {None}]
  BY DEF CallType
<1>1. PICK y \in {[x EXCEPT !.lists = z], [x EXCEPT !.unread = u]} :
         call' = [call EXCEPT ![c] = y]
  BY DEF ReadList, TypeOK
<1>2. y \in CallType
  BY <1>0, <1>1 DEF CallType
<1>3. /\ y.at = "read" /\ y.key = x.key /\ y.since = x.since /\ y.from = x.from
      /\ y.upto = x.upto /\ y.current = x.current /\ y.was = x.was
  BY <1>1 DEF CallType
<1>. QED BY <1>1, <1>2, <1>3 DEF TypeOK

\* The contacts are those of one moment.
LEMMA ContactsLoaded ==
    ASSUME TypeOK, NEW c \in Call, LoadContacts(c)
    PROVE  /\ call' \in [Call -> CallType]
           /\ \A d \in Call \ {c} : call'[d] = call[d]
           /\ call'[c].at = "publish" /\ call'[c].key = call[c].key
           /\ call'[c].since = call[c].since
           /\ call'[c].from = call[c].from /\ call'[c].upto = edits
           /\ call'[c].current = call[c].current /\ call'[c].was = call[c].was
           /\ call'[c].lists = call[c].lists /\ call'[c].unread = call[c].unread
           /\ call'[c].waiting = call[c].waiting
<1>. PICK x \in CallType : x = call[c]
  BY DEF TypeOK
<1>. PICK n \in Stamp : n = edits
  BY DEF TypeOK
<1>. PICK z \in Contacts :
        z = [p \in Subscriber |->
               IF p \in UNION {call[c].lists[s] : s \in Source}
               THEN [sms |-> consent[p], push |-> device[p]]
               ELSE [sms |-> 0, push |-> 0]]
  BY StampZero DEF TypeOK, Contacts
<1>. PICK y : y = [x EXCEPT !.at = "publish", !.upto = n, !.contacts = z]
  OBVIOUS
<1>1. call' = [call EXCEPT ![c] = y]
  BY DEF LoadContacts, TypeOK
<1>2. y \in CallType
  BY DEF CallType
<1>3. /\ y.at = "publish" /\ y.key = x.key /\ y.since = x.since
      /\ y.from = x.from /\ y.upto = n /\ y.current = x.current /\ y.was = x.was
      /\ y.lists = x.lists /\ y.unread = x.unread /\ y.waiting = x.waiting
  BY DEF CallType
<1>. QED BY <1>1, <1>2, <1>3 DEF TypeOK

\* A publication tells the others that the snapshot they loaded is replaced.
LEMMA PublishedCalls ==
    ASSUME Typed, NEW c \in Call, Publish(c)
    PROVE  /\ call' \in [Call -> CallType]
           /\ \A d \in Call : /\ call'[d].key = call[d].key
                              /\ call'[d].since = call[d].since
                              /\ call'[d].current = FALSE
           /\ \A d \in Call \ {c} :
                 /\ call'[d].at = call[d].at /\ call'[d].answer = call[d].answer
                 /\ call'[d].from = call[d].from /\ call'[d].upto = call[d].upto
                 /\ call'[d].was = call[d].was /\ call'[d].lists = call[d].lists
                 /\ call'[d].unread = call[d].unread /\ call'[d].waiting = call[d].waiting
           /\ call'[c].at = "done" /\ call'[c].answer = "published"
           /\ call'[c].from = 0 /\ call'[c].upto = 0
<1>. PICK x \in CallType : x = call[c]
  BY DEF Typed, TypeOK
<1>. DEFINE y == [Resting EXCEPT !.at = "done", !.answer = "published", !.by = x.by,
                                 !.key = x.key, !.since = x.since]
<1>1. y \in CallType
  BY EmptyRecords DEF CallType, Results
<1>2. /\ y.at = "done" /\ y.answer = "published" /\ y.key = x.key /\ y.since = x.since
      /\ y.from = 0 /\ y.upto = 0 /\ y.current = FALSE
  BY DEF Resting
<1>3. call' = [d \in Call |-> IF d = c THEN y ELSE [call[d] EXCEPT !.current = FALSE]]
  BY DEF Publish
<1>. HIDE DEF y
<1>4. \A d \in Call \ {c} : call[d] \in CallType /\ call'[d] = [call[d] EXCEPT !.current = FALSE]
  BY <1>3 DEF Typed, TypeOK
<1>6. ASSUME NEW d \in Call \ {c}
      PROVE      /\ call'[d] \in CallType
                 /\ call'[d].key = call[d].key /\ call'[d].since = call[d].since
                 /\ call'[d].current = FALSE
                 /\ call'[d].at = call[d].at /\ call'[d].answer = call[d].answer
                 /\ call'[d].from = call[d].from /\ call'[d].upto = call[d].upto
                 /\ call'[d].was = call[d].was /\ call'[d].lists = call[d].lists
                 /\ call'[d].unread = call[d].unread /\ call'[d].waiting = call[d].waiting
  <2>. PICK z \in CallType : z = call[d]
    BY <1>4
  <2>. PICK w : w = [z EXCEPT !.current = FALSE]
    OBVIOUS
  <2>1. w = call'[d]
    BY <1>4
  <2>2. w \in CallType
    BY DEF CallType
  <2>3. /\ w.key = z.key /\ w.since = z.since /\ w.current = FALSE
        /\ w.at = z.at /\ w.answer = z.answer /\ w.from = z.from
        /\ w.upto = z.upto /\ w.was = z.was /\ w.lists = z.lists
        /\ w.unread = z.unread /\ w.waiting = z.waiting
    BY DEF CallType
  <2>. QED BY <2>1, <2>2, <2>3
<1>7. call'[c] = y
  BY <1>3
<1>8. DOMAIN call' = Call /\ call' = [d \in Call |-> call'[d]]
  BY <1>3
<1>9. call' \in [Call -> CallType]
  BY <1>1, <1>6, <1>7, <1>8
<1>10. \A d \in Call : /\ call'[d].key = call[d].key
                      /\ call'[d].since = call[d].since
                      /\ call'[d].current = FALSE
  BY <1>2, <1>6, <1>7
<1>12. /\ call'[c].at = "done" /\ call'[c].answer = "published"
       /\ call'[c].from = 0 /\ call'[c].upto = 0
  BY <1>2, <1>7
<1>11. \A d \in Call \ {c} :
                 /\ call'[d].at = call[d].at /\ call'[d].answer = call[d].answer
                 /\ call'[d].from = call[d].from /\ call'[d].upto = call[d].upto
                 /\ call'[d].was = call[d].was /\ call'[d].lists = call[d].lists
                 /\ call'[d].unread = call[d].unread /\ call'[d].waiting = call[d].waiting
  BY <1>6
<1>. QED BY <1>9, <1>10, <1>12, <1>11

\* What one publication does to the row of a key: it reserves the key, or it
\* settles a reservation.
RowMove(c, k) ==
    \/ record'[k] = record[k]
    \/ /\ k = call[c].key /\ call[c].at = "reserve" /\ call'[c].at = "load"
       /\ record[k].status = "none" /\ record'[k].status = "in-progress"
       /\ record'[k].since = call[c].since /\ record'[k].result = "none"
    \/ /\ k = call[c].key
       /\ record[k].status = "in-progress"
       /\ record'[k].status \in {"failed", "completed"}
       /\ record'[k].since = record[k].since
       /\ \/ record'[k].result = record[k].result /\ record'[k].holds = record[k].holds
          \/ record'[k].result \in {"refused", "shrunk"}
          \/ /\ record'[k].result = "published" /\ record'[k].status = "completed"
             /\ call[c].at = "publish" /\ record'[k].holds = call[c].from

LEMMA Rejected ==
    ASSUME Typed, NEW c \in Call, call[c].at # "idle",
           NEW result \in {"refused", "shrunk"}, Reject(c, result)
    PROVE  /\ call' \in [Call -> CallType]
           /\ \A d \in Call \ {c} : call'[d] = call[d]
           /\ call'[c].at \in {"done", "failing"}
           /\ call'[c].at = "done" => call'[c].answer = result
           /\ call'[c].key = call[c].key /\ call'[c].since = call[c].since
           /\ call'[c].from \in {0, call[c].from} /\ call'[c].upto \in {0, call[c].upto}
           /\ call'[c].current => /\ call[c].current /\ call'[c].was = call[c].was
                                  /\ call'[c].from = call[c].from
           /\ record' \in [Key -> RowType] /\ \A k \in Key : RowMove(c, k)
<1>. PICK k \in Key : k = call[c].key
  BY DEF Typed, Keyed
<1>. PICK r \in RowType : r = record[k]
  BY DEF Typed, TypeOK
<1>1. CASE Reserved(c) /\ Ends(c, result)
           /\ record' = [record EXCEPT ![call[c].key].status = "completed",
                                       ![call[c].key].result = result]
  <2>. PICK x : x = [r EXCEPT !.status = "completed", !.result = result]
    OBVIOUS
  <2>1. record' = [record EXCEPT ![k] = x]
    BY <1>1 DEF Typed, TypeOK
  <2>2. x \in RowType /\ x.status = "completed" /\ x.since = r.since /\ x.result = result
    BY DEF RowType, Results
  <2>3. record' \in [Key -> RowType] /\ \A l \in Key : RowMove(c, l)
    BY <1>1, <2>1, <2>2 DEF RowMove, Reserved, Typed, TypeOK
  <2>. QED BY <1>1, <2>3, Answered DEF Typed, Results
<1>2. CASE Goes(c, "failing") /\ UNCHANGED record
  BY <1>2, Gone DEF Typed, TypeOK, RowMove
<1>. QED BY <1>1, <1>2 DEF Reject

LEMMA ReservedKey ==
    ASSUME Typed, NEW c \in Call, Reserve(c)
    PROVE  /\ call' \in [Call -> CallType]
           /\ \A d \in Call \ {c} : call'[d] = call[d]
           /\ \/ call'[c].at = "load"
              \/ call'[c].at = "done" /\ call'[c].answer = "failed"
              \/ /\ call'[c].at = "done"
                 /\ call'[c].answer = record[call[c].key].result
                 /\ record[call[c].key].status = "completed"
           /\ call'[c].key = call[c].key /\ call'[c].since = call[c].since
           /\ call'[c].from \in {0, call[c].from} /\ call'[c].upto \in {0, call[c].upto}
           /\ call'[c].current => /\ call[c].current /\ call'[c].was = call[c].was
                                  /\ call'[c].from = call[c].from
           /\ record' \in [Key -> RowType] /\ \A k \in Key : RowMove(c, k)
<1>. PICK k \in Key : k = call[c].key
  BY DEF Typed, Keyed, Reserve
<1>. PICK r \in RowType : r = record[k]
  BY DEF Typed, TypeOK
<1>0. call[c].at = "reserve" /\ TypeOK /\ record \in [Key -> RowType]
  BY DEF Reserve, Typed, TypeOK
<1>1. CASE r.status = "none" /\ Goes(c, "load")
           /\ record' = [record EXCEPT ![k] = [NoRecord EXCEPT
                 !.status = "in-progress", !.by = call[c].by,
                 !.config = call[c].config, !.since = call[c].since]]
  <2>. PICK by \in Origins, config0 \in Stamp, since \in Stamp :
          by = call[c].by /\ config0 = call[c].config /\ since = call[c].since
    BY <1>0 DEF TypeOK, CallType
  <2>. PICK x : x = [NoRecord EXCEPT !.status = "in-progress", !.by = by,
                                     !.config = config0, !.since = since]
    OBVIOUS
  <2>1. record' = [record EXCEPT ![k] = x]
    BY <1>1
  <2>2. x \in RowType /\ x.status = "in-progress" /\ x.since = since /\ x.result = "none"
    BY StampZero DEF RowType, NoRecord, Results
  <2>3. call'[c].at = "load"
    BY <1>0, <1>1, Gone
  <2>4. record' \in [Key -> RowType] /\ \A l \in Key : RowMove(c, l)
    BY <1>0, <1>1, <2>1, <2>2, <2>3 DEF RowMove
  <2>. QED BY <1>0, <1>1, <2>4, Gone
<1>2. CASE Ends(c, "failed") /\ record' = record
  BY <1>0, <1>2, Answered DEF RowMove
<1>3. CASE r.status = "in-progress" /\ Ends(c, "failed")
           /\ record' = [record EXCEPT ![k].status = "failed"]
  <2>. PICK x : x = [r EXCEPT !.status = "failed"]
    OBVIOUS
  <2>1. record' = [record EXCEPT ![k] = x]
    BY <1>0, <1>3
  <2>2. /\ x \in RowType /\ x.status = "failed" /\ x.since = r.since
        /\ x.result = r.result /\ x.holds = r.holds
    BY DEF RowType, Results
  <2>3. record' \in [Key -> RowType] /\ \A l \in Key : RowMove(c, l)
    BY <1>0, <1>3, <2>1, <2>2 DEF RowMove
  <2>. QED BY <1>0, <1>3, <2>3, Answered
<1>4. CASE r.status = "completed" /\ Ends(c, r.result) /\ record' = record
  <2>1. r.result \in Results
    BY DEF RowType
  <2>. QED BY <1>0, <1>4, <2>1, Answered DEF RowMove
<1>. QED BY <1>1, <1>2, <1>3, <1>4 DEF Reserve

LEMMA FailedReservation ==
    ASSUME Typed, NEW c \in Call, FailReservation(c)
    PROVE  /\ call' \in [Call -> CallType]
           /\ \A d \in Call \ {c} : call'[d] = call[d]
           /\ call'[c].at = "done" /\ call'[c].answer = "failed"
           /\ call'[c].key = call[c].key /\ call'[c].since = call[c].since
           /\ call'[c].from = 0 /\ call'[c].upto = 0 /\ call'[c].current = FALSE
           /\ record' \in [Key -> RowType] /\ \A k \in Key : RowMove(c, k)
<1>. PICK k \in Key : k = call[c].key
  BY DEF Typed, Keyed, FailReservation
<1>. PICK r \in RowType : r = record[k]
  BY DEF Typed, TypeOK
<1>0. TypeOK /\ record \in [Key -> RowType] /\ Ends(c, "failed")
  BY DEF FailReservation, Typed, TypeOK
<1>1. CASE Reserved(c) /\ record' = [record EXCEPT ![k].status = "failed"]
  <2>. PICK x : x = [r EXCEPT !.status = "failed"]
    OBVIOUS
  <2>1. record' = [record EXCEPT ![k] = x]
    BY <1>0, <1>1
  <2>2. /\ x \in RowType /\ x.status = "failed" /\ x.since = r.since
        /\ x.result = r.result /\ x.holds = r.holds
    BY DEF RowType, Results
  <2>3. record' \in [Key -> RowType] /\ \A l \in Key : RowMove(c, l)
    BY <1>0, <1>1, <2>1, <2>2 DEF RowMove, Reserved
  <2>. QED BY <1>0, <2>3, Answered
<1>2. CASE record' = record
  BY <1>0, <1>2, Answered DEF RowMove
<1>. QED BY <1>1, <1>2 DEF FailReservation

LEMMA PublishedRow ==
    ASSUME Typed, NEW c \in Call, Publish(c)
    PROVE  /\ call[c].key \in Key
           /\ record[call[c].key].status = "in-progress"
           /\ record'[call[c].key].status = "completed"
           /\ record'[call[c].key].result = "published"
           /\ record' \in [Key -> RowType] /\ \A k \in Key : RowMove(c, k)
<1>. PICK k \in Key : k = call[c].key
  BY DEF Typed, Keyed, Publish
<1>. PICK r \in RowType : r = record[k]
  BY DEF Typed, TypeOK
<1>. PICK n \in Stamp : n = call[c].from
  BY DEF Typed, TypeOK, CallType
<1>0. record \in [Key -> RowType] /\ call[c].at = "publish" /\ Reserved(c)
  BY DEF Publish, Publishable, Typed, TypeOK
<1>. PICK x : x = [r EXCEPT !.status = "completed", !.result = "published", !.holds = n]
  OBVIOUS
<1>1. record' = [record EXCEPT ![k] = x]
  BY <1>0 DEF Publish
<1>2. /\ x \in RowType /\ x.status = "completed" /\ x.since = r.since
      /\ x.result = "published" /\ x.holds = n
  BY DEF RowType, Results
<1>. QED BY <1>0, <1>1, <1>2 DEF RowMove, Reserved
-----------------------------------------------------------------------------
(* Types. *)

LEMMA SameShrunk ==
    ASSUME NEW c \in Call,
           call'[c].was = call[c].was, call'[c].lists = call[c].lists,
           call'[c].unread = call[c].unread, call'[c].waiting = call[c].waiting
    PROVE  Shrunk(c)' = Shrunk(c)
BY DEF Shrunk

LEMMA SameCall ==
    ASSUME NEW c \in Call, call'[c] = call[c]
    PROVE  Shrunk(c)' = Shrunk(c)
BY SameShrunk

\* Who has not been judged, or keeps what it was judged by, is not in doubt.
LEMMA JudgedStays ==
    ASSUME Judged, NEW c \in Call,
           \A d \in Call \ {c} : call'[d] = call[d],
           call'[c].at \notin {"contacts", "publish"}
    PROVE  Judged'
BY SameCall DEF Judged

LEMMA InitTyped == Init => Typed
<1>. SUFFICES ASSUME Init PROVE Typed
  OBVIOUS
<1>1. call \in [Call -> CallType] /\ record \in [Key -> RowType]
      /\ \A c \in Call : call[c].at = "idle"
  BY EmptyRecords DEF Init, Resting
<1>2. members \in [Source -> Lists]
  BY RosterAssumption DEF Init
<1>3. snapshot \in [config : Stamp, lists : [Source -> Lists],
                    contacts : Contacts, from : Stamp, upto : Stamp]
  BY <1>2, StampZero DEF Init, NoContacts, Contacts
<1>. QED BY <1>1, <1>2, <1>3, StampZero, RosterAssumption
         DEF Init, Typed, TypeOK, Keyed, Judged

LEMMA EditsType ==
    ASSUME TypeOK, NEW kind, Edit(kind)
    PROVE  edits' \in Stamp /\ edits' = edits + 1 /\ edits + 1 \in Stamp
BY RosterAssumption DEF Edit, TypeOK, Stamp

LEMMA FaultsType == ASSUME TypeOK, Fault PROVE faults' \in 0..MaxFaults
BY RosterAssumption DEF Fault, TypeOK

\* A command takes a key nobody had.
LEMMA Commanded ==
    ASSUME TypeOK, NEW c \in Call, NEW kind \in Origins, NEW stamp \in Stamp,
           Command(c, kind, stamp)
    PROVE  /\ issued' \in 0..MaxCommands /\ issued' = issued + 1
           /\ issued' \in Key /\ issued' # Occurrence
           /\ call' \in [Call -> CallType]
           /\ \A d \in Call \ {c} : call'[d] = call[d]
           /\ call'[c].at = "reserve" /\ call'[c].key = issued'
           /\ call'[c].since = stamp
           /\ call'[c].from = 0 /\ call'[c].upto = 0 /\ call'[c].current = FALSE
<1>1. /\ issued' \in 0..MaxCommands /\ issued' = issued + 1
      /\ issued' \in Key /\ issued' # Occurrence
  BY RosterAssumption DEF Command, TypeOK, Key, Occurrence
<1>. PICK n \in Key : n = issued'
  BY <1>1
<1>2. Begins(c, kind, n, stamp)
  BY <1>1 DEF Command, CommandKey
<1>3. /\ call' \in [Call -> CallType]
      /\ \A d \in Call \ {c} : call'[d] = call[d]
      /\ call'[c].at = "reserve" /\ call'[c].key = n
      /\ call'[c].since = stamp
      /\ call'[c].from = 0 /\ call'[c].upto = 0 /\ call'[c].current = FALSE
  BY <1>2, Begun, ZenonT(60)
<1>. QED BY <1>1, <1>3

LEMMA StepTyped == Typed /\ [Next]_vars => Typed'
<1>. SUFFICES ASSUME Typed, [Next]_vars PROVE Typed'
  OBVIOUS
<1>. USE DEF Typed
<1>1. CASE Refresh
  <2>1. edits' \in Stamp
    BY <1>1, EditsType DEF Refresh
  <2>2. members' \in [Source -> Lists] /\ waiting' \subseteq Source \ Manual
    BY <1>1 DEF Refresh, TypeOK
  <2>. QED BY <1>1, <2>1, <2>2
           DEF Refresh, keys, TypeOK, Keyed, Judged, Shrunk
<1>2. CASE Reconfigure
  <2>1. edits' \in Stamp /\ config' \in Stamp
    BY <1>2, EditsType DEF Reconfigure
  <2>. QED BY <1>2, <2>1 DEF Reconfigure, keys, TypeOK, Keyed, Judged, Shrunk
<1>3. ASSUME NEW p \in Subscriber, DeviceChange(p) PROVE Typed'
  <2>1. edits' \in Stamp /\ device' \in [Subscriber -> Stamp]
    BY <1>3, EditsType, StampZero DEF DeviceChange, TypeOK
  <2>. QED BY <1>3, <2>1 DEF DeviceChange, keys, TypeOK, Keyed, Judged, Shrunk
<1>4. ASSUME NEW c \in Call, Reserve(c) PROVE Typed'
  <2>. HIDE DEF Typed
  <2>1. /\ call' \in [Call -> CallType] /\ record' \in [Key -> RowType]
        /\ \A d \in Call \ {c} : call'[d] = call[d]
        /\ call'[c].at \notin {"contacts", "publish"} /\ call'[c].key = call[c].key
    BY <1>4, ReservedKey
  <2>2. call[c].key \in Key
    BY <1>4 DEF Typed, Keyed, Reserve
  <2>3. Keyed'
    BY <2>1, <2>2 DEF Typed, Keyed
  <2>4. Judged'
    BY <2>1, JudgedStays DEF Typed
  <2>5. TypeOK'
    BY <1>4, <2>1 DEF Reserve, facts, Typed, TypeOK
  <2>. QED BY <2>3, <2>4, <2>5 DEF Typed
<1>5. ASSUME NEW c \in Call, Load(c) PROVE Typed'
  <2>1. call[c].key \in Key
    BY <1>5 DEF Keyed, Load
  <2>2. Keyed'
    BY <1>5, <2>1, Loaded DEF Keyed
  <2>3. Judged'
    BY <1>5, Loaded, JudgedStays
  <2>4. TypeOK'
    BY <1>5, Loaded DEF Load, facts, keys, TypeOK
  <2>. QED BY <2>2, <2>3, <2>4
<1>6. ASSUME NEW c \in Call, LoadBaseline(c) PROVE Typed'
  <2>1. call[c].key \in Key
    BY <1>6 DEF Keyed, LoadBaseline
  <2>2. Keyed'
    BY <1>6, <2>1, BaselineLoaded DEF Keyed
  <2>3. Judged'
    BY <1>6, BaselineLoaded, JudgedStays
  <2>4. TypeOK'
    BY <1>6, BaselineLoaded DEF LoadBaseline, facts, keys, TypeOK
  <2>. QED BY <2>2, <2>3, <2>4
<1>7. ASSUME NEW c \in Call, NEW s \in Source, ReadList(c, s) PROVE Typed'
  <2>1. call[c].key \in Key
    BY <1>7 DEF Keyed, ReadList
  <2>2. Keyed'
    BY <1>7, <2>1, ListRead DEF Keyed
  <2>3. Judged'
    BY <1>7, ListRead, JudgedStays
  <2>4. faults' \in 0..MaxFaults
    BY <1>7, FaultsType DEF ReadList, TypeOK
  <2>5. TypeOK'
    BY <1>7, <2>4, ListRead DEF ReadList, facts, keys, TypeOK
  <2>. QED BY <2>2, <2>3, <2>5
<1>8. ASSUME NEW c \in Call, Judge(c) PROVE Typed'
  <2>. HIDE DEF Typed
  <2>0. call[c].at = "read" /\ call[c].key \in Key /\ TypeOK /\ Judged
    BY <1>8 DEF Typed, Keyed, Judge
  <2>1. CASE \E result \in {"refused", "shrunk"} : Reject(c, result)
    <3>1. /\ call' \in [Call -> CallType] /\ record' \in [Key -> RowType]
          /\ \A d \in Call \ {c} : call'[d] = call[d]
          /\ call'[c].at \notin {"contacts", "publish"} /\ call'[c].key = call[c].key
      BY <2>0, <2>1, Rejected
    <3>2. Keyed'
      BY <2>0, <3>1 DEF Typed, Keyed
    <3>3. Judged'
      BY <2>0, <3>1, JudgedStays
    <3>4. TypeOK'
      BY <1>8, <3>1 DEF Judge, facts, Typed, TypeOK
    <3>. QED BY <3>2, <3>3, <3>4 DEF Typed
  <2>2. CASE call[c].unread = {} /\ Shrunk(c) = {} /\ ToRead(c) = {}
             /\ Goes(c, "contacts") /\ UNCHANGED record
    <3>1. TypeOK'
      BY <1>8, <2>0, <2>2, Gone DEF Judge, facts, TypeOK
    <3>2. Keyed'
      BY <2>0, <2>2, Gone DEF Typed, Keyed
    <3>3. call[c].lists \in [Source -> Lists]
      <4>1. call[c].lists \in [Source -> Lists \cup {None}]
        BY <2>0 DEF TypeOK, CallType
      <4>. QED BY <2>2, <4>1 DEF ToRead
    <3>4. Shrunk(c)' = {}
      BY <2>0, <2>2, Gone, SameShrunk
    <3>5. Judged'
      BY <2>0, <2>2, <3>3, <3>4, Gone, SameCall DEF Judged
    <3>. QED BY <3>1, <3>2, <3>5 DEF Typed
  <2>. QED BY <1>8, <2>1, <2>2 DEF Judge
<1>9. ASSUME NEW c \in Call, LoadContacts(c) PROVE Typed'
  <2>0. call[c].at = "contacts" /\ call[c].key \in Key
    BY <1>9 DEF Keyed, LoadContacts
  <2>1. Keyed'
    BY <1>9, <2>0, ContactsLoaded DEF Keyed
  <2>2. Shrunk(c)' = Shrunk(c)
    BY <1>9, ContactsLoaded, SameShrunk
  <2>3. Judged'
    BY <1>9, <2>0, <2>2, ContactsLoaded, SameCall DEF Judged
  <2>4. TypeOK'
    BY <1>9, ContactsLoaded DEF LoadContacts, facts, keys, TypeOK
  <2>. QED BY <2>1, <2>3, <2>4
<1>10. ASSUME NEW c \in Call, Publish(c) PROVE Typed'
  <2>. HIDE DEF Typed
  <2>0. TypeOK /\ Judged /\ Keyed /\ call[c].at = "publish"
    BY <1>10 DEF Typed, Publish
  <2>1. Keyed'
    <3>1. call[c].key \in Key
      BY <2>0 DEF Keyed
    <3>2. /\ call'[c].key = call[c].key
          /\ \A d \in Call \ {c} : call'[d].at = call[d].at /\ call'[d].key = call[d].key
      BY <1>10, PublishedCalls
    <3>. QED BY <2>0, <3>1, <3>2 DEF Keyed
  <2>2. \A d \in Call \ {c} : Shrunk(d)' = Shrunk(d)
    BY <1>10, PublishedCalls, SameShrunk
  <2>3. Judged'
    BY <1>10, <2>0, <2>2, PublishedCalls DEF Judged
  <2>4. snapshot' \in [config : Stamp, lists : [Source -> Lists],
                       contacts : Contacts, from : Stamp, upto : Stamp]
    <3>1. /\ call[c].config \in Stamp /\ call[c].contacts \in Contacts
          /\ call[c].from \in Stamp /\ call[c].upto \in Stamp
      BY <2>0 DEF TypeOK, CallType
    <3>2. call[c].lists \in [Source -> Lists]
      BY <2>0 DEF Judged
    <3>. QED BY <1>10, <3>1, <3>2 DEF Publish
  <2>5. published' \in [Key -> Nat]
    <3>. PICK k : k = call[c].key
      OBVIOUS
    <3>1. published' = [published EXCEPT ![k] = published[k] + 1]
      BY <1>10 DEF Publish
    <3>2. k \in Key /\ published \in [Key -> Nat]
      BY <2>0 DEF TypeOK, Keyed
    <3>3. published[k] + 1 \in Nat
      BY <3>2
    <3>. QED BY <3>1, <3>2, <3>3
  <2>6. TypeOK'
    BY <1>10, <2>0, <2>4, <2>5, PublishedCalls, PublishedRow DEF Publish, facts, TypeOK
  <2>. QED BY <2>1, <2>3, <2>6 DEF Typed
<1>11. ASSUME NEW c \in Call, NEW step \in {"load", "contacts", "failing"}, Goes(c, step),
              step = "failing", call[c].at # "idle",
              faults' \in 0..MaxFaults,
              UNCHANGED <<facts, snapshot, keys, published>>
       PROVE  Typed'
  <2>1. Keyed'
    BY <1>11, Gone DEF Keyed
  <2>2. Judged'
    BY <1>11, Gone, JudgedStays
  <2>3. TypeOK'
    BY <1>11, Gone DEF facts, keys, TypeOK
  <2>. QED BY <2>1, <2>2, <2>3
<1>12. ASSUME NEW c \in Call, Unpublishable(c) PROVE Typed'
  BY <1>11, <1>12 DEF Unpublishable, TypeOK
<1>13. ASSUME NEW c \in Call, Fails(c) PROVE Typed'
  BY <1>11, <1>13, FaultsType DEF Fails
<1>14. ASSUME NEW c \in Call, Unbuildable(c) PROVE Typed'
  <2>. HIDE DEF Typed
  <2>0. call[c].at = "publish" /\ call[c].key \in Key /\ TypeOK /\ Judged
    BY <1>14 DEF Typed, Keyed, Unbuildable
  <2>1. /\ call' \in [Call -> CallType] /\ record' \in [Key -> RowType]
        /\ \A d \in Call \ {c} : call'[d] = call[d]
        /\ call'[c].at \notin {"contacts", "publish"} /\ call'[c].key = call[c].key
    BY <1>14, <2>0, Rejected DEF Unbuildable
  <2>2. Keyed'
    BY <2>0, <2>1 DEF Typed, Keyed
  <2>3. Judged'
    BY <2>0, <2>1, JudgedStays
  <2>4. TypeOK'
    BY <1>14, <2>0, <2>1, FaultsType DEF Unbuildable, facts, TypeOK
  <2>. QED BY <2>2, <2>3, <2>4 DEF Typed
<1>15. ASSUME NEW c \in Call, FailReservation(c) PROVE Typed'
  <2>. HIDE DEF Typed
  <2>0. call[c].key \in Key /\ TypeOK /\ Judged
    BY <1>15 DEF Typed, Keyed, FailReservation
  <2>1. /\ call' \in [Call -> CallType] /\ record' \in [Key -> RowType]
        /\ \A d \in Call \ {c} : call'[d] = call[d]
        /\ call'[c].at \notin {"contacts", "publish"} /\ call'[c].key = call[c].key
    BY <1>15, FailedReservation
  <2>2. Keyed'
    BY <2>0, <2>1 DEF Typed, Keyed
  <2>3. Judged'
    BY <2>0, <2>1, JudgedStays
  <2>4. faults' \in 0..MaxFaults
    BY <1>15, <2>0, FaultsType DEF FailReservation, TypeOK
  <2>5. TypeOK'
    BY <1>15, <2>0, <2>1, <2>4 DEF FailReservation, facts, TypeOK
  <2>. QED BY <2>2, <2>3, <2>5 DEF Typed
<1>16. ASSUME NEW c \in Call, Dies(c) PROVE Typed'
  <2>1. /\ call' \in [Call -> CallType] /\ \A d \in Call \ {c} : call'[d] = call[d]
        /\ call'[c].at = "idle"
    <3>1. call' = [call EXCEPT ![c] = Resting] /\ Resting.at = "idle"
      BY <1>16 DEF Dies, Resting
    <3>. QED BY <3>1, EmptyRecords DEF TypeOK
  <2>2. Keyed' /\ Judged'
    BY <2>1, JudgedStays DEF Keyed
  <2>3. TypeOK'
    BY <1>16, <2>1, FaultsType DEF Dies, facts, keys, TypeOK
  <2>. QED BY <2>2, <2>3
<1>17. ASSUME NEW c \in Call, Scheduled(c) PROVE Typed'
  <2>1. Begins(c, "scheduled", Occurrence, 0) /\ "scheduled" \in Origins
    BY <1>17 DEF Scheduled, Origins
  <2>2. /\ call' \in [Call -> CallType] /\ \A d \in Call \ {c} : call'[d] = call[d]
        /\ call'[c].at = "reserve" /\ call'[c].key \in Key
    BY <2>1, Begun, StampZero
  <2>3. Keyed' /\ Judged'
    BY <2>2, JudgedStays DEF Keyed
  <2>4. record' \in [Key -> RowType] /\ published' \in [Key -> Nat]
    BY <1>17, EmptyRecords DEF Scheduled, Renewed, TypeOK
  <2>5. TypeOK'
    BY <1>17, <2>2, <2>4 DEF Scheduled, facts, TypeOK
  <2>. QED BY <2>3, <2>5
<1>18. ASSUME NEW c \in Call, Repeat(c) PROVE Typed'
  <2>1. PICK k \in Key : Begins(c, record[k].by, k, record[k].since)
    BY <1>18 DEF Repeat
  <2>2. record[k].by \in Origins /\ record[k].since \in Stamp
    BY DEF TypeOK, RowType
  <2>3. /\ call' \in [Call -> CallType] /\ \A d \in Call \ {c} : call'[d] = call[d]
        /\ call'[c].at = "reserve" /\ call'[c].key \in Key
    BY <2>1, <2>2, Begun
  <2>4. Keyed' /\ Judged'
    BY <2>3, JudgedStays DEF Keyed
  <2>5. TypeOK'
    BY <1>18, <2>3, FaultsType DEF Repeat, facts, keys, TypeOK
  <2>. QED BY <2>4, <2>5
<1>19. ASSUME NEW c \in Call, NEW by \in Origins, NEW since \in Stamp,
              Command(c, by, since)
       PROVE  /\ call' \in [Call -> CallType] /\ issued' \in 0..MaxCommands
              /\ Keyed' /\ Judged'
  BY <1>19, Commanded, JudgedStays DEF Keyed
<1>20. ASSUME NEW c \in Call, PublishByHand(c) PROVE Typed'
  <2>1. "hand" \in Origins /\ edits \in Stamp
    BY DEF Origins, TypeOK
  <2>. QED BY <1>19, <1>20, <2>1 DEF PublishByHand, facts, TypeOK
<1>21. ASSUME NEW c \in Call, NEW p \in Subscriber, ConsentChange(c, p) PROVE Typed'
  <2>1. "consent" \in Origins /\ edits + 1 \in Stamp /\ edits' \in Stamp
    BY <1>21, EditsType DEF Origins, ConsentChange
  <2>2. /\ call' \in [Call -> CallType] /\ issued' \in 0..MaxCommands
        /\ Keyed' /\ Judged'
    BY <1>19, <1>21, <2>1 DEF ConsentChange
  <2>3. consent' \in [Subscriber -> Stamp]
    BY <1>21, <2>1, StampZero DEF ConsentChange, TypeOK
  <2>. QED BY <1>21, <2>1, <2>2, <2>3 DEF ConsentChange, TypeOK
<1>22. ASSUME NEW c \in Call, NEW s \in Source, Save(c, s) PROVE Typed'
  <2>1. "save" \in Origins /\ edits + 1 \in Stamp /\ edits' \in Stamp
    BY <1>22, EditsType DEF Origins, Save
  <2>2. /\ call' \in [Call -> CallType] /\ issued' \in 0..MaxCommands
        /\ Keyed' /\ Judged'
    BY <1>19, <1>22, <2>1 DEF Save
  <2>3. members' \in [Source -> Lists]
    BY <1>22 DEF Save, TypeOK
  <2>. QED BY <1>22, <2>1, <2>2, <2>3 DEF Save, TypeOK
<1>23. CASE UNCHANGED vars
  BY <1>23 DEF vars, facts, keys, TypeOK, Keyed, Judged, Shrunk
<1>. QED BY <1>1, <1>2, <1>3, <1>4, <1>5, <1>6, <1>7, <1>8, <1>9, <1>10, <1>12, <1>13,
            <1>14, <1>15, <1>16, <1>17, <1>18, <1>20, <1>21, <1>22, <1>23 DEF Next, Step
-----------------------------------------------------------------------------
(* Five kinds of step. *)

Reading == {"read", "contacts", "publish"}

\* An edit nobody asked to publish, or no step at all.
EditOnly == /\ UNCHANGED <<snapshot, record, issued, call, published>>
            /\ edits' \in {edits, edits + 1}

\* A publication goes on, short of publishing.
Advances(c) ==
    /\ UNCHANGED <<edits, snapshot, issued, published>>
    /\ \A d \in Call \ {c} : call'[d] = call[d]
    /\ \A k \in Key : RowMove(c, k)
    /\ \/ call'[c].key = call[c].key /\ call'[c].since = call[c].since
       \/ call'[c].key = None /\ call'[c].since = 0 /\ call'[c].at = "idle"
    /\ call'[c].upto \in {0, call[c].upto, edits}
    /\ call'[c].from \in {0, call[c].from, edits}
    /\ call'[c].current =>
          \/ /\ call[c].current /\ call'[c].was = call[c].was
             /\ call'[c].from = call[c].from
          \/ /\ call'[c].from = edits
             /\ call'[c].was = [s \in Source |-> Cardinality(snapshot.lists[s])]
    /\ call'[c].at \in Reading =>
          \/ call'[c].from = edits
          \/ call[c].at \in Reading /\ call'[c].from = call[c].from
    /\ call'[c].at = "done" /\ call'[c].answer = "published" =>
          /\ record[call[c].key].status = "completed"
          /\ record[call[c].key].result = "published"

\* A publication begins, for a new change, or again for the one of a key.
Enters(c) ==
    /\ UNCHANGED <<snapshot>> /\ edits' \in {edits, edits + 1}
    /\ \A d \in Call \ {c} : call'[d] = call[d]
    /\ call'[c].at = "reserve" /\ call'[c].from = 0 /\ call'[c].upto = 0
    /\ call'[c].current = FALSE

Commands(c) ==
    /\ Enters(c) /\ UNCHANGED <<record, published>>
    /\ issued' = issued + 1 /\ issued' \in Key /\ issued' # Occurrence
    /\ call'[c].key = issued' /\ call'[c].since \in {edits, edits'}

Repeats(c) ==
    /\ Enters(c) /\ UNCHANGED <<record, issued, published>>
    /\ \E k \in Key : /\ record[k].status # "none"
                      /\ call'[c].key = k /\ call'[c].since = record[k].since

Schedules(c) ==
    /\ Enters(c) /\ UNCHANGED <<edits, issued>>
    /\ record' = [record EXCEPT ![Occurrence] = NoRecord]
    /\ published' = [published EXCEPT ![Occurrence] = 0]
    /\ call'[c].key = Occurrence /\ call'[c].since = 0

\* Every step is of one of the five kinds.
LEMMA Kinds ==
    ASSUME Typed, [Next]_vars
    PROVE  \/ EditOnly
           \/ \E c \in Call : \/ Advances(c) \/ Publish(c)
                              \/ Commands(c) \/ Repeats(c) \/ Schedules(c)
<1>. DEFINE Kind(c) == \/ Advances(c) \/ Publish(c)
                       \/ Commands(c) \/ Repeats(c) \/ Schedules(c)
<1>0. TypeOK
  BY DEF Typed
<1>1. CASE Refresh \/ Reconfigure \/ (\E p \in Subscriber : DeviceChange(p))
           \/ UNCHANGED vars
  BY <1>1 DEF Refresh, Reconfigure, DeviceChange, Edit, EditOnly, vars, facts, keys
<1>2. ASSUME NEW c \in Call, Reserve(c) PROVE Kind(c)
  <2>1. UNCHANGED <<edits, snapshot, issued, published>>
    BY <1>2 DEF Reserve, facts
  <2>. QED BY <1>2, <2>1, ReservedKey DEF Advances, Reading
<1>3. ASSUME NEW c \in Call, Load(c) PROVE Kind(c)
  <2>1. UNCHANGED <<edits, snapshot, issued, published>> /\ UNCHANGED record
    BY <1>3 DEF Load, facts, keys
  <2>. QED BY <1>0, <1>3, <2>1, Loaded DEF Advances, Reading, RowMove
<1>4. ASSUME NEW c \in Call, LoadBaseline(c) PROVE Kind(c)
  <2>1. UNCHANGED <<edits, snapshot, issued, published>> /\ UNCHANGED record
    BY <1>4 DEF LoadBaseline, facts, keys
  <2>. QED BY <1>0, <1>4, <2>1, BaselineLoaded DEF Advances, Reading, RowMove
<1>5. ASSUME NEW c \in Call, NEW s \in Source, ReadList(c, s) PROVE Kind(c)
  <2>1. UNCHANGED <<edits, snapshot, issued, published>> /\ UNCHANGED record
    BY <1>5 DEF ReadList, facts, keys
  <2>2. /\ \A d \in Call \ {c} : call'[d] = call[d]
        /\ call[c].at = "read" /\ call'[c].at = "read" /\ call'[c].key = call[c].key
        /\ call'[c].since = call[c].since /\ call'[c].from = call[c].from
        /\ call'[c].upto = call[c].upto /\ call'[c].current = call[c].current
        /\ call'[c].was = call[c].was
    BY <1>0, <1>5, ListRead
  <2>. QED BY <2>1, <2>2 DEF Advances, Reading, RowMove
<1>6. ASSUME NEW c \in Call, Judge(c) PROVE Kind(c)
  <2>1. UNCHANGED <<edits, snapshot, issued, published>> /\ call[c].at = "read"
    BY <1>6 DEF Judge, facts
  <2>2. CASE Goes(c, "contacts") /\ UNCHANGED record
    BY <1>0, <2>1, <2>2, Gone DEF Advances, Reading, RowMove
  <2>3. ASSUME NEW result \in {"refused", "shrunk"}, Reject(c, result) PROVE Kind(c)
    BY <2>1, <2>3, Rejected DEF Advances, Reading
  <2>. QED BY <1>6, <2>2, <2>3 DEF Judge
<1>7. ASSUME NEW c \in Call, LoadContacts(c) PROVE Kind(c)
  <2>1. /\ UNCHANGED <<edits, snapshot, issued, published>> /\ UNCHANGED record
        /\ call[c].at = "contacts"
    BY <1>7 DEF LoadContacts, facts, keys
  <2>. QED BY <1>0, <1>7, <2>1, ContactsLoaded DEF Advances, Reading, RowMove
<1>8. ASSUME NEW c \in Call, Unpublishable(c) \/ Fails(c) PROVE Kind(c)
  <2>1. /\ UNCHANGED <<edits, snapshot, issued, published>> /\ UNCHANGED record
        /\ Goes(c, "failing")
    BY <1>8 DEF Unpublishable, Fails, facts, keys
  <2>. QED BY <1>0, <2>1, Gone DEF Advances, Reading, RowMove
<1>9. ASSUME NEW c \in Call, Unbuildable(c) PROVE Kind(c)
  <2>1. /\ UNCHANGED <<edits, snapshot, issued, published>> /\ call[c].at = "publish"
        /\ Reject(c, "refused")
    BY <1>9 DEF Unbuildable, facts
  <2>. QED BY <2>1, Rejected DEF Advances, Reading
<1>10. ASSUME NEW c \in Call, FailReservation(c) PROVE Kind(c)
  <2>1. UNCHANGED <<edits, snapshot, issued, published>>
    BY <1>10 DEF FailReservation, facts
  <2>. QED BY <1>10, <2>1, FailedReservation DEF Advances, Reading
<1>11. ASSUME NEW c \in Call, Dies(c) PROVE Kind(c)
  <2>1. /\ UNCHANGED <<edits, snapshot, issued, published>> /\ UNCHANGED record
        /\ call' = [call EXCEPT ![c] = Resting]
    BY <1>11 DEF Dies, facts, keys
  <2>2. /\ Resting.key = None /\ Resting.since = 0 /\ Resting.at = "idle"
        /\ Resting.from = 0 /\ Resting.upto = 0 /\ Resting.current = FALSE
    BY DEF Resting
  <2>. QED BY <1>0, <2>1, <2>2 DEF Advances, Reading, RowMove, TypeOK
<1>12. ASSUME NEW c \in Call, NEW by \in Origins, NEW since \in Stamp,
              Command(c, by, since), edits' \in {edits, edits + 1},
              since \in {edits, edits'}, UNCHANGED <<snapshot, record, published>>
       PROVE  Kind(c)
  <2>1. /\ issued' = issued + 1 /\ issued' \in Key /\ issued' # Occurrence
        /\ \A d \in Call \ {c} : call'[d] = call[d]
        /\ call'[c].at = "reserve" /\ call'[c].key = issued' /\ call'[c].since = since
        /\ call'[c].from = 0 /\ call'[c].upto = 0 /\ call'[c].current = FALSE
    BY <1>0, <1>12, Commanded, ZenonT(60)
  <2>. QED BY <1>12, <2>1 DEF Commands, Enters
<1>13. ASSUME NEW c \in Call, PublishByHand(c) PROVE Kind(c)
  BY <1>0, <1>12, <1>13 DEF PublishByHand, facts, Origins, TypeOK
<1>14. ASSUME NEW c \in Call, NEW p \in Subscriber, ConsentChange(c, p) PROVE Kind(c)
  <2>1. edits' = edits + 1 /\ edits + 1 \in Stamp
    BY <1>0, <1>14, EditsType DEF ConsentChange
  <2>. QED BY <1>12, <1>14, <2>1 DEF ConsentChange, Origins
<1>15. ASSUME NEW c \in Call, NEW s \in Source, Save(c, s) PROVE Kind(c)
  <2>1. edits' = edits + 1 /\ edits + 1 \in Stamp
    BY <1>0, <1>15, EditsType DEF Save
  <2>. QED BY <1>12, <1>15, <2>1 DEF Save, Origins
<1>16. ASSUME NEW c \in Call, Repeat(c) PROVE Kind(c)
  <2>1. PICK k \in Key : record[k].status # "none" /\ Begins(c, record[k].by, k, record[k].since)
    BY <1>16 DEF Repeat
  <2>2. record[k].by \in Origins /\ record[k].since \in Stamp
    BY <1>0 DEF TypeOK, RowType
  <2>3. /\ \A d \in Call \ {c} : call'[d] = call[d]
        /\ call'[c].at = "reserve" /\ call'[c].key = k /\ call'[c].since = record[k].since
        /\ call'[c].from = 0 /\ call'[c].upto = 0 /\ call'[c].current = FALSE
    BY <1>0, <2>1, <2>2, Begun, ZenonT(60)
  <2>. QED BY <1>16, <2>1, <2>3 DEF Repeat, facts, keys, Repeats, Enters
<1>17. ASSUME NEW c \in Call, Scheduled(c) PROVE Kind(c)
  <2>1. Begins(c, "scheduled", Occurrence, 0) /\ "scheduled" \in Origins
    BY <1>17 DEF Scheduled, Origins
  <2>2. /\ \A d \in Call \ {c} : call'[d] = call[d]
        /\ call'[c].at = "reserve" /\ call'[c].key = Occurrence /\ call'[c].since = 0
        /\ call'[c].from = 0 /\ call'[c].upto = 0 /\ call'[c].current = FALSE
    BY <1>0, <2>1, Begun, StampZero
  <2>. QED BY <1>17, <2>2 DEF Scheduled, Renewed, facts, Schedules, Enters
<1>. QED BY <1>1, <1>2, <1>3, <1>4, <1>5, <1>6, <1>7, <1>8, <1>9, <1>10, <1>11, <1>13,
            <1>14, <1>15, <1>16, <1>17 DEF Next, Step
-----------------------------------------------------------------------------
(* The invariant. *)

LEMMA InitCompared == Init => Compared
BY DEF Init, Compared, Resting

LEMMA StepCompared == Typed /\ Compared /\ [Next]_vars => Compared'
<1>. SUFFICES ASSUME Typed, Compared, [Next]_vars PROVE Compared'
  OBVIOUS
<1>0. /\ edits \in Nat /\ snapshot.upto \in Nat /\ snapshot.upto =< edits
      /\ \A c \in Call : call[c].from \in Nat /\ call[c].upto \in Nat
  BY StampZero DEF Typed, TypeOK, CallType, Compared
<1>1. CASE EditOnly
  <2>1. edits' >= edits
    BY <1>0, <1>1 DEF EditOnly
  <2>. QED BY <1>0, <1>1, <2>1 DEF EditOnly, Compared
<1>2. ASSUME NEW c \in Call, Advances(c) PROVE Compared'
  BY <1>0, <1>2 DEF Advances, Compared
<1>3. ASSUME NEW c \in Call, Publish(c) PROVE Compared'
  <2>1. edits' = edits /\ snapshot'.upto = call[c].upto
    BY <1>3 DEF Publish, facts
  <2>2. \A d \in Call : /\ ~call'[d].current
                        /\ call'[d].from \in {0, call[d].from}
                        /\ call'[d].upto \in {0, call[d].upto}
    BY <1>3, PublishedCalls
  <2>3. ASSUME NEW d \in Call PROVE call'[d].from =< edits /\ call'[d].upto =< edits
    <3>1. call[d].from =< edits /\ call[d].upto =< edits
      BY DEF Compared
    <3>2. 0 =< edits
      BY <1>0
    <3>. QED BY <2>2, <3>1, <3>2
  <2>4. snapshot'.upto =< edits'
    BY <1>0, <2>1 DEF Compared
  <2>. QED BY <2>1, <2>2, <2>3, <2>4 DEF Compared
<1>4. ASSUME NEW c \in Call, Enters(c) PROVE Compared'
  <2>1. edits' >= edits
    BY <1>0, <1>4 DEF Enters
  <2>. QED BY <1>0, <1>4, <2>1 DEF Enters, Compared
<1>. QED BY <1>1, <1>2, <1>3, <1>4, Kinds DEF Commands, Repeats, Schedules

LEMMA InitSpent == Init => Spent
BY DEF Init, Spent

LEMMA StepSpent == Typed /\ Spent /\ [Next]_vars => Spent'
<1>. SUFFICES ASSUME Typed, Spent, [Next]_vars PROVE Spent'
  OBVIOUS
<1>1. CASE EditOnly
  BY <1>1 DEF EditOnly, Spent
<1>2. ASSUME NEW c \in Call, Advances(c) PROVE Spent'
  BY <1>2 DEF Advances, RowMove, Spent
<1>3. ASSUME NEW c \in Call, Publish(c) PROVE Spent'
  <2>1. PICK k \in Key : k = call[c].key /\ record'[k].status = "completed"
    BY <1>3, PublishedRow
  <2>2. published' = [published EXCEPT ![k] = published[k] + 1]
    BY <1>3, <2>1 DEF Publish
  <2>3. \A l \in Key : RowMove(c, l)
    BY <1>3, PublishedRow
  <2>4. \A l \in Key \ {k} : published'[l] = published[l] /\ record'[l] = record[l]
    BY <2>1, <2>2, <2>3 DEF RowMove, Typed, TypeOK
  <2>. QED BY <2>1, <2>4 DEF Spent
<1>4. ASSUME NEW c \in Call, Schedules(c) PROVE Spent'
  BY <1>4 DEF Schedules, Spent, Typed, TypeOK
<1>. QED BY <1>1, <1>2, <1>3, <1>4, Kinds DEF Commands, Repeats, Spent

LEMMA InitOneChange == Init => OneChange
BY NoneAssumption, StampZero DEF Init, OneChange, Resting, NoRecord

LEMMA StepOneChange == Typed /\ OneChange /\ [Next]_vars => OneChange'
<1>. SUFFICES ASSUME Typed, OneChange, [Next]_vars PROVE OneChange'
  OBVIOUS
<1>0. /\ edits \in Nat /\ issued \in Nat /\ Key \subseteq Nat
      /\ \A c \in Call : call[c].since \in Nat
      /\ \A k \in Key : record[k].since \in Nat
      /\ record \in [Key -> RowType]
  <2>1. edits \in Nat /\ issued \in Nat /\ Key \subseteq Nat /\ record \in [Key -> RowType]
    BY StampZero DEF Typed, TypeOK, Key
  <2>2. \A k \in Key : record[k].since \in Nat
    BY <2>1, StampZero DEF RowType
  <2>3. \A c \in Call : call[c].since \in Nat
    BY StampZero DEF Typed, TypeOK, CallType
  <2>. QED BY <2>1, <2>2, <2>3
<1>1. CASE EditOnly
  <2>1. edits' >= edits
    BY <1>0, <1>1 DEF EditOnly
  <2>. QED BY <1>0, <1>1, <2>1 DEF EditOnly, OneChange
\* A publication that goes on keeps its key, or loses it.
<1>2. ASSUME NEW c \in Call, \A k \in Key : RowMove(c, k),
             UNCHANGED <<edits, issued>>,
             \A d \in Call : \/ /\ call'[d].key = call[d].key
                                /\ call'[d].since = call[d].since
                             \/ call'[d].key = None /\ call'[d].since = 0
      PROVE  OneChange'
  <2>1. \A d \in Call : call'[d].key \in Key =>
           call'[d].key = call[d].key /\ call'[d].since = call[d].since
    BY <1>2, NoneAssumption
  <2>2. \A d \in Call :
          /\ call'[d].since =< edits
          /\ call'[d].key = Occurrence => call'[d].since = 0
          /\ call'[d].key \in Key => call'[d].key =< issued \/ call'[d].key = Occurrence
    BY <1>0, <1>2, <2>1, StampZero DEF OneChange
  <2>3. \A b \in Call, d \in Call :
          call'[b].key \in Key /\ call'[b].key = call'[d].key => call'[b].since = call'[d].since
    BY <2>1 DEF OneChange
  <2>4. ASSUME NEW k \in Key
        PROVE  /\ record'[k].since \in {record[k].since, call[c].since}
               /\ record'[k].since # record[k].since => k = call[c].key
               /\ record'[k].status # "none" =>
                     record[k].status # "none" \/ k = call[c].key
               /\ \A d \in Call : call'[d].key = k /\ record'[k].status # "none" =>
                     record'[k].since = call'[d].since
    BY <1>2, <2>1 DEF RowMove, OneChange
  <2>5. \A k \in Key :
          /\ record'[k].since =< edits
          /\ record'[k].status # "none" => k =< issued \/ k = Occurrence
          /\ k = Occurrence => record'[k].since = 0
    BY <2>4, StampZero DEF OneChange
  <2>6. \A d \in Call : call'[d].key \in Key /\ record'[call'[d].key].status # "none" =>
          record'[call'[d].key].since = call'[d].since
    BY <2>4
  <2>. QED BY <1>2, <2>2, <2>3, <2>5, <2>6 DEF OneChange
<1>3. ASSUME NEW c \in Call, Advances(c) PROVE OneChange'
  <2>1. \A d \in Call : \/ /\ call'[d].key = call[d].key
                           /\ call'[d].since = call[d].since
                        \/ call'[d].key = None /\ call'[d].since = 0
    BY <1>3 DEF Advances
  <2>. QED BY <1>2, <1>3, <2>1 DEF Advances
<1>4. ASSUME NEW c \in Call, Publish(c) PROVE OneChange'
  <2>1. \A k \in Key : RowMove(c, k)
    BY <1>4, PublishedRow
  <2>2. UNCHANGED <<edits, issued>>
    BY <1>4 DEF Publish, facts
  <2>3. \A d \in Call : call'[d].key = call[d].key /\ call'[d].since = call[d].since
    BY <1>4, PublishedCalls
  <2>. QED BY <1>2, <2>1, <2>2, <2>3
\* A command's key is a new one.
<1>5. ASSUME NEW c \in Call, Commands(c) PROVE OneChange'
  <2>. PICK n \in Key : n = issued + 1 /\ n = issued' /\ n # Occurrence
    BY <1>5 DEF Commands
  <2>1. /\ UNCHANGED record /\ edits' >= edits /\ edits' \in Nat
        /\ \A d \in Call \ {c} : call'[d] = call[d]
        /\ call'[c].key = n /\ call'[c].since =< edits'
    BY <1>0, <1>5 DEF Commands, Enters
  <2>2. /\ \A d \in Call \ {c} : call[d].key # n
        /\ record[n].status = "none"
    BY <1>0 DEF OneChange
  <2>. QED BY <1>0, <2>1, <2>2 DEF OneChange
\* A repeated request carries the key and the change of its row.
<1>6. ASSUME NEW c \in Call, Repeats(c) PROVE OneChange'
  <2>1. PICK k \in Key : /\ record[k].status # "none"
                         /\ call'[c].key = k /\ call'[c].since = record[k].since
    BY <1>6 DEF Repeats
  <2>2. /\ UNCHANGED <<record, issued>> /\ edits' >= edits /\ edits' \in Nat
        /\ \A d \in Call \ {c} : call'[d] = call[d]
    BY <1>0, <1>6 DEF Repeats, Enters
  <2>. QED BY <1>0, <2>1, <2>2 DEF OneChange
<1>7. ASSUME NEW c \in Call, Schedules(c) PROVE OneChange'
  <2>1. /\ UNCHANGED <<edits, issued>>
        /\ \A d \in Call \ {c} : call'[d] = call[d]
        /\ call'[c].key = Occurrence /\ call'[c].since = 0
    BY <1>7 DEF Schedules, Enters
  <2>2. /\ \A k \in Key \ {Occurrence} : record'[k] = record[k]
        /\ record'[Occurrence].since = 0 /\ record'[Occurrence].status = "none"
    BY <1>0, <1>7, StampZero DEF Schedules, NoRecord
  <2>3. \A b \in Call, d \in Call :
          call'[b].key \in Key /\ call'[b].key = call'[d].key => call'[b].since = call'[d].since
    BY <2>1 DEF OneChange
  <2>4. \A d \in Call : call'[d].key \in Key /\ record'[call'[d].key].status # "none" =>
          record'[call'[d].key].since = call'[d].since
    BY <2>1, <2>2 DEF OneChange
  <2>5. \A k \in Key :
          /\ record'[k].since =< edits
          /\ record'[k].status # "none" => k =< issued \/ k = Occurrence
          /\ k = Occurrence => record'[k].since = 0
    BY <1>0, <2>2 DEF OneChange
  <2>6. \A d \in Call :
          /\ call'[d].since =< edits
          /\ call'[d].key = Occurrence => call'[d].since = 0
          /\ call'[d].key \in Key => call'[d].key =< issued \/ call'[d].key = Occurrence
    BY <1>0, <2>1 DEF OneChange
  <2>. QED BY <2>1, <2>3, <2>4, <2>5, <2>6 DEF OneChange
<1>. QED BY <1>1, <1>3, <1>4, <1>5, <1>6, <1>7, Kinds

LEMMA InitReadAfter == Init => ReadAfter
BY DEF Init, ReadAfter, Resting, NoRecord

LEMMA StepReadAfter == Typed /\ OneChange /\ ReadAfter /\ [Next]_vars => ReadAfter'
<1>. SUFFICES ASSUME Typed, OneChange, ReadAfter, [Next]_vars PROVE ReadAfter'
  OBVIOUS
<1>0. /\ edits \in Nat /\ \A c \in Call : call[c].since \in Nat /\ call[c].since =< edits
      /\ record \in [Key -> RowType] /\ NoRecord \in RowType
      /\ NoRecord.status = "none" /\ NoRecord.result = "none"
  BY StampZero, EmptyRecords DEF Typed, TypeOK, CallType, OneChange, NoRecord
\* Rows are settled with what was read after their change.
<1>1. ASSUME NEW c \in Call, \A k \in Key : RowMove(c, k), NEW k \in Key
      PROVE  /\ record'[k].result = "published" => record'[k].holds >= record'[k].since
             /\ record'[k].status = "none" => record'[k].result = "none"
  <2>1. call[c].at = "publish" => call[c].from >= call[c].since
    BY DEF ReadAfter
  <2>2. k = call[c].key /\ record[k].status # "none" => record[k].since = call[c].since
    BY DEF OneChange
  <2>. QED BY <1>1, <2>1, <2>2 DEF RowMove, ReadAfter
<1>2. CASE EditOnly
  BY <1>2 DEF EditOnly, ReadAfter
<1>3. ASSUME NEW c \in Call, Advances(c) PROVE ReadAfter'
  <2>1. \A d \in Call : call'[d].at \in {"read", "contacts", "publish"} =>
           call'[d].from >= call'[d].since
    BY <1>0, <1>3 DEF Advances, Reading, ReadAfter
  <2>2. \A k \in Key : RowMove(c, k)
    BY <1>3 DEF Advances
  <2>. QED BY <1>1, <2>1, <2>2 DEF ReadAfter
<1>4. ASSUME NEW c \in Call, Publish(c) PROVE ReadAfter'
  <2>1. \A d \in Call : call'[d].at \in {"read", "contacts", "publish"} =>
           call'[d].from >= call'[d].since
    BY <1>4, PublishedCalls DEF ReadAfter
  <2>2. \A k \in Key : RowMove(c, k)
    BY <1>4, PublishedRow
  <2>. QED BY <1>1, <2>1, <2>2 DEF ReadAfter
<1>5. ASSUME NEW c \in Call, Enters(c), UNCHANGED record PROVE ReadAfter'
  BY <1>5 DEF Enters, ReadAfter
<1>6. ASSUME NEW c \in Call, Schedules(c) PROVE ReadAfter'
  <2>1. \A d \in Call : call'[d].at \in {"read", "contacts", "publish"} =>
           call'[d].from >= call'[d].since
    BY <1>6 DEF Schedules, Enters, ReadAfter
  <2>2. \A k \in Key : record'[k] \in {record[k], NoRecord}
    BY <1>0, <1>6 DEF Schedules
  <2>. QED BY <1>0, <2>1, <2>2 DEF ReadAfter
<1>. QED BY <1>2, <1>3, <1>4, <1>5, <1>6, Kinds DEF Commands, Repeats

LEMMA InitTold == Init => Told
BY DEF Init, Told, Resting

LEMMA StepTold == Typed /\ Told /\ [Next]_vars => Told'
<1>. SUFFICES ASSUME Typed, Told, [Next]_vars PROVE Told'
  OBVIOUS
<1>0. \A c \in Call : call[c].at # "idle" => call[c].key \in Key
  BY DEF Typed, Keyed
<1>1. CASE EditOnly
  BY <1>1 DEF EditOnly, Told
\* A completed row stays as it is.
<1>2. ASSUME NEW c \in Call, NEW k \in Key, RowMove(c, k), record[k].status = "completed"
      PROVE  record'[k] = record[k]
  BY <1>2 DEF RowMove
<1>3. ASSUME NEW c \in Call, Advances(c) PROVE Told'
  <2>. SUFFICES ASSUME NEW d \in Call, call'[d].at = "done", call'[d].answer = "published"
                PROVE  \/ call'[d].key = Occurrence
                       \/ /\ record'[call'[d].key].status = "completed"
                          /\ record'[call'[d].key].result = "published"
    BY DEF Told
  <2>1. Keyed'
    BY StepTyped DEF Typed
  <2>. PICK k \in Key : k = call'[d].key
    BY <2>1 DEF Keyed
  <2>2. k = call[d].key
    BY <1>3 DEF Advances
  <2>3. \/ k = Occurrence
        \/ record[k].status = "completed" /\ record[k].result = "published"
    BY <1>3, <2>2 DEF Advances, Told
  <2>. QED BY <1>2, <1>3, <2>3 DEF Advances
<1>4. ASSUME NEW c \in Call, Publish(c) PROVE Told'
  <2>. SUFFICES ASSUME NEW d \in Call, call'[d].at = "done", call'[d].answer = "published"
                PROVE  \/ call'[d].key = Occurrence
                       \/ /\ record'[call'[d].key].status = "completed"
                          /\ record'[call'[d].key].result = "published"
    BY DEF Told
  <2>1. call'[d].key = call[d].key
    BY <1>4, PublishedCalls
  <2>2. CASE d = c
    BY <1>4, <2>1, <2>2, PublishedRow
  <2>3. CASE d # c
    <3>1. call[d].at = "done" /\ call[d].answer = "published"
      BY <1>4, <2>3, PublishedCalls
    <3>. PICK k \in Key : k = call[d].key
      BY <1>0, <3>1
    <3>2. RowMove(c, k)
      BY <1>4, PublishedRow
    <3>. QED BY <1>2, <2>1, <3>1, <3>2 DEF Told
  <2>. QED BY <2>2, <2>3
<1>5. ASSUME NEW c \in Call, Enters(c), UNCHANGED record PROVE Told'
  BY <1>5 DEF Enters, Told
<1>6. ASSUME NEW c \in Call, Schedules(c) PROVE Told'
  <2>1. \A k \in Key \ {Occurrence} : record'[k] = record[k]
    BY <1>6 DEF Schedules, Typed, TypeOK
  <2>. QED BY <1>0, <1>6, <2>1 DEF Schedules, Enters, Told
<1>. QED BY <1>1, <1>3, <1>4, <1>5, <1>6, Kinds DEF Commands, Repeats

\* The inductive invariant.
LEMMA Inductive == Spec => []IInv
<1>1. Init => IInv
  BY InitTyped, InitCompared, InitSpent, InitOneChange, InitReadAfter, InitTold DEF IInv
<1>2. IInv /\ [Next]_vars => IInv'
  BY StepTyped, StepCompared, StepSpent, StepOneChange, StepReadAfter, StepTold DEF IInv
<1>. QED BY <1>1, <1>2, PTL DEF Spec
-----------------------------------------------------------------------------
(* What it shows. *)

\* The rows and the publications are well-formed.
THEOREM TypeCorrect == Spec => []TypeOK
<1>1. IInv => TypeOK
  BY DEF IInv, Typed
<1>. QED BY <1>1, Inductive, PTL

\* Whoever is told that the roster is published after a save or a consent is
\* told of a publication that read everything after that change.
THEOREM SavesAreRead == Spec => []SavedMeansRead
<1>1. ASSUME IInv PROVE SavedMeansRead
  <2>. SUFFICES ASSUME NEW c \in Call, call[c].at = "done", call[c].answer = "published"
                PROVE  record[call[c].key].holds >= call[c].since
    BY <1>1 DEF IInv, Typed, SavedMeansRead
  <2>0. TypeOK /\ OneChange /\ ReadAfter /\ Told
    BY <1>1 DEF IInv, Typed
  <2>. PICK k \in Key : k = call[c].key
    BY <1>1 DEF IInv, Typed, Keyed
  <2>1. record[k].holds \in Nat
    BY <2>0, StampZero DEF TypeOK, RowType
  <2>2. CASE k = Occurrence
    <3>1. call[c].since = 0
      BY <2>0, <2>2 DEF OneChange
    <3>. QED BY <2>1, <3>1
  <2>3. CASE k # Occurrence
    <3>1. record[k].status = "completed" /\ record[k].result = "published"
      BY <2>0, <2>3 DEF Told
    <3>. QED BY <2>0, <3>1 DEF OneChange, ReadAfter
  <2>. QED BY <2>2, <2>3
<1>. QED BY <1>1, Inductive, PTL

\* Of publications that overlap none undoes another: a snapshot was read after
\* everything the one before it holds, its configuration is not an older one,
\* and no building shrinks by what the guard against a bad read refuses.
THEOREM OverlapsDoNotUndo == Spec => NeverGoesBack
<1>1. ASSUME IInv, [Next]_vars, snapshot' # snapshot
      PROVE  /\ snapshot'.from >= snapshot.upto
             /\ snapshot'.config >= snapshot.config
             /\ \A s \in Source \ waiting :
                   ~Suspicious(Cardinality(snapshot.lists[s]),
                               Cardinality(snapshot'.lists[s]))
  <2>1. PICK c \in Call : Publish(c)
    BY <1>1, Kinds DEF IInv, EditOnly, Advances, Commands, Repeats, Schedules, Enters
  <2>2. /\ call[c].at = "publish" /\ call[c].waiting = waiting
        /\ call[c].config >= snapshot.config /\ call[c].current
    BY <2>1 DEF Publish, Publishable, Baseline
  <2>3. /\ snapshot'.from = call[c].from /\ snapshot'.config = call[c].config
        /\ snapshot'.lists = call[c].lists
    BY <2>1 DEF Publish
  <2>4. /\ call[c].from >= snapshot.upto
        /\ call[c].was = [s \in Source |-> Cardinality(snapshot.lists[s])]
    BY <1>1, <2>2 DEF IInv, Compared
  <2>5. call[c].unread = {} /\ Shrunk(c) = {}
    BY <1>1, <2>2 DEF IInv, Typed, Judged
  <2>6. \A s \in Source \ waiting :
           ~Suspicious(call[c].was[s], Cardinality(call[c].lists[s]))
    BY <2>2, <2>5 DEF Shrunk
  <2>. QED BY <2>2, <2>3, <2>4, <2>6
<1>. QED BY <1>1, Inductive, PTL DEF Spec, NeverGoesBack

\* A key publishes once, however often its request is repeated, and never once
\* somebody called its execution abandoned and failed.
THEOREM OncePerKey == Spec => PublishesOnce
<1>1. ASSUME IInv, [Next]_vars
      PROVE  \A k \in Key : published'[k] > published[k] =>
                published[k] = 0 /\ record[k].status # "failed"
  <2>. SUFFICES ASSUME NEW k \in Key, published'[k] > published[k]
                PROVE  published[k] = 0 /\ record[k].status # "failed"
    OBVIOUS
  <2>0. published \in [Key -> Nat]
    BY <1>1 DEF IInv, Typed, TypeOK
  <2>1. ASSUME NEW c \in Call, Schedules(c) PROVE FALSE
    BY <2>0, <2>1 DEF Schedules
  <2>2. PICK c \in Call : Publish(c)
    <3>1. published' # published
      BY <2>0
    <3>. QED BY <1>1, <2>1, <3>1, Kinds DEF IInv, EditOnly, Advances, Commands, Repeats
  <2>. PICK l : l = call[c].key
    OBVIOUS
  <2>3. published' = [published EXCEPT ![l] = published[l] + 1]
    BY <2>2 DEF Publish
  <2>4. k = l
    BY <2>0, <2>3
  <2>5. record[k].status = "in-progress"
    BY <1>1, <2>2, <2>4, PublishedRow DEF IInv
  <2>. QED BY <1>1, <2>5 DEF IInv, Spent
<1>. QED BY <1>1, Inductive, PTL DEF Spec, PublishesOnce
=============================================================================
