------------------------------ MODULE PhoneProofs ------------------------------
(***************************************************************************)
(* Proofs about the phone of PhoneMemory: its session, the start it has    *)
(* asked for and the photo it is to post, for every number of requests on  *)
(* their way, flows, sessions, starts, upload keys and faults.             *)
(***************************************************************************)
EXTENDS PhoneMemory, TLAPS, SequenceTheorems, FiniteSetTheorems

-----------------------------------------------------------------------------
(* The session.                                                            *)
(*                                                                         *)
(* ServerTyped and DeviceTyped say what the two sides hold.  Confirmed: an *)
(* answer that confirms a revocation, and what the phone concludes from    *)
(* one, exist only when the session is revoked.  Fenced: while a sign-out  *)
(* waits for its answer, no other flow can still change the credential.    *)
(* Alone: once the clearing of the store is queued, no flow is left that   *)
(* could write after it.  Bare: a phone that shows itself signed out holds *)
(* no bearer, and nothing under way is about to write one.                 *)

Screens  == {"locked", "checking", "offline", "online", "blocked", "out"}
Stations == {"idle", "auth", "writing", "sent", "storing", "clearing"}
Bearings == Seq(0..MaxKeys)
Vaults   == [bearer : Bearings, key : 0..MaxKeys]
MaybeVault == Vaults \cup {None}
Flows    == {r \in [at : Stations, life : BOOLEAN, cred : BOOLEAN, vault : MaybeVault] :
                r.at = "writing" => r.vault \in Vaults}
Ops      == [kind : {"write", "clear"}, flow : Flow, vault : MaybeVault,
             begun : BOOLEAN, live : BOOLEAN]
Calls    == [kind : {"none", "refresh", "revoke", "read"}, bearer : Bearings,
             key : 0..MaxKeys,
             at : {"idle", "sent", "verified", "retired", "answered"},
             inTime : BOOLEAN, to : Flow \cup {None},
             answer : {"none", "rejected", "unavailable", "done", "session"},
             issued : Bearings]

ServerTyped ==
    /\ chain \in Bearings /\ recoverable \in BOOLEAN
    /\ revoked \in {None, "replay", "human"}
    /\ call \in [Call -> Calls]

DeviceTyped ==
    /\ phase \in Screens /\ mem \in MaybeVault /\ disk \in MaybeVault
    /\ flow \in [Flow -> Flows] /\ queue \in Seq(Ops)
    /\ before \in [phase : Screens, out : BOOLEAN]
    /\ revocation \in 0..MaxKeys /\ minted \in 0..MaxKeys
    /\ cleaned \in BOOLEAN
    /\ ended \in {"no", "signout", "rejected", "wasted", "missing"}

CallsConfirm ==
    /\ \A c \in Call : call[c].to = "signout" => call[c].kind = "revoke"
    /\ \A c \in Call : call[c].kind = "revoke" /\ call[c].answer = "done"
           => revoked # None

Concluded == cleaned \/ ended = "signout" => revoked # None

Confirmed == CallsConfirm /\ Concluded

\* Only the oldest operation may have begun, and only refreshes write.
InTurn ==
    /\ \A i \in DOMAIN queue : queue[i].begun => i = 1
    /\ \A i \in DOMAIN queue : queue[i].kind = "write" => queue[i].flow \in Refreshing
    /\ ~flow["read"].cred

Still(f) == ~flow[f].cred

Fenced ==
    flow["signout"].at = "sent" =>
        /\ phase = "locked" /\ flow["read"].at # "sent"
        /\ \A f \in Flow \ {"signout"} : Still(f)

Clearing == \E i \in DOMAIN queue : queue[i].kind = "clear" /\ queue[i].live

Alone ==
    Clearing => phase \in {"blocked", "out"} /\ mem = None /\ \A f \in Flow : Still(f)

Bare ==
    phase = "out" =>
        /\ disk = None /\ mem = None /\ \A f \in Flow : Still(f)
        /\ \A i \in DOMAIN queue : queue[i].begun => queue[i].kind = "clear"

DeviceInv  == DeviceTyped /\ InTurn /\ Fenced /\ Alone /\ Bare
SessionInv == ServerTyped /\ Confirmed /\ DeviceInv

-----------------------------------------------------------------------------
(* Lemmas about the helpers of the model. *)

\* The flows are told apart, and none of them is None.
LEMMA FlowsDiffer ==
    /\ "unlock" \in Refreshing /\ "unlock" \in Flow /\ "signout" \in Flow /\ "read" \in Flow
    /\ "signout" \notin Refreshing /\ "read" \notin Refreshing
    /\ Retrying \subseteq Refreshing /\ Refreshing \subseteq Flow
    /\ None \notin Flow
  BY DeviceAssumption DEF Refreshing, Flow

\* A flow that rests forgets everything; the others go on as they were.
LEMMA Rests ==
    ASSUME DeviceTyped, NEW f \in Flow, Rest(f)
    PROVE  /\ flow' \in [Flow -> Flows]
           /\ flow'[f].at = "idle" /\ ~flow'[f].cred /\ ~flow'[f].life
           /\ \A g \in Flow : g # f => flow'[g] = flow[g]
  BY DEF DeviceTyped, Rest, Resting, Flows, Stations, MaybeVault

\* Requests that are given up keep their kind and their answer, and change
\* only in that nobody listens to them any more.
LEMMA GivenUp ==
    ASSUME ServerTyped, NEW fs
    PROVE  /\ Abandoned(fs) \in [Call -> Calls]
           /\ \A c \in Call :
                /\ Abandoned(fs)[c].to \in {call[c].to, None}
                /\ \/ /\ Abandoned(fs)[c].kind = call[c].kind
                      /\ Abandoned(fs)[c].answer = call[c].answer
                   \/ Abandoned(fs)[c] = Idle
<1>1. Idle \in Calls  BY RotationAssumption DEF Idle, Calls, Bearings
<1>2. \A c \in Call : [call[c] EXCEPT !.to = None] \in Calls
  BY DEF ServerTyped, Calls
<1>3. \A c \in Call : /\ [call[c] EXCEPT !.to = None].to = None
                      /\ [call[c] EXCEPT !.to = None].kind = call[c].kind
                      /\ [call[c] EXCEPT !.to = None].answer = call[c].answer
  BY DEF ServerTyped, Calls
<1>4. Idle.to = None  BY DEF Idle
<1> HIDE DEF Idle
<1>5. \A c \in Call :
        Abandoned(fs)[c] \in {call[c], Idle, [call[c] EXCEPT !.to = None]}
  BY DEF Abandoned
<1>6. Abandoned(fs) \in [Call -> Calls]
  <2>1. \A c \in Call : Abandoned(fs)[c] \in Calls
    BY <1>1, <1>2, <1>5 DEF ServerTyped
  <2> QED  BY <2>1 DEF Abandoned
<1> QED  BY <1>3, <1>4, <1>5, <1>6

\* Outdated operations and flows are what they were, but for the flags.
LEMMA Outdating ==
    ASSUME DeviceTyped
    PROVE  /\ OutdatedQueue \in Seq(Ops) /\ Len(OutdatedQueue) = Len(queue)
           /\ \A i \in DOMAIN queue :
                 /\ ~OutdatedQueue[i].live
                 /\ OutdatedQueue[i].kind = queue[i].kind
                 /\ OutdatedQueue[i].flow = queue[i].flow
                 /\ OutdatedQueue[i].begun = queue[i].begun
           /\ Outdated \in [Flow -> Flows]
           /\ \A f \in Flow : ~Outdated[f].cred /\ ~Outdated[f].life
                              /\ Outdated[f].at = flow[f].at
           /\ NoRead \in Flows /\ NoRead.at # "sent"
           /\ ~flow["read"].cred => ~NoRead.cred
<1>1. \A i \in DOMAIN queue : queue[i] \in Ops  BY DEF DeviceTyped
<1>2. \A o \in Ops : /\ [o EXCEPT !.live = FALSE] \in Ops
                     /\ ~[o EXCEPT !.live = FALSE].live
                     /\ [o EXCEPT !.live = FALSE].kind = o.kind
                     /\ [o EXCEPT !.live = FALSE].flow = o.flow
                     /\ [o EXCEPT !.live = FALSE].begun = o.begun
  BY DEF Ops
<1>3. DOMAIN queue = 1..Len(queue) /\ Len(queue) \in Nat  BY DEF DeviceTyped
<1>4. OutdatedQueue \in Seq(Ops) /\ Len(OutdatedQueue) = Len(queue)
  BY <1>1, <1>2, <1>3 DEF OutdatedQueue
<1>5. \A i \in DOMAIN queue : OutdatedQueue[i] = [queue[i] EXCEPT !.live = FALSE]
  BY DEF OutdatedQueue
<1>6. \A f \in Flow : flow[f] \in Flows  BY DEF DeviceTyped
<1>7. \A r \in Flows : /\ [r EXCEPT !.life = FALSE, !.cred = FALSE] \in Flows
                       /\ ~[r EXCEPT !.life = FALSE, !.cred = FALSE].cred
                       /\ ~[r EXCEPT !.life = FALSE, !.cred = FALSE].life
                       /\ [r EXCEPT !.life = FALSE, !.cred = FALSE].at = r.at
  BY DEF Flows
<1>8. /\ Outdated \in [Flow -> Flows]
      /\ \A f \in Flow : Outdated[f] = [flow[f] EXCEPT !.life = FALSE, !.cred = FALSE]
  BY <1>6, <1>7 DEF Outdated
<1>9. NoRead \in Flows /\ NoRead.at # "sent" /\ (~flow["read"].cred => ~NoRead.cred)
  <2>1. Resting \in Flows /\ Resting.at # "sent" /\ ~Resting.cred
    BY DEF Resting, Flows, Stations, MaybeVault
  <2> QED  BY <1>6, <2>1, FlowsDiffer DEF NoRead
<1>10. \A i \in DOMAIN queue :
          /\ ~OutdatedQueue[i].live
          /\ OutdatedQueue[i].kind = queue[i].kind
          /\ OutdatedQueue[i].flow = queue[i].flow
          /\ OutdatedQueue[i].begun = queue[i].begun
  BY <1>1, <1>2, <1>5, Zenon
<1>11. \A f \in Flow : ~Outdated[f].cred /\ ~Outdated[f].life
                       /\ Outdated[f].at = flow[f].at
  BY <1>6, <1>7, <1>8, Zenon
<1> QED  BY <1>4, <1>8, <1>9, <1>10, <1>11

-----------------------------------------------------------------------------
(* The server's steps. *)

\* An answer is one of a call that had been asked for, and to whoever asked.
LEMMA Answered ==
    ASSUME ServerTyped, NEW c \in Call, NEW b \in Bearings,
           NEW a \in {"rejected", "unavailable", "done", "session"}, Reply(c, a, b)
    PROVE  /\ call' \in [Call -> Calls]
           /\ \A d \in Call : d # c => call'[d] = call[d]
           /\ call'[c].to \in {call[c].to, None}
           /\ \/ call'[c].kind = call[c].kind /\ call'[c].answer = a
              \/ call'[c] = Idle
<1>1. call[c] \in Calls  BY DEF ServerTyped
<1>2. Idle \in Calls /\ Idle.to = None
  BY RotationAssumption DEF Idle, Calls, Bearings
<1> DEFINE r == [call[c] EXCEPT !.at = "answered", !.answer = a, !.issued = b]
<1>3. r \in Calls /\ r.to = call[c].to /\ r.kind = call[c].kind /\ r.answer = a
  BY <1>1 DEF Calls
<1>4. call' = [call EXCEPT ![c] = IF call[c].to = None THEN Idle ELSE r]
  BY DEF Reply, ServerTyped
<1> HIDE DEF r, Idle
<1> QED  BY <1>2, <1>3, <1>4 DEF ServerTyped

\* An inspection leaves the call what it was.
LEMMA Advanced ==
    ASSUME ServerTyped, NEW c \in Call, NEW step \in {"verified", "retired"}, Advance(c, step)
    PROVE  /\ call' \in [Call -> Calls]
           /\ \A d \in Call : /\ call'[d].to = call[d].to /\ call'[d].kind = call[d].kind
                              /\ call'[d].answer = call[d].answer
  BY DEF ServerTyped, Advance, Calls

\* What the server does leaves its types, and revokes for good.
LEMMA ServerTypedKept ==
    ASSUME ServerTyped, ServerNext
    PROVE  ServerTyped' /\ (revoked # None => UNCHANGED <<chain, revoked>>)
<1> USE DEF server
<1>1. ASSUME NEW c \in Call, Serve(c)
      PROVE  /\ ServerTyped'
             /\ revoked # None => UNCHANGED <<chain, revoked>>
  <2>1. call[c] \in Calls /\ chain \in Bearings  BY DEF ServerTyped
  <2>2. call[c].bearer \in Bearings /\ call[c].key \in 0..MaxKeys /\ <<>> \in Bearings
    BY <2>1 DEF Calls, Bearings
  <2>3. /\ Append(call[c].bearer, call[c].key) \in Bearings
        /\ Append(chain, call[c].key) \in Bearings
    BY <2>1, <2>2 DEF Bearings
  <2>a. ASSUME NEW b \in Bearings, NEW a \in {"rejected", "unavailable", "done", "session"},
               Reply(c, a, b)
        PROVE  call' \in [Call -> Calls]
    BY <2>a, Answered
  <2>4. CASE InspectRefresh(c)
    <3>1. CASE Advance(c, "verified") \/ Answer(c, "rejected")
      <4>1. call' \in [Call -> Calls]
        BY <2>2, <2>a, <3>1, Advanced DEF Answer
      <4> QED  BY <2>4, <4>1 DEF InspectRefresh, ServerTyped
    <3>2. CASE call' = [call EXCEPT ![c].at = "retired", ![c].inTime = recoverable]
      <4> DEFINE r == [[call[c] EXCEPT !.at = "retired"] EXCEPT !.inTime = recoverable]
      <4>1. r \in Calls  BY <2>1 DEF ServerTyped, Calls
      <4>2. call' = [call EXCEPT ![c] = r]  BY <3>2 DEF ServerTyped
      <4> HIDE DEF r
      <4>3. call' \in [Call -> Calls]  BY <4>1, <4>2 DEF ServerTyped
      <4> QED  BY <2>4, <4>3 DEF InspectRefresh, ServerTyped
    <3> QED  BY <2>4, <3>1, <3>2, Zenon DEF InspectRefresh
  <2>5. CASE Rotate(c)
    <3>1. call' \in [Call -> Calls]
      BY <2>2, <2>3, <2>5, <2>a DEF Rotate, Answer, Issue
    <3>2. /\ chain' \in {chain, Append(chain, call[c].key)}
          /\ recoverable' \in BOOLEAN /\ revoked' \in {revoked, "replay"}
          /\ revoked # None => UNCHANGED <<chain, revoked>>
      BY <2>5 DEF Rotate, RevokedSince, ServerTyped
    <3> QED  BY <2>3, <3>1, <3>2 DEF ServerTyped
  <2>6. CASE Retry(c)
    <3>1. call' \in [Call -> Calls]
      BY <2>1, <2>2, <2>6, <2>a DEF Retry, Answer, Issue
    <3> QED  BY <2>6, <3>1 DEF Retry, ServerTyped
  <2>7. CASE InspectRead(c)
    <3>1. call' \in [Call -> Calls]  BY <2>2, <2>7, <2>a DEF InspectRead, Answer
    <3> QED  BY <2>7, <3>1 DEF InspectRead, ServerTyped
  <2>8. CASE InspectRevoke(c)
    <3>1. call' \in [Call -> Calls]
      BY <2>2, <2>8, <2>a, Advanced DEF InspectRevoke, Answer
    <3> QED  BY <2>8, <3>1 DEF InspectRevoke, ServerTyped
  <2>9. CASE Revoke(c)
    <3>1. call' \in [Call -> Calls]  BY <2>2, <2>9, <2>a DEF Revoke, Answer
    <3> QED  BY <2>9, <3>1 DEF Revoke, ServerTyped
  <2>10. CASE Unavailable(c)
    <3>1. call' \in [Call -> Calls]  BY <2>2, <2>10, <2>a DEF Unavailable, Answer
    <3> QED  BY <2>10, <3>1 DEF Unavailable, ServerTyped
  <2> QED  BY <1>1, <2>4, <2>5, <2>6, <2>7, <2>8, <2>9, <2>10 DEF Serve
<1>2. CASE RevokeElsewhere  BY <1>2 DEF RevokeElsewhere, ServerTyped
<1>3. CASE WindowCloses  BY <1>3 DEF WindowCloses, ServerTyped
<1> QED  BY <1>1, <1>2, <1>3 DEF ServerNext

\* A confirmation is given only of a session that is revoked.
LEMMA ServerConfirms ==
    ASSUME ServerTyped, Confirmed, ServerNext, UNCHANGED device
    PROVE  Confirmed'
<1> USE DEF server
<1>a. revoked # None => revoked' = revoked  BY ServerTypedKept
<1>b. UNCHANGED <<cleaned, ended>>  BY DEF device, memory
<1>c. ASSUME \A d \in Call :
               /\ call'[d].to \in {call[d].to, None}
               /\ \/ /\ call'[d].kind = call[d].kind
                     /\ \/ call'[d].answer = call[d].answer
                        \/ call'[d].answer # "done"
                        \/ call'[d].kind # "revoke"
                        \/ revoked' # None
                  \/ call'[d] = Idle
      PROVE  Confirmed'
  <2>1. None # "signout"  BY FlowsDiffer
  <2>2. Idle.to = None /\ Idle.kind # "revoke"  BY DEF Idle
  <2> QED  BY <1>a, <1>b, <1>c, <2>1, <2>2 DEF Confirmed, CallsConfirm, Concluded
<1>1. ASSUME NEW c \in Call, Serve(c)  PROVE Confirmed'
  <2>1. call[c].bearer \in Bearings /\ call[c].key \in 0..MaxKeys
        /\ chain \in Bearings /\ <<>> \in Bearings
    BY DEF ServerTyped, Calls, Bearings
  <2>2. /\ Append(call[c].bearer, call[c].key) \in Bearings
        /\ Append(chain, call[c].key) \in Bearings
    BY <2>1 DEF Bearings
  <2>a. ASSUME NEW b \in Bearings, NEW a \in {"rejected", "unavailable", "done", "session"},
               Reply(c, a, b),
               a # "done" \/ call[c].kind # "revoke" \/ revoked' # None
        PROVE  Confirmed'
    BY <2>a, <1>c, Answered
  <2>b. ASSUME NEW step \in {"verified", "retired"}, Advance(c, step)  PROVE Confirmed'
    BY <2>b, <1>c, Advanced
  <2>3. CASE InspectRefresh(c)
    <3>1. CASE call' = [call EXCEPT ![c].at = "retired", ![c].inTime = recoverable]
      <4>1. \A d \in Call : /\ call'[d].to = call[d].to /\ call'[d].kind = call[d].kind
                            /\ call'[d].answer = call[d].answer
        BY <3>1 DEF ServerTyped, Calls
      <4> QED  BY <4>1, <1>c
    <3> QED  BY <2>3, <2>1, <2>a, <2>b, <3>1 DEF InspectRefresh, Answer
  <2>4. CASE Rotate(c)
    BY <2>1, <2>2, <2>4, <2>a DEF Rotate, Answer, Issue
  <2>5. CASE Retry(c)
    BY <2>1, <2>5, <2>a DEF Retry, Answer, Issue
  <2>6. CASE InspectRead(c)
    BY <2>1, <2>6, <2>a DEF InspectRead, Answer
  <2>7. CASE InspectRevoke(c)
    BY <2>1, <2>7, <2>a, <2>b DEF InspectRevoke, Answer
  <2>8. CASE Revoke(c)
    BY <2>1, <2>8, <2>a, RotationAssumption DEF Revoke, Answer
  <2>9. CASE Unavailable(c)
    BY <2>1, <2>9, <2>a DEF Unavailable, Answer
  <2> QED  BY <1>1, <2>3, <2>4, <2>5, <2>6, <2>7, <2>8, <2>9 DEF Serve
<1>2. CASE RevokeElsewhere
  <2>1. UNCHANGED call /\ revoked' # None
    BY <1>2, RotationAssumption DEF RevokeElsewhere
  <2> QED  BY <2>1, <1>c
<1>3. CASE WindowCloses
  <2>1. UNCHANGED call  BY <1>3 DEF WindowCloses
  <2> QED  BY <2>1, <1>c
<1> QED  BY <1>1, <1>2, <1>3 DEF ServerNext

-----------------------------------------------------------------------------
(* The phone's requests. *)

\* Giving requests up confirms nothing.
LEMMA AbandonConfirms ==
    ASSUME ServerTyped, CallsConfirm, UNCHANGED server, NEW fs, call' = Abandoned(fs)
    PROVE  ServerTyped' /\ CallsConfirm'
<1>1. None # "signout"  BY FlowsDiffer
<1>2. Idle.to = None /\ Idle.kind # "revoke"  BY DEF Idle
<1>3. ServerTyped'  BY GivenUp DEF ServerTyped, server
<1> HIDE DEF Idle
<1>4. CallsConfirm'  BY <1>1, <1>2, GivenUp DEF CallsConfirm, server
<1> QED  BY <1>3, <1>4

\* Nor does sending one.
LEMMA SendConfirms ==
    ASSUME ServerTyped, CallsConfirm, UNCHANGED server,
           NEW f \in Flow, NEW kind \in {"refresh", "revoke", "read"},
           NEW v \in Vaults, NEW k \in 0..MaxKeys, NEW fs,
           f = "signout" => kind = "revoke",
           Send(f, kind, v, k, fs)
    PROVE  ServerTyped' /\ CallsConfirm'
<1> DEFINE new == [Idle EXCEPT !.kind = kind, !.to = f, !.bearer = v.bearer,
                               !.key = k, !.at = "sent"]
<1>1. PICK c \in Call : call' = [Abandoned(fs) EXCEPT ![c] = new]
  BY DEF Send, FreeCalls
<1>2. new \in Calls /\ new.to = f /\ new.kind = kind /\ new.answer = "none"
  <2>1. Idle \in Calls /\ Idle.answer = "none"
    BY RotationAssumption DEF Idle, Calls, Bearings
  <2>2. v.bearer \in Bearings  BY DEF Vaults
  <2> HIDE DEF Idle
  <2>3. \A r \in Calls :
          /\ [r EXCEPT !.kind = kind, !.to = f] \in Calls
          /\ [r EXCEPT !.kind = kind, !.to = f].kind = kind
          /\ [r EXCEPT !.kind = kind, !.to = f].to = f
          /\ [r EXCEPT !.kind = kind, !.to = f].answer = r.answer
    BY DEF Calls
  <2>4. \A r \in Calls :
          /\ [r EXCEPT !.bearer = v.bearer, !.key = k, !.at = "sent"] \in Calls
          /\ [r EXCEPT !.bearer = v.bearer, !.key = k, !.at = "sent"].kind = r.kind
          /\ [r EXCEPT !.bearer = v.bearer, !.key = k, !.at = "sent"].to = r.to
          /\ [r EXCEPT !.bearer = v.bearer, !.key = k, !.at = "sent"].answer = r.answer
    BY <2>2 DEF Calls
  <2> DEFINE half == [Idle EXCEPT !.kind = kind, !.to = f]
  <2>5. half \in Calls /\ half.kind = kind /\ half.to = f /\ half.answer = "none"
    BY <2>1, <2>3
  <2>6. new = [half EXCEPT !.bearer = v.bearer, !.key = k, !.at = "sent"]
    OBVIOUS
  <2> HIDE DEF new, half
  <2> QED  BY <2>4, <2>5, <2>6
<1>3. None # "signout"  BY FlowsDiffer
<1>4. Idle.to = None /\ Idle.kind # "revoke"  BY DEF Idle
<1> HIDE DEF new, Idle
<1>5. ServerTyped'  BY <1>1, <1>2, GivenUp DEF ServerTyped, server
<1>6. CallsConfirm'  BY <1>1, <1>2, <1>3, <1>4, GivenUp DEF CallsConfirm, server
<1> QED  BY <1>5, <1>6

-----------------------------------------------------------------------------
(* The phone's flows. *)

\* The clearing of the store outdates every flow and every other operation.
LEMMA ClearsAlone ==
    ASSUME DeviceTyped, InTurn, NEW own \in Flow, NEW confirmed \in BOOLEAN,
           NEW why \in {"signout", "rejected", "missing"},
           ClearAndSignOut(why, confirmed, own),
           own = "signout" \/ flow["signout"].at # "sent"
    PROVE  /\ DeviceInv' /\ cleaned' = confirmed
           /\ ended' = "signout" => why = "signout"
<1> DEFINE op == [kind |-> "clear", flow |-> own, vault |-> None,
                  begun |-> FALSE, live |-> TRUE]
<1>1. op \in Ops /\ op.kind = "clear" /\ ~op.begun  BY DEF Ops, MaybeVault
<1>2. queue' = Append(OutdatedQueue, op)  BY DEF ClearAndSignOut
<1> HIDE DEF op
<1>3. /\ queue' \in Seq(Ops) /\ Len(queue) \in Nat
      /\ DOMAIN queue = 1..Len(queue) /\ DOMAIN queue' = 1..(Len(queue) + 1)
      /\ queue'[Len(queue) + 1] = op
      /\ \A i \in DOMAIN queue : queue'[i] = OutdatedQueue[i]
  BY <1>1, <1>2, Outdating DEF DeviceTyped
<1>4. \A i \in DOMAIN queue' : i \in DOMAIN queue \/ i = Len(queue) + 1
  BY <1>3
<1>5. /\ flow' \in [Flow -> Flows]
      /\ \A f \in Flow : Still(f)'
      /\ flow'["signout"].at # "sent" /\ flow'["read"].at # "sent"
  <2> DEFINE read == [Outdated EXCEPT !["read"] = NoRead]
  <2>1. /\ read \in [Flow -> Flows] /\ \A f \in Flow : ~read[f].cred
        /\ read["signout"] = Outdated["signout"] /\ read["read"] = NoRead
    BY Outdating, FlowsDiffer DEF InTurn
  <2>2. flow' = [read EXCEPT ![own].at = "clearing"]
    BY DEF ClearAndSignOut
  <2>3. \A r \in Flows : /\ [r EXCEPT !.at = "clearing"] \in Flows
                         /\ [r EXCEPT !.at = "clearing"].cred = r.cred
                         /\ [r EXCEPT !.at = "clearing"].at = "clearing"
    BY DEF Flows, Stations
  <2> HIDE DEF read
  <2>4. flow'[own] = [read[own] EXCEPT !.at = "clearing"]
        /\ \A f \in Flow : f # own => flow'[f] = read[f]
    BY <2>1, <2>2
  <2>5. \A f \in Flow : flow'[f] \in Flows /\ ~flow'[f].cred
    <3>1. read[own] \in Flows  BY <2>1
    <3>2. flow'[own] \in Flows /\ flow'[own].cred = read[own].cred
      BY <2>3, <2>4, <3>1
    <3> QED  BY <2>1, <2>4, <3>2
  <2>6. flow' \in [Flow -> Flows]
    <3>1. \A r \in Flows : [read EXCEPT ![own] = r] \in [Flow -> Flows]
      BY <2>1
    <3>2. read[own] \in Flows  BY <2>1
    <3> QED  BY <2>2, <2>3, <3>1, <3>2
  <2>7. read["read"].at # "sent" /\ (own = "signout" \/ read["signout"].at # "sent")
    BY <2>1, Outdating, FlowsDiffer
  <2>8. \A f \in {"signout", "read"} : flow'[f].at # "sent"
    <3>1. flow'[own].at = "clearing"  BY <2>1, <2>3, <2>4
    <3> QED  BY <2>4, <2>7, <3>1, FlowsDiffer
  <2> QED  BY <2>5, <2>6, <2>8 DEF Still
<1>6. /\ mem' = None /\ phase' = "blocked" /\ revocation' = 0 /\ cleaned' = confirmed
      /\ before' = Before0 /\ UNCHANGED <<disk, minted>>
      /\ ended' \in {why, "wasted"}
  BY DEF ClearAndSignOut
<1>7. DeviceTyped'
  BY <1>3, <1>5, <1>6, RotationAssumption
     DEF DeviceTyped, Screens, MaybeVault, Before0
<1>8. InTurn'
  <2>1. \A i \in DOMAIN queue' : queue'[i].begun => i = 1
    BY <1>1, <1>3, <1>4, Outdating DEF InTurn
  <2>2. \A i \in DOMAIN queue' : queue'[i].kind = "write" => queue'[i].flow \in Refreshing
    BY <1>1, <1>3, <1>4, Outdating DEF InTurn
  <2> QED  BY <1>5, <2>1, <2>2, FlowsDiffer DEF InTurn, Still
<1>9. Fenced' /\ Alone' /\ Bare'
  BY <1>5, <1>6 DEF Fenced, Alone, Bare
<1> QED  BY <1>6, <1>7, <1>8, <1>9 DEF DeviceInv

\* A refresh begins only where its write may come next.
LEMMA BeginsToWrite ==
    ASSUME DeviceInv, NEW f \in Refreshing, NEW v \in Vaults, StartRefresh(f, v),
           ~Clearing, flow["signout"].at # "sent"
    PROVE  DeviceInv' /\ UNCHANGED <<cleaned, ended>>
<1> DEFINE k  == IF PendingKey(v) # 0 THEN PendingKey(v) ELSE minted + 1
           pending == Vault(v.bearer, k)
           op == [kind |-> "write", flow |-> f, vault |-> pending,
                  begun |-> FALSE, live |-> TRUE]
           new == [at |-> "writing", life |-> TRUE, cred |-> TRUE, vault |-> pending]
<1>0. DeviceTyped /\ f \in Flow /\ f # "signout" /\ f # "read"
  BY FlowsDiffer DEF DeviceInv
<1>1. k \in 0..MaxKeys
  BY <1>0, RotationAssumption
     DEF StartRefresh, PendingKey, CanMint, Vaults, DeviceTyped
<1>2. pending \in Vaults /\ pending \in MaybeVault  BY <1>1 DEF Vault, Vaults, MaybeVault
<1>3. op \in Ops /\ op.kind = "write" /\ ~op.begun /\ op.flow = f
  BY <1>0, <1>2 DEF Ops
<1>4. new \in Flows  BY <1>2 DEF Flows, Stations
<1>5. /\ queue' = Append(queue, op) /\ flow' = [flow EXCEPT ![f] = new]
      /\ mem' = v /\ phase' = "checking" /\ minted' = IF k > minted THEN k ELSE minted
      /\ UNCHANGED <<disk, before, revocation, cleaned, ended>>
  BY DEF StartRefresh
<1>6. v \in MaybeVault /\ minted' \in 0..MaxKeys
  BY <1>0, <1>1, <1>5 DEF MaybeVault, DeviceTyped
<1> HIDE DEF k, pending, op, new
<1>7. DeviceTyped'
  BY <1>0, <1>3, <1>4, <1>5, <1>6 DEF DeviceTyped, Screens
<1>8. /\ Len(queue) \in Nat
      /\ DOMAIN queue = 1..Len(queue) /\ DOMAIN queue' = 1..(Len(queue) + 1)
      /\ queue'[Len(queue) + 1] = op
      /\ \A i \in DOMAIN queue : queue'[i] = queue[i]
  BY <1>0, <1>3, <1>5 DEF DeviceTyped
<1>9. \A i \in DOMAIN queue' : i \in DOMAIN queue \/ i = Len(queue) + 1
  BY <1>8
<1>10. flow'["read"] = flow["read"] /\ flow'["signout"] = flow["signout"]
  BY <1>0, <1>5, FlowsDiffer DEF DeviceTyped
<1>11. InTurn'
  <2>1. \A i \in DOMAIN queue' : queue'[i].begun => i = 1
    BY <1>3, <1>8, <1>9 DEF InTurn, DeviceInv
  <2>2. \A i \in DOMAIN queue' : queue'[i].kind = "write" => queue'[i].flow \in Refreshing
    BY <1>3, <1>8, <1>9 DEF InTurn, DeviceInv
  <2> QED  BY <1>10, <2>1, <2>2 DEF InTurn, DeviceInv
<1>12. ~Clearing'  BY <1>3, <1>8, <1>9 DEF Clearing
<1>13. Fenced' /\ Alone' /\ Bare'
  BY <1>5, <1>10, <1>12 DEF Fenced, Alone, Bare
<1> QED  BY <1>5, <1>7, <1>11, <1>13 DEF DeviceInv

\* The oldest operation leaves the queue: those that follow have not begun.
LEMMA Popped ==
    ASSUME DeviceTyped, InTurn, queue # <<>>
    PROVE  /\ 1 \in DOMAIN queue /\ Head(queue) = queue[1] /\ Head(queue) \in Ops
           /\ Tail(queue) \in Seq(Ops)
           /\ \A i \in DOMAIN Tail(queue) :
                 /\ i + 1 \in DOMAIN queue /\ Tail(queue)[i] = queue[i + 1]
                 /\ ~Tail(queue)[i].begun
<1>1. queue \in Seq(Ops) /\ Len(queue) \in Nat /\ Len(queue) # 0
      /\ DOMAIN queue = 1..Len(queue)
  BY DEF DeviceTyped
<1>2. 1 \in DOMAIN queue /\ Head(queue) = queue[1] /\ queue[1] \in Ops  BY <1>1
<1>3. Tail(queue) \in Seq(Ops) /\ Len(Tail(queue)) = Len(queue) - 1
      /\ DOMAIN Tail(queue) = 1..(Len(queue) - 1)
  BY <1>1
<1>4. \A i \in 1..(Len(queue) - 1) : i + 1 \in 1..Len(queue) /\ i + 1 # 1
  BY <1>1
<1>5. \A i \in DOMAIN Tail(queue) : Tail(queue)[i] = queue[i + 1]
  BY <1>1, <1>3
<1> QED  BY <1>1, <1>2, <1>3, <1>4, <1>5 DEF InTurn

\* A step in which no flow wakes up and no operation is added keeps what it
\* does not touch.
LEMMA Calm ==
    ASSUME DeviceInv, DeviceTyped',
           \A g \in Flow : /\ flow'[g].cred => flow[g].cred
                           /\ flow'[g].at = "sent" => flow[g].at = "sent",
           queue' = queue \/ (queue # <<>> /\ queue' = Tail(queue))
    PROVE  /\ InTurn' /\ (Clearing' => Clearing)
           /\ \A g \in Flow : Still(g) => Still(g)'
           /\ \A i \in DOMAIN queue' : queue'[i].begun => queue' = queue
           /\ phase' = phase /\ mem' \in {mem, None} /\ disk' \in {disk, None} => DeviceInv'
<1>1. DeviceTyped /\ InTurn /\ Fenced /\ Alone /\ Bare  BY DEF DeviceInv
<1>2. \A i \in DOMAIN queue' :
         /\ \E j \in DOMAIN queue : queue'[i] = queue[j]
         /\ queue'[i].begun => queue' = queue
  BY <1>1, Popped
<1>3. \A g \in Flow : Still(g) => Still(g)'  BY DEF Still
<1>4. InTurn'
  <2>1. \A i \in DOMAIN queue' : queue'[i].begun => i = 1  BY <1>1, <1>2 DEF InTurn
  <2>2. \A i \in DOMAIN queue' : queue'[i].kind = "write" => queue'[i].flow \in Refreshing
    BY <1>1, <1>2 DEF InTurn
  <2> QED  BY <1>1, <2>1, <2>2, FlowsDiffer DEF InTurn
<1>5. Clearing' => Clearing  BY <1>2 DEF Clearing
<1>6. ASSUME phase' = phase, mem' \in {mem, None}, disk' \in {disk, None}
      PROVE  DeviceInv'
  <2>1. Fenced'  BY <1>1, <1>3, <1>6, FlowsDiffer DEF Fenced
  <2>2. Alone'  BY <1>1, <1>3, <1>5, <1>6 DEF Alone
  <2>3. Bare'  BY <1>1, <1>2, <1>3, <1>6 DEF Bare
  <2> QED  BY <1>4, <2>1, <2>2, <2>3 DEF DeviceInv
<1> QED  BY <1>2, <1>3, <1>4, <1>5, <1>6

\* The flow that rests is calm, and so are the others.
LEMMA RestsCalmly ==
    ASSUME DeviceTyped, NEW f \in Flow, Rest(f)
    PROVE  /\ flow' \in [Flow -> Flows]
           /\ \A g \in Flow : /\ flow'[g].cred => flow[g].cred
                              /\ flow'[g].at = "sent" => flow[g].at = "sent"
  BY Rests

\* A flow that may still change the credential is alone in it.
LEMMA CredentialsAreLive ==
    ASSUME DeviceInv, NEW f \in Flow, f # "signout", flow[f].cred
    PROVE  ~Clearing /\ flow["signout"].at # "sent" /\ phase # "out"
  BY FlowsDiffer DEF DeviceInv, Fenced, Alone, Bare, Still

\* A step of the phone alone leaves the server's side as it was.
LEMMA Unheard ==
    ASSUME ServerTyped, Confirmed, UNCHANGED <<server, call>>,
           cleaned' = cleaned \/ ~cleaned' \/ revoked # None,
           ended' = ended \/ ended' # "signout" \/ revoked # None
    PROVE  ServerTyped' /\ Confirmed'
  BY DEF ServerTyped, Confirmed, CallsConfirm, Concluded, server

-----------------------------------------------------------------------------
(* Each step of the phone keeps the invariant. *)

LEMMA ForegroundKeeps == ASSUME SessionInv, Foreground PROVE SessionInv'
<1> DEFINE new == [at |-> "auth", life |-> TRUE, cred |-> TRUE, vault |-> None]
<1>1. DeviceTyped /\ InTurn /\ Alone  BY DEF SessionInv, DeviceInv
<1>2. new \in Flows /\ new.at = "auth"  BY DEF Flows, Stations, MaybeVault
<1>3. /\ phase = "locked" /\ flow["signout"].at = "idle"
      /\ flow' = [flow EXCEPT !["unlock"] = new]
      /\ UNCHANGED <<server, call, store, memory, ended>>
  BY DEF Foreground
<1> HIDE DEF new
<1>4. /\ flow' \in [Flow -> Flows]
      /\ flow'["signout"] = flow["signout"] /\ flow'["read"] = flow["read"]
  BY <1>1, <1>2, <1>3, FlowsDiffer DEF DeviceTyped
<1>5. DeviceTyped'  BY <1>1, <1>3, <1>4 DEF DeviceTyped, store, memory
<1>6. InTurn'  BY <1>1, <1>3, <1>4 DEF InTurn, store
<1>7. ~Clearing  BY <1>1, <1>3 DEF Alone
<1>8. Fenced' /\ Alone' /\ Bare'
  BY <1>3, <1>4, <1>7 DEF Fenced, Alone, Bare, Clearing, store, memory
<1>9. ServerTyped' /\ Confirmed'
  BY <1>3, Unheard DEF SessionInv, memory
<1> QED  BY <1>5, <1>6, <1>8, <1>9 DEF SessionInv, DeviceInv

LEMMA UnlockKeeps == ASSUME SessionInv, Unlock PROVE SessionInv'
<1>1. DeviceInv /\ DeviceTyped /\ InTurn /\ UNCHANGED <<server, call>> /\ "unlock" \in Refreshing
      /\ "unlock" \in Flow
  BY FlowsDiffer DEF SessionInv, DeviceInv, Unlock
<1>2. CASE Rest("unlock") /\ UNCHANGED <<store, memory, ended>>
  <2>1. DeviceTyped'  BY <1>1, <1>2, RestsCalmly DEF DeviceTyped, store, memory
  <2>2. DeviceInv'
    <3>1. UNCHANGED <<queue, phase, mem, disk>>  BY <1>2 DEF store, memory
    <3> QED  BY <1>1, <1>2, <2>1, <3>1, RestsCalmly, Calm
  <2>3. ServerTyped' /\ Confirmed'  BY <1>1, <1>2, Unheard DEF SessionInv, memory
  <2> QED  BY <2>2, <2>3 DEF SessionInv
<1>3. CASE Live("unlock") /\ disk # None /\ StartRefresh("unlock", disk)
  <2>1. ~Clearing /\ flow["signout"].at # "sent"
    BY <1>1, <1>3, CredentialsAreLive DEF Live
  <2>2. disk \in Vaults  BY <1>1, <1>3 DEF DeviceTyped, MaybeVault
  <2>3. DeviceInv' /\ UNCHANGED <<cleaned, ended>>
    BY <1>1, <1>3, <2>1, <2>2, BeginsToWrite
  <2>4. ServerTyped' /\ Confirmed'  BY <1>1, <2>3, Unheard DEF SessionInv
  <2> QED  BY <2>3, <2>4 DEF SessionInv
<1>4. CASE Live("unlock") /\ ClearAndSignOut("missing", FALSE, "unlock")
  <2>1. flow["signout"].at # "sent"  BY <1>1, <1>4, CredentialsAreLive DEF Live
  <2>2. DeviceInv' /\ ~cleaned' /\ ended' # "signout"
    BY <1>1, <1>4, <2>1, ClearsAlone
  <2>3. ServerTyped' /\ Confirmed'  BY <1>1, <2>2, Unheard DEF SessionInv
  <2> QED  BY <2>2, <2>3 DEF SessionInv
<1> QED  BY <1>2, <1>3, <1>4 DEF Unlock

LEMMA RetryKeeps ==
    ASSUME SessionInv, NEW f \in Retrying, RetryConnection(f) PROVE SessionInv'
<1>1. DeviceInv /\ DeviceTyped /\ f \in Refreshing  BY FlowsDiffer DEF SessionInv, DeviceInv
<1>2. /\ mem # None /\ flow["signout"].at # "sent" /\ StartRefresh(f, mem)
      /\ UNCHANGED <<server, call>>
  BY DEF RetryConnection
<1>3. ~Clearing  BY <1>1, <1>2 DEF DeviceInv, Alone
<1>4. mem \in Vaults  BY <1>1, <1>2 DEF DeviceTyped, MaybeVault
<1>5. DeviceInv' /\ UNCHANGED <<cleaned, ended>>
  BY <1>1, <1>2, <1>3, <1>4, BeginsToWrite
<1>6. ServerTyped' /\ Confirmed'  BY <1>2, <1>5, Unheard DEF SessionInv
<1> QED  BY <1>5, <1>6 DEF SessionInv

\* The successor is queued to be stored: only its flow may write it.
LEMMA SuccessorQueued ==
    ASSUME DeviceInv, NEW f \in Refreshing, flow[f].cred, NEW b \in Bearings,
           flow' = [flow EXCEPT ![f].at = "storing", !["read"] = NoRead],
           queue' = Append(queue, [kind |-> "write", flow |-> f, vault |-> Vault(b, 0),
                                   begun |-> FALSE, live |-> TRUE]),
           UNCHANGED <<disk, memory, ended>>
    PROVE  DeviceInv'
<1> DEFINE op == [kind |-> "write", flow |-> f, vault |-> Vault(b, 0),
                  begun |-> FALSE, live |-> TRUE]
           new == [flow[f] EXCEPT !.at = "storing"]
<1>1. DeviceTyped /\ InTurn /\ f \in Flow /\ f # "signout" /\ f # "read" /\ "read" \in Flow
      /\ "signout" \in Flow
  BY FlowsDiffer DEF DeviceInv
<1>2. Vault(b, 0) \in MaybeVault  BY RotationAssumption DEF Vault, Vaults, MaybeVault
<1>3. op \in Ops /\ op.kind = "write" /\ ~op.begun /\ op.flow = f
  BY <1>1, <1>2 DEF Ops
<1>4. new \in Flows  BY <1>1 DEF DeviceTyped, Flows, Stations
<1>5. flow' = [[flow EXCEPT ![f] = new] EXCEPT !["read"] = NoRead]
  BY <1>1 DEF DeviceTyped
<1>6. queue' = Append(queue, op)  OBVIOUS
<1> HIDE DEF op, new
<1>7. /\ flow' \in [Flow -> Flows]
      /\ flow'["signout"] = flow["signout"] /\ flow'["read"] = NoRead
  BY <1>1, <1>4, <1>5, Outdating DEF DeviceTyped
<1>8. /\ queue' \in Seq(Ops) /\ Len(queue) \in Nat
      /\ DOMAIN queue = 1..Len(queue) /\ DOMAIN queue' = 1..(Len(queue) + 1)
      /\ queue'[Len(queue) + 1] = op
      /\ \A i \in DOMAIN queue : queue'[i] = queue[i]
  BY <1>1, <1>3, <1>6 DEF DeviceTyped
<1>9. \A i \in DOMAIN queue' : i \in DOMAIN queue \/ i = Len(queue) + 1
  BY <1>8
<1>10. DeviceTyped'  BY <1>1, <1>7, <1>8 DEF DeviceTyped, memory
<1>11. ~Clearing /\ flow["signout"].at # "sent" /\ phase # "out"
  BY <1>1, CredentialsAreLive
<1>12. ~Clearing'  BY <1>3, <1>8, <1>9, <1>11 DEF Clearing
<1>13. InTurn'
  <2>1. \A i \in DOMAIN queue' : queue'[i].begun => i = 1
    BY <1>1, <1>3, <1>8, <1>9 DEF InTurn
  <2>2. \A i \in DOMAIN queue' : queue'[i].kind = "write" => queue'[i].flow \in Refreshing
    BY <1>1, <1>3, <1>8, <1>9 DEF InTurn
  <2> QED  BY <1>1, <1>7, <2>1, <2>2, Outdating DEF InTurn
<1>14. Fenced' /\ Alone' /\ Bare'
  BY <1>7, <1>11, <1>12 DEF Fenced, Alone, Bare, memory
<1> QED  BY <1>10, <1>13, <1>14 DEF DeviceInv

LEMMA RefreshedKeeps ==
    ASSUME SessionInv, NEW f \in Refreshing, Refreshed(f) PROVE SessionInv'
<1>1. DeviceInv /\ DeviceTyped /\ InTurn /\ ServerTyped /\ CallsConfirm /\ Confirmed
      /\ f \in Flow /\ f # "signout" /\ UNCHANGED server
  BY FlowsDiffer DEF SessionInv, DeviceInv, Confirmed, Refreshed
<1>2. PICK c \in CallOf(f) :
        LET b == call[c].issued IN
        \/ /\ flow[f].cred
           /\ flow' = [flow EXCEPT ![f].at = "storing", !["read"] = NoRead]
           /\ queue' = Append(queue,
                  [kind |-> "write", flow |-> f, vault |-> Vault(b, 0),
                   begun |-> FALSE, live |-> TRUE])
           /\ call' = Abandoned({f, "read"})
           /\ UNCHANGED <<disk, memory, ended>>
        \/ /\ Rest(f) /\ call' = Abandoned({f})
           /\ UNCHANGED <<store, memory, ended>>
        \/ /\ Live(f)
           /\ ClearAndSignOut("rejected", FALSE, f)
           /\ call' = Abandoned({f, "read"})
  BY Zenon DEF Refreshed
<1>3. call[c].issued \in Bearings  BY <1>1 DEF CallOf, ServerTyped, Calls
<1>4. \E fs : call' = Abandoned(fs)  BY <1>2
<1>5. ServerTyped' /\ CallsConfirm'  BY <1>1, <1>4, AbandonConfirms
<1>6. CASE /\ flow[f].cred
           /\ flow' = [flow EXCEPT ![f].at = "storing", !["read"] = NoRead]
           /\ queue' = Append(queue,
                  [kind |-> "write", flow |-> f, vault |-> Vault(call[c].issued, 0),
                   begun |-> FALSE, live |-> TRUE])
           /\ UNCHANGED <<disk, memory, ended>>
  <2>1. DeviceInv'  BY <1>1, <1>3, <1>6, SuccessorQueued
  <2>2. Concluded'  BY <1>1, <1>6 DEF Confirmed, Concluded, memory, server
  <2> QED  BY <1>5, <2>1, <2>2 DEF SessionInv, Confirmed
<1>7. CASE Rest(f) /\ UNCHANGED <<store, memory, ended>>
  <2>1. UNCHANGED <<queue, phase, mem, disk>>  BY <1>7 DEF store, memory
  <2>2. DeviceTyped'  BY <1>1, <1>7, RestsCalmly DEF DeviceTyped, store, memory
  <2>3. DeviceInv'  BY <1>1, <1>7, <2>1, <2>2, RestsCalmly, Calm
  <2>4. Concluded'  BY <1>1, <1>7 DEF Confirmed, Concluded, memory, server
  <2> QED  BY <1>5, <2>3, <2>4 DEF SessionInv, Confirmed
<1>8. CASE Live(f) /\ ClearAndSignOut("rejected", FALSE, f)
  <2>1. flow["signout"].at # "sent"  BY <1>1, <1>8, CredentialsAreLive DEF Live
  <2>2. DeviceInv' /\ ~cleaned' /\ ended' # "signout"
    BY <1>1, <1>8, <2>1, ClearsAlone
  <2>3. Concluded'  BY <2>2 DEF Concluded
  <2> QED  BY <1>5, <2>2, <2>3 DEF SessionInv, Confirmed
<1> QED  BY <1>2, <1>6, <1>7, <1>8

LEMMA GiveUpKeeps ==
    ASSUME SessionInv, NEW f \in Refreshing, GiveUp(f) PROVE SessionInv'
<1>1. DeviceInv /\ DeviceTyped /\ ServerTyped /\ CallsConfirm /\ Confirmed
      /\ f \in Flow /\ f # "signout"
  BY FlowsDiffer DEF SessionInv, DeviceInv, Confirmed
<1>2. /\ Rest(f) /\ call' = Abandoned({f}) /\ phase' = AfterGivingUp(f)
      /\ UNCHANGED <<server, store, mem, before, revocation, cleaned, minted, ended>>
  BY DEF GiveUp
<1>3. phase' = phase \/ (Live(f) /\ phase' = "offline")  BY <1>2 DEF AfterGivingUp
<1>4. ServerTyped' /\ CallsConfirm'  BY <1>1, <1>2, AbandonConfirms
<1>5. Concluded'  BY <1>1, <1>2 DEF Confirmed, Concluded, server
<1>6. DeviceTyped'
  BY <1>1, <1>2, <1>3, RestsCalmly DEF DeviceTyped, store, Screens
<1>7. UNCHANGED <<queue, mem, disk>>  BY <1>2 DEF store
<1>8. DeviceInv'
  <2>1. CASE phase' = phase  BY <1>1, <1>2, <1>6, <1>7, <2>1, RestsCalmly, Calm
  <2>2. CASE Live(f) /\ phase' = "offline"
    <3>1. ~Clearing /\ flow["signout"].at # "sent"
      BY <1>1, <2>2, CredentialsAreLive DEF Live
    <3>2. /\ InTurn' /\ ~Clearing' /\ flow'["signout"].at # "sent"
      BY <1>1, <1>2, <1>6, <1>7, <3>1, RestsCalmly, Calm, FlowsDiffer
    <3> QED  BY <1>6, <2>2, <3>2 DEF DeviceInv, Fenced, Alone, Bare
  <2> QED  BY <1>3, <2>1, <2>2
<1> QED  BY <1>4, <1>5, <1>8 DEF SessionInv, Confirmed

LEMMA BeginKeeps == ASSUME SessionInv, BeginStore PROVE SessionInv'
<1>1. DeviceInv /\ DeviceTyped /\ InTurn  BY DEF SessionInv, DeviceInv
<1>2. /\ queue # <<>>
      /\ UNCHANGED <<server, call, disk, memory, ended>>
      /\ \/ WriteCurrent(Head(queue)) /\ queue' = [queue EXCEPT ![1].begun = TRUE]
            /\ UNCHANGED flow
         \/ queue' = Tail(queue) /\ Rest(Head(queue).flow)
  BY DEF BeginStore
<1>3. UNCHANGED <<phase, mem, disk>>  BY <1>2 DEF memory
<1>4. ServerTyped' /\ Confirmed'  BY <1>2, Unheard DEF SessionInv, memory
<1>5. 1 \in DOMAIN queue /\ Head(queue) = queue[1] /\ Head(queue).flow \in Flow
      /\ Head(queue) \in Ops /\ Tail(queue) \in Seq(Ops)
  BY <1>1, <1>2, Popped DEF Ops
<1>6. CASE queue' = Tail(queue) /\ Rest(Head(queue).flow)
  <2>1. DeviceTyped'
    BY <1>1, <1>2, <1>5, <1>6, RestsCalmly DEF DeviceTyped, memory
  <2>2. \A g \in Flow : /\ flow'[g].cred => flow[g].cred
                        /\ flow'[g].at = "sent" => flow[g].at = "sent"
    BY <1>1, <1>5, <1>6, RestsCalmly
  <2>3. DeviceInv'  BY <1>1, <1>2, <1>3, <1>6, <2>1, <2>2, Calm
  <2> QED  BY <1>4, <2>3 DEF SessionInv
<1>7. CASE /\ WriteCurrent(Head(queue)) /\ queue' = [queue EXCEPT ![1].begun = TRUE]
           /\ UNCHANGED flow
  <2> DEFINE op == [queue[1] EXCEPT !.begun = TRUE]
  <2>1. /\ op \in Ops /\ op.kind = queue[1].kind /\ op.flow = queue[1].flow
        /\ op.live = queue[1].live
    BY <1>5 DEF Ops
  <2>2. queue' = [queue EXCEPT ![1] = op]  BY <1>5, <1>7
  <2> HIDE DEF op
  <2>3. /\ queue' \in Seq(Ops) /\ DOMAIN queue' = DOMAIN queue /\ queue'[1] = op
        /\ \A i \in DOMAIN queue : i # 1 => queue'[i] = queue[i]
    BY <1>1, <1>5, <2>1, <2>2 DEF DeviceTyped
  <2>4. DeviceTyped'  BY <1>1, <1>2, <1>7, <2>3 DEF DeviceTyped, memory
  <2>5. InTurn'
    <3>1. \A i \in DOMAIN queue' : queue'[i].begun => i = 1
      BY <1>1, <2>3 DEF InTurn
    <3>2. \A i \in DOMAIN queue' : queue'[i].kind = "write" => queue'[i].flow \in Refreshing
      BY <1>1, <2>1, <2>3 DEF InTurn
    <3> QED  BY <1>1, <1>7, <3>1, <3>2 DEF InTurn
  <2>6. Clearing' => Clearing
    <3>1. ASSUME NEW i \in DOMAIN queue', queue'[i].kind = "clear", queue'[i].live
          PROVE  queue[i].kind = "clear" /\ queue[i].live
      BY <2>1, <2>3, <3>1
    <3> QED  BY <2>3, <3>1 DEF Clearing
  <2>7. Fenced' /\ Alone'  BY <1>1, <1>3, <1>7, <2>6 DEF DeviceInv, Fenced, Alone, Still
  <2>8. Bare'
    <3>1. ASSUME phase = "out"  PROVE queue[1].kind = "clear"
      <4>1. \A f \in Flow : ~flow[f].cred  BY <1>1, <3>1 DEF DeviceInv, Bare, Still
      <4>2. queue[1].kind # "write"  BY <1>5, <1>7, <4>1 DEF WriteCurrent
      <4> QED  BY <1>5, <4>2 DEF Ops
    <3>2. \A i \in DOMAIN queue' : queue'[i].begun => i = 1  BY <2>5 DEF InTurn
    <3> QED  BY <1>1, <1>3, <1>7, <2>1, <2>3, <3>1, <3>2 DEF DeviceInv, Bare, Still
  <2> QED  BY <1>4, <2>4, <2>5, <2>7, <2>8 DEF SessionInv, DeviceInv
<1> QED  BY <1>2, <1>6, <1>7

\* A write that was begun belongs to a phone that is not signed out.
LEMMA WritesKeep == ASSUME SessionInv, StoreWrites PROVE SessionInv'
<1> DEFINE f == Head(queue).flow
<1>1. DeviceInv /\ DeviceTyped /\ InTurn /\ ServerTyped /\ CallsConfirm /\ Confirmed
  BY DEF SessionInv, DeviceInv, Confirmed
<1>2. /\ queue # <<>> /\ Head(queue).begun /\ Head(queue).kind = "write"
      /\ disk' = Head(queue).vault /\ Written(f) /\ queue' = Tail(queue)
      /\ UNCHANGED <<server, before, revocation, cleaned, minted, ended>>
  BY DEF StoreWrites
<1>3. /\ 1 \in DOMAIN queue /\ Head(queue) = queue[1] /\ Head(queue) \in Ops
      /\ Tail(queue) \in Seq(Ops)
  BY <1>1, <1>2, Popped
<1>4. f \in Refreshing /\ f \in Flow /\ f # "signout"
  BY <1>1, <1>2, <1>3, FlowsDiffer DEF InTurn
<1>5. Head(queue).vault \in MaybeVault  BY <1>3 DEF Ops
<1>6. phase # "out"  BY <1>1, <1>2, <1>3 DEF DeviceInv, Bare
<1>7. \A i \in DOMAIN queue' : ~queue'[i].begun  BY <1>1, <1>2, Popped
<1> HIDE DEF f
<1>8. flow[f] \in Flows  BY <1>1, <1>4 DEF DeviceTyped
<1>9. Concluded'  BY <1>1, <1>2 DEF Confirmed, Concluded, server
<1>10. CASE /\ Live(f) /\ flow[f].at = "writing"
            /\ Send(f, "refresh", flow[f].vault, flow[f].vault.key, {})
            /\ mem' = flow[f].vault /\ flow' = [flow EXCEPT ![f].at = "sent"]
            /\ UNCHANGED phase
  <2>1. flow[f].vault \in Vaults  BY <1>8, <1>10 DEF Flows
  <2>2. flow[f].vault.key \in 0..MaxKeys  BY <2>1 DEF Vaults
  <2>3. UNCHANGED server  BY <1>2
  <2>4. ServerTyped' /\ CallsConfirm'
    BY <1>1, <1>4, <1>10, <2>1, <2>2, <2>3, SendConfirms
  <2> DEFINE new == [flow[f] EXCEPT !.at = "sent"]
  <2>5. new \in Flows /\ new.cred = flow[f].cred  BY <1>8 DEF Flows, Stations
  <2>6. flow' = [flow EXCEPT ![f] = new]  BY <1>10
  <2> HIDE DEF new
  <2>7. flow' \in [Flow -> Flows] /\ flow'[f] = new
        /\ \A g \in Flow : g # f => flow'[g] = flow[g]
    BY <1>1, <1>4, <2>5, <2>6 DEF DeviceTyped
  <2>8. DeviceTyped'
    BY <1>1, <1>2, <1>3, <1>5, <1>10, <2>1, <2>7 DEF DeviceTyped, MaybeVault
  <2>9. ~Clearing /\ flow["signout"].at # "sent"
    BY <1>1, <1>4, <1>10, CredentialsAreLive DEF Live
  <2>10. InTurn'
    <3>1. \A i \in DOMAIN queue' : queue'[i].kind = "write" => queue'[i].flow \in Refreshing
      BY <1>1, <1>2, Popped DEF InTurn
    <3>2. ~flow'["read"].cred  BY <1>1, <1>4, <2>7, FlowsDiffer DEF InTurn
    <3> QED  BY <1>7, <3>1, <3>2 DEF InTurn
  <2>11. ~Clearing'  BY <1>1, <1>2, <2>9, Popped DEF Clearing
  <2>12. flow'["signout"].at # "sent"  BY <1>4, <2>7, <2>9, FlowsDiffer
  <2>13. Fenced' /\ Alone' /\ Bare'
    BY <1>6, <1>10, <2>11, <2>12 DEF Fenced, Alone, Bare
  <2> QED  BY <1>9, <2>4, <2>8, <2>10, <2>13 DEF SessionInv, DeviceInv, Confirmed
<1>11. CASE /\ Live(f) /\ mem' = Head(queue).vault /\ phase' = "online"
            /\ Rest(f) /\ UNCHANGED call
  <2>1. ServerTyped' /\ Confirmed'  BY <1>1, <1>2, <1>11, Unheard
  <2>2. DeviceTyped'
    BY <1>1, <1>2, <1>3, <1>4, <1>5, <1>11, RestsCalmly DEF DeviceTyped, Screens
  <2>3. ~Clearing /\ flow["signout"].at # "sent"
    BY <1>1, <1>4, <1>11, CredentialsAreLive DEF Live
  <2>4. \A g \in Flow : /\ flow'[g].cred => flow[g].cred
                        /\ flow'[g].at = "sent" => flow[g].at = "sent"
    BY <1>1, <1>4, <1>11, RestsCalmly
  <2>5. InTurn' /\ ~Clearing' /\ flow'["signout"].at # "sent"
    BY <1>1, <1>2, <2>2, <2>3, <2>4, Calm, FlowsDiffer
  <2> QED  BY <1>11, <2>1, <2>2, <2>5 DEF SessionInv, DeviceInv, Fenced, Alone, Bare
<1>12. CASE /\ ~Live(f) /\ Rest(f) /\ UNCHANGED <<phase, mem, call>>
  <2>1. ServerTyped' /\ Confirmed'  BY <1>1, <1>2, <1>12, Unheard
  <2>2. DeviceTyped'
    BY <1>1, <1>2, <1>3, <1>4, <1>5, <1>12, RestsCalmly DEF DeviceTyped
  <2>4. \A g \in Flow : /\ flow'[g].cred => flow[g].cred
                        /\ flow'[g].at = "sent" => flow[g].at = "sent"
    BY <1>1, <1>4, <1>12, RestsCalmly
  <2>5. /\ InTurn' /\ (Clearing' => Clearing)
        /\ \A g \in Flow : Still(g) => Still(g)'
    BY <1>1, <1>2, <2>2, <2>4, Calm
  <2>6. Fenced' /\ Alone'
    BY <1>1, <1>12, <2>4, <2>5, FlowsDiffer DEF DeviceInv, Fenced, Alone
  <2>7. Bare'  BY <1>6, <1>12 DEF Bare
  <2> QED  BY <2>1, <2>2, <2>5, <2>6, <2>7 DEF SessionInv, DeviceInv
<1> QED  BY <1>2, <1>10, <1>11, <1>12 DEF Written

LEMMA FailsKeep == ASSUME SessionInv, StoreFails PROVE SessionInv'
<1> DEFINE f == Head(queue).flow
<1>1. DeviceInv /\ DeviceTyped /\ InTurn  BY DEF SessionInv, DeviceInv
<1>2. /\ queue # <<>> /\ queue' = Tail(queue) /\ Rest(f)
      /\ UNCHANGED <<server, call, disk, before, revocation, cleaned, minted, ended>>
      /\ \/ Head(queue).kind = "write" /\ Live(f) /\ mem' = None /\ phase' = "blocked"
         \/ UNCHANGED <<mem, phase>>
  BY DEF StoreFails
<1>3. Head(queue) = queue[1] /\ 1 \in DOMAIN queue /\ f \in Flow /\ Tail(queue) \in Seq(Ops)
  BY <1>1, <1>2, Popped DEF Ops
<1>4. Head(queue).kind = "write" => f # "signout"
  BY <1>1, <1>3, FlowsDiffer DEF InTurn
<1> HIDE DEF f
<1>5. ServerTyped' /\ Confirmed'  BY <1>2, Unheard DEF SessionInv
<1>6. DeviceTyped'
  BY <1>1, <1>2, <1>3, RestsCalmly DEF DeviceTyped, Screens, MaybeVault
<1>7. \A g \in Flow : /\ flow'[g].cred => flow[g].cred
                      /\ flow'[g].at = "sent" => flow[g].at = "sent"
  BY <1>1, <1>2, <1>3, RestsCalmly
<1>8. CASE UNCHANGED <<mem, phase>>
  <2>1. DeviceInv'  BY <1>1, <1>2, <1>6, <1>7, <1>8, Calm
  <2> QED  BY <1>5, <2>1 DEF SessionInv
<1>9. CASE Head(queue).kind = "write" /\ Live(f) /\ mem' = None /\ phase' = "blocked"
  <2>1. ~Clearing /\ flow["signout"].at # "sent"
    BY <1>1, <1>3, <1>4, <1>9, CredentialsAreLive DEF Live
  <2>2. InTurn' /\ ~Clearing' /\ flow'["signout"].at # "sent"
    BY <1>1, <1>2, <1>6, <1>7, <2>1, Calm, FlowsDiffer
  <2> QED  BY <1>5, <1>6, <1>9, <2>2 DEF SessionInv, DeviceInv, Fenced, Alone, Bare
<1> QED  BY <1>2, <1>8, <1>9

LEMMA ClearsKeep == ASSUME SessionInv, StoreClears PROVE SessionInv'
<1> DEFINE f == Head(queue).flow
<1>1. DeviceInv /\ DeviceTyped /\ InTurn  BY DEF SessionInv, DeviceInv
<1>2. /\ queue # <<>> /\ queue' = Tail(queue) /\ Rest(f) /\ disk' = None
      /\ Head(queue).kind = "clear"
      /\ UNCHANGED <<server, call, mem, before, revocation, minted, ended>>
      /\ \/ Head(queue).live /\ phase' = "out" /\ cleaned' = FALSE
         \/ UNCHANGED <<phase, cleaned>>
  BY DEF StoreClears
<1>3. Head(queue) = queue[1] /\ 1 \in DOMAIN queue /\ f \in Flow /\ Tail(queue) \in Seq(Ops)
  BY <1>1, <1>2, Popped DEF Ops
<1> HIDE DEF f
<1>4. ServerTyped' /\ Confirmed'  BY <1>2, Unheard DEF SessionInv
<1>5. DeviceTyped'
  BY <1>1, <1>2, <1>3, RestsCalmly DEF DeviceTyped, Screens, MaybeVault
<1>6. \A g \in Flow : /\ flow'[g].cred => flow[g].cred
                      /\ flow'[g].at = "sent" => flow[g].at = "sent"
  BY <1>1, <1>2, <1>3, RestsCalmly
<1>7. CASE UNCHANGED <<phase, cleaned>>
  <2>1. DeviceInv'  BY <1>1, <1>2, <1>5, <1>6, <1>7, Calm
  <2> QED  BY <1>4, <2>1 DEF SessionInv
<1>8. CASE Head(queue).live /\ phase' = "out" /\ cleaned' = FALSE
  <2>1. Clearing  BY <1>2, <1>3, <1>8 DEF Clearing
  <2>2. phase # "locked" /\ mem = None /\ \A g \in Flow : Still(g)
    BY <1>1, <2>1 DEF DeviceInv, Alone
  <2>3. flow["signout"].at # "sent"  BY <1>1, <2>2 DEF DeviceInv, Fenced
  <2>4. /\ InTurn' /\ flow'["signout"].at # "sent" /\ \A g \in Flow : Still(g)'
        /\ mem' = None
    BY <1>1, <1>2, <1>5, <1>6, <2>2, <2>3, Calm, FlowsDiffer
  <2>5. \A i \in DOMAIN queue' : ~queue'[i].begun  BY <1>1, <1>2, Popped
  <2>6. Fenced' /\ Alone' /\ Bare'  BY <1>2, <1>8, <2>4, <2>5 DEF Fenced, Alone, Bare
  <2> QED  BY <1>4, <1>5, <2>4, <2>6 DEF SessionInv, DeviceInv
<1> QED  BY <1>2, <1>7, <1>8

\* The fence of a sign-out outdates every other flow and operation before its
\* request leaves.
LEMMA FenceKeeps ==
    ASSUME SessionInv, NEW v \in Vaults, Fence(v), UNCHANGED server
    PROVE  SessionInv'
<1> DEFINE k == IF revocation # 0 THEN revocation ELSE minted + 1
           new == [at |-> "sent", life |-> TRUE, cred |-> TRUE, vault |-> v]
<1>1. DeviceInv /\ DeviceTyped /\ InTurn /\ ServerTyped /\ CallsConfirm /\ Confirmed
      /\ "signout" \in Flow /\ "read" \in Flow
  BY FlowsDiffer DEF SessionInv, DeviceInv, Confirmed
<1>2. /\ revocation = 0 => minted < MaxKeys
      /\ revocation' = k /\ minted' = IF k > minted THEN k ELSE minted
      /\ before' = [phase |-> phase,
                    out |-> \E f \in Refreshing : flow[f].at = "sent" /\ flow[f].life]
      /\ phase' = "locked" /\ cleaned' = FALSE
      /\ flow' = [Outdated EXCEPT !["read"] = NoRead, !["signout"] = new]
      /\ Send("signout", "revoke", v, k, {"read"})
      /\ queue' = OutdatedQueue
      /\ UNCHANGED <<disk, mem, ended>>
  BY DEF Fence
<1>3. k \in 0..MaxKeys /\ minted' \in 0..MaxKeys
  BY <1>1, <1>2, RotationAssumption DEF DeviceTyped
<1>4. new \in Flows  BY DEF Flows, Stations, MaybeVault
<1> HIDE DEF k, new
<1>5. ServerTyped' /\ CallsConfirm'  BY <1>1, <1>2, <1>3, SendConfirms
<1>6. Concluded'  BY <1>1, <1>2 DEF Confirmed, Concluded, server
<1>7. /\ flow' \in [Flow -> Flows]
      /\ flow'["read"] = NoRead
      /\ \A f \in Flow \ {"signout"} : Still(f)'
  <2>1. flow' = [[Outdated EXCEPT !["read"] = NoRead] EXCEPT !["signout"] = new]
    BY <1>2
  <2>2. /\ flow' \in [Flow -> Flows] /\ flow'["read"] = NoRead
        /\ \A f \in Flow \ {"signout"} : flow'[f] \in {Outdated[f], NoRead}
    BY <1>1, <1>4, <2>1, Outdating
  <2>3. \A f \in Flow \ {"signout"} : ~flow'[f].cred
    <3>1. ~NoRead.cred  BY <1>1, Outdating DEF InTurn
    <3>2. \A f \in Flow : ~Outdated[f].cred  BY <1>1, Outdating
    <3> QED  BY <2>2, <3>1, <3>2
  <2> QED  BY <2>2, <2>3 DEF Still
<1>8. before' \in [phase : Screens, out : BOOLEAN]  BY <1>1, <1>2 DEF DeviceTyped
<1>9. queue' \in Seq(Ops) /\ DOMAIN queue' = DOMAIN queue
  <2>1. queue \in Seq(Ops)  BY <1>1 DEF DeviceTyped
  <2>2. queue' \in Seq(Ops) /\ Len(queue') = Len(queue)  BY <1>1, <1>2, Outdating
  <2> QED  BY <2>1, <2>2
<1>10. DeviceTyped'
  BY <1>1, <1>2, <1>3, <1>7, <1>8, <1>9 DEF DeviceTyped, Screens
<1>11. InTurn' /\ ~Clearing'
  <2>1. \A i \in DOMAIN queue' : /\ ~queue'[i].live
                                 /\ queue'[i].kind = queue[i].kind
                                 /\ queue'[i].flow = queue[i].flow
                                 /\ queue'[i].begun = queue[i].begun
    BY <1>1, <1>2, <1>9, Outdating
  <2>2. \A i \in DOMAIN queue' : queue'[i].begun => i = 1
    BY <1>1, <1>9, <2>1 DEF InTurn
  <2>3. \A i \in DOMAIN queue' : queue'[i].kind = "write" => queue'[i].flow \in Refreshing
    BY <1>1, <1>9, <2>1 DEF InTurn
  <2>4. ~flow'["read"].cred  BY <1>1, <1>7, FlowsDiffer DEF Still
  <2>5. ~Clearing'  BY <2>1 DEF Clearing
  <2> QED  BY <2>2, <2>3, <2>4, <2>5 DEF InTurn
<1>12. flow'["read"].at # "sent"  BY <1>1, <1>7, Outdating
<1>13. Fenced' /\ Alone' /\ Bare'
  BY <1>2, <1>7, <1>11, <1>12 DEF Fenced, Alone, Bare
<1> QED  BY <1>5, <1>6, <1>10, <1>11, <1>13 DEF SessionInv, DeviceInv, Confirmed

LEMMA SignOutKeeps == ASSUME SessionInv, SignOut PROVE SessionInv'
<1>1. DeviceInv /\ DeviceTyped /\ InTurn /\ UNCHANGED server /\ "signout" \in Flow
  BY FlowsDiffer DEF SessionInv, DeviceInv, SignOut
<1>2. CASE mem # None /\ Fence(mem)
  <2>1. mem \in Vaults  BY <1>1, <1>2 DEF DeviceTyped, MaybeVault
  <2> QED  BY <1>1, <1>2, <2>1, FenceKeeps
<1>3. CASE /\ flow' = [flow EXCEPT !["signout"].at = "auth"]
           /\ UNCHANGED <<call, store, memory, ended>>
  <2> DEFINE new == [flow["signout"] EXCEPT !.at = "auth"]
  <2>1. new \in Flows /\ new.cred = flow["signout"].cred /\ new.at = "auth"
    BY <1>1 DEF DeviceTyped, Flows, Stations
  <2>2. flow' = [flow EXCEPT !["signout"] = new]  BY <1>3
  <2> HIDE DEF new
  <2>3. /\ flow' \in [Flow -> Flows] /\ flow'["signout"] = new
        /\ \A g \in Flow : g # "signout" => flow'[g] = flow[g]
    BY <1>1, <2>1, <2>2 DEF DeviceTyped
  <2>4. DeviceTyped'  BY <1>1, <1>3, <2>3 DEF DeviceTyped, store, memory
  <2>5. \A g \in Flow : /\ flow'[g].cred => flow[g].cred
                        /\ flow'[g].at = "sent" => flow[g].at = "sent"
    BY <2>1, <2>3
  <2>6. UNCHANGED <<queue, phase, mem, disk>>  BY <1>3 DEF store, memory
  <2>7. DeviceInv'  BY <1>1, <2>4, <2>5, <2>6, Calm
  <2>8. ServerTyped' /\ Confirmed'  BY <1>1, <1>3, Unheard DEF SessionInv, memory
  <2> QED  BY <2>7, <2>8 DEF SessionInv
<1> QED  BY <1>2, <1>3 DEF SignOut

LEMMA SignOutUnlockedKeeps == ASSUME SessionInv, SignOutUnlocked PROVE SessionInv'
<1>1. DeviceInv /\ DeviceTyped /\ InTurn /\ UNCHANGED server /\ "signout" \in Flow
  BY FlowsDiffer DEF SessionInv, DeviceInv, SignOutUnlocked
<1>2. CASE Rest("signout") /\ UNCHANGED <<call, store, memory, ended>>
  <2>1. DeviceTyped'  BY <1>1, <1>2, RestsCalmly DEF DeviceTyped, store, memory
  <2>2. DeviceInv'
    <3>1. UNCHANGED <<queue, phase, mem, disk>>  BY <1>2 DEF store, memory
    <3> QED  BY <1>1, <1>2, <2>1, <3>1, RestsCalmly, Calm
  <2>3. ServerTyped' /\ Confirmed'  BY <1>1, <1>2, Unheard DEF SessionInv, memory
  <2> QED  BY <2>2, <2>3 DEF SessionInv
<1>3. CASE cleaned /\ ClearAndSignOut("signout", TRUE, "signout") /\ UNCHANGED call
  <2>1. revoked # None  BY <1>3 DEF SessionInv, Confirmed, Concluded
  <2>2. DeviceInv'  BY <1>1, <1>3, ClearsAlone
  <2>3. ServerTyped' /\ Confirmed'  BY <1>1, <1>3, <2>1, Unheard DEF SessionInv
  <2> QED  BY <2>2, <2>3 DEF SessionInv
<1>4. CASE disk # None /\ Fence(disk)
  <2>1. disk \in Vaults  BY <1>1, <1>4 DEF DeviceTyped, MaybeVault
  <2> QED  BY <1>1, <1>4, <2>1, FenceKeeps
<1> QED  BY <1>2, <1>3, <1>4 DEF SignOutUnlocked

\* The phone clears its store only on the server's own word.
LEMMA SignedOutKeeps == ASSUME SessionInv, SignedOut PROVE SessionInv'
<1>1. DeviceInv /\ DeviceTyped /\ InTurn /\ ServerTyped /\ CallsConfirm /\ UNCHANGED server
      /\ "signout" \in Flow
  BY FlowsDiffer DEF SessionInv, DeviceInv, Confirmed, SignedOut
<1>2. PICK c \in CallOf("signout") :
        /\ call[c].answer = "done"
        /\ ClearAndSignOut("signout", TRUE, "signout")
        /\ call' = Abandoned({"signout", "read"})
  BY DEF SignedOut, SignOutConfirmed
<1>3. revoked # None  BY <1>1, <1>2 DEF CallOf, CallsConfirm
<1>4. DeviceInv'  BY <1>1, <1>2, ClearsAlone
<1>5. ServerTyped' /\ CallsConfirm'  BY <1>1, <1>2, AbandonConfirms
<1>6. Concluded'  BY <1>1, <1>3 DEF Concluded, server
<1> QED  BY <1>4, <1>5, <1>6 DEF SessionInv, Confirmed

LEMMA SignOutFailedKeeps == ASSUME SessionInv, SignOutFailed PROVE SessionInv'
<1>1. DeviceInv /\ DeviceTyped /\ InTurn /\ ServerTyped /\ CallsConfirm /\ Confirmed
      /\ "signout" \in Flow
  BY FlowsDiffer DEF SessionInv, DeviceInv, Confirmed
<1>2. /\ flow["signout"].at = "sent"
      /\ mem' \in {flow["signout"].vault, None}
      /\ phase' \in {"online", "offline", "locked"}
      /\ Rest("signout") /\ call' = Abandoned({"signout"})
      /\ before' = Before0
      /\ UNCHANGED <<server, store, revocation, cleaned, minted, ended>>
  BY DEF SignOutFailed
<1>3. ServerTyped' /\ CallsConfirm'  BY <1>1, <1>2, AbandonConfirms
<1>4. Concluded'  BY <1>1, <1>2 DEF Confirmed, Concluded, server
<1>5. flow["signout"] \in Flows  BY <1>1 DEF DeviceTyped
<1>6. mem' \in MaybeVault  BY <1>2, <1>5 DEF Flows, MaybeVault
<1>7. DeviceTyped'
  BY <1>1, <1>2, <1>6, RestsCalmly DEF DeviceTyped, store, Screens, Before0
<1>8. ~Clearing  BY <1>1, <1>2 DEF DeviceInv, Fenced, Alone
<1>9. InTurn' /\ ~Clearing'
  <2>1. UNCHANGED queue  BY <1>2 DEF store
  <2> QED  BY <1>1, <1>2, <1>7, <1>8, <2>1, RestsCalmly, Calm
<1>10. flow'["signout"].at # "sent"
  <2>1. flow'["signout"].at = "idle"  BY <1>1, <1>2, Rests
  <2> QED  BY <2>1
<1>11. Fenced' /\ Alone' /\ Bare'  BY <1>2, <1>9, <1>10 DEF Fenced, Alone, Bare
<1> QED  BY <1>3, <1>4, <1>7, <1>9, <1>11 DEF SessionInv, DeviceInv, Confirmed

LEMMA BackgroundKeeps == ASSUME SessionInv, Background PROVE SessionInv'
<1> DEFINE away == [f \in Flow |-> [flow[f] EXCEPT !.life = FALSE]]
<1>1. DeviceInv /\ DeviceTyped /\ InTurn /\ ServerTyped /\ CallsConfirm /\ Confirmed
      /\ "read" \in Flow /\ "signout" \in Flow
  BY FlowsDiffer DEF SessionInv, DeviceInv, Confirmed
<1>2. /\ mem' = None
      /\ phase' = IF phase \in {"out", "blocked"} THEN phase ELSE "locked"
      /\ flow' = [away EXCEPT !["read"] = NoRead]
      /\ call' = Abandoned({"read"})
      /\ UNCHANGED <<server, store, before, revocation, cleaned, minted, ended>>
  BY DEF Background
<1>3. \A r \in Flows : /\ [r EXCEPT !.life = FALSE] \in Flows
                       /\ [r EXCEPT !.life = FALSE].cred = r.cred
                       /\ [r EXCEPT !.life = FALSE].at = r.at
  BY DEF Flows
<1>4. /\ away \in [Flow -> Flows]
      /\ \A f \in Flow : away[f].cred = flow[f].cred /\ away[f].at = flow[f].at
  <2>1. \A f \in Flow : flow[f] \in Flows  BY <1>1 DEF DeviceTyped
  <2>2. \A f \in Flow : away[f] = [flow[f] EXCEPT !.life = FALSE]  OBVIOUS
  <2>3. \A f \in Flow : away[f] \in Flows  BY <1>3, <2>1, <2>2
  <2> QED  BY <1>3, <2>1, <2>2, <2>3
<1> HIDE DEF away
<1>5. /\ flow' \in [Flow -> Flows]
      /\ \A g \in Flow : /\ flow'[g].cred => flow[g].cred
                         /\ flow'[g].at = "sent" => flow[g].at = "sent"
  <2>1. NoRead \in Flows /\ NoRead.at # "sent" /\ ~NoRead.cred
    BY <1>1, Outdating DEF InTurn
  <2>2. /\ flow' \in [Flow -> Flows] /\ flow'["read"] = NoRead
        /\ \A g \in Flow : g # "read" => flow'[g] = away[g]
    BY <1>1, <1>2, <1>4, <2>1
  <2>3. ASSUME NEW g \in Flow
        PROVE  /\ flow'[g].cred => flow[g].cred
               /\ flow'[g].at = "sent" => flow[g].at = "sent"
    <3>1. CASE g = "read"  BY <2>1, <2>2, <3>1
    <3>2. CASE g # "read"  BY <1>4, <2>2, <3>2
    <3> QED  BY <3>1, <3>2
  <2> QED  BY <2>2, <2>3
<1>6. ServerTyped' /\ CallsConfirm'  BY <1>1, <1>2, AbandonConfirms
<1>7. Concluded'  BY <1>1, <1>2 DEF Confirmed, Concluded, server
<1>8. DeviceTyped'
  BY <1>1, <1>2, <1>5 DEF DeviceTyped, store, Screens, MaybeVault
<1>9. UNCHANGED <<queue, disk>>  BY <1>2 DEF store
<1>10. /\ InTurn' /\ (Clearing' => Clearing)
       /\ \A g \in Flow : Still(g) => Still(g)'
  BY <1>1, <1>5, <1>8, <1>9, Calm
<1>11. Fenced' /\ Alone' /\ Bare'
  <2>1. Fenced'  BY <1>1, <1>2, <1>5, <1>10 DEF DeviceInv, Fenced
  <2>2. Alone'  BY <1>1, <1>2, <1>10 DEF DeviceInv, Alone
  <2>3. Bare'  BY <1>1, <1>2, <1>9, <1>10 DEF DeviceInv, Bare
  <2> QED  BY <2>1, <2>2, <2>3
<1> QED  BY <1>6, <1>7, <1>8, <1>10, <1>11 DEF SessionInv, DeviceInv, Confirmed

LEMMA RestartKeeps == ASSUME SessionInv, Restart PROVE SessionInv'
<1>1. DeviceTyped /\ ServerTyped /\ CallsConfirm /\ Confirmed
  BY DEF SessionInv, DeviceInv, Confirmed
<1>2. /\ disk' \in {disk} \cup {op.vault : op \in {queue[i] : i \in
                                  {i \in DOMAIN queue : queue[i].begun}}}
      /\ phase' = IF disk' = None THEN "out" ELSE "locked"
      /\ mem' = None /\ queue' = <<>> /\ revocation' = 0 /\ cleaned' = FALSE
      /\ before' = Before0 /\ ended' = "no"
      /\ flow' = [f \in Flow |-> Resting]
      /\ call' = Abandoned(Flow)
      /\ UNCHANGED <<server, minted>>
  BY DEF Restart
<1>3. \A i \in DOMAIN queue : queue[i].vault \in MaybeVault
  <2>1. \A i \in DOMAIN queue : queue[i] \in Ops  BY <1>1 DEF DeviceTyped
  <2> QED  BY <2>1 DEF Ops
<1>4. disk' \in MaybeVault
  <2>1. disk \in MaybeVault  BY <1>1 DEF DeviceTyped
  <2> QED  BY <1>2, <1>3, <2>1
<1>5. Resting \in Flows /\ ~Resting.cred /\ Resting.at # "sent"
  BY DEF Resting, Flows, Stations, MaybeVault
<1> HIDE DEF Resting
<1>6. /\ flow' \in [Flow -> Flows]
      /\ \A f \in Flow : flow'[f].at # "sent" /\ Still(f)'
  BY <1>2, <1>5 DEF Still
<1>7. queue' \in Seq(Ops) /\ DOMAIN queue' = {}  BY <1>2
<1>8. DeviceTyped'
  <2>1. before' \in [phase : Screens, out : BOOLEAN]  BY <1>2 DEF Before0, Screens
  <2>2. phase' \in Screens /\ mem' \in MaybeVault /\ ended' = "no"
    BY <1>2 DEF Screens, MaybeVault
  <2>3. revocation' \in 0..MaxKeys /\ minted' \in 0..MaxKeys /\ cleaned' \in BOOLEAN
    <3>1. 0 \in 0..MaxKeys  BY RotationAssumption
    <3>2. minted' \in 0..MaxKeys  BY <1>1, <1>2 DEF DeviceTyped
    <3> QED  BY <1>2, <3>1, <3>2
  <2> QED  BY <1>4, <1>6, <1>7, <2>1, <2>2, <2>3 DEF DeviceTyped
<1>9. InTurn' /\ Fenced' /\ Alone' /\ Bare'
  BY <1>2, <1>6, <1>7, FlowsDiffer DEF InTurn, Fenced, Alone, Bare, Clearing, Still
<1>10. ServerTyped' /\ CallsConfirm'  BY <1>1, <1>2, AbandonConfirms
<1>11. Concluded'  BY <1>2 DEF Concluded
<1> QED  BY <1>8, <1>9, <1>10, <1>11 DEF SessionInv, DeviceInv, Confirmed

LEMMA ReadScreenKeeps == ASSUME SessionInv, ReadScreen PROVE SessionInv'
<1>1. DeviceInv /\ DeviceTyped /\ InTurn /\ ServerTyped /\ CallsConfirm /\ Confirmed
      /\ "read" \in Flow /\ "signout" \in Flow
  BY FlowsDiffer DEF SessionInv, DeviceInv, Confirmed
<1>2. /\ phase \in {"checking", "offline", "online"} /\ mem # None
      /\ Send("read", "read", mem, 0, {})
      /\ flow' = [flow EXCEPT !["read"].at = "sent"]
      /\ UNCHANGED <<server, store, memory, ended>>
  BY DEF ReadScreen
<1>3. mem \in Vaults /\ 0 \in 0..MaxKeys
  BY <1>1, <1>2, RotationAssumption DEF DeviceTyped, MaybeVault
<1>4. ServerTyped' /\ CallsConfirm'
  BY <1>1, <1>2, <1>3, SendConfirms
<1>5. Concluded'  BY <1>1, <1>2 DEF Confirmed, Concluded, server, memory
<1> DEFINE new == [flow["read"] EXCEPT !.at = "sent"]
<1>6. new \in Flows /\ new.cred = flow["read"].cred
  BY <1>1 DEF DeviceTyped, Flows, Stations
<1>7. flow' = [flow EXCEPT !["read"] = new]  BY <1>2
<1> HIDE DEF new
<1>8. /\ flow' \in [Flow -> Flows] /\ flow'["read"] = new
      /\ \A g \in Flow : g # "read" => flow'[g] = flow[g]
  BY <1>1, <1>6, <1>7 DEF DeviceTyped
<1>9. UNCHANGED <<queue, phase, mem, disk>>  BY <1>2 DEF store, memory
<1>10. DeviceTyped'  BY <1>1, <1>2, <1>8 DEF DeviceTyped, store, memory
<1>11. InTurn'  BY <1>1, <1>6, <1>8, <1>9 DEF InTurn
<1>12. flow["signout"].at # "sent" /\ ~Clearing
  BY <1>1, <1>2 DEF DeviceInv, Fenced, Alone
<1>13. Fenced' /\ Alone' /\ Bare'
  BY <1>1, <1>2, <1>8, <1>9, <1>12 DEF Fenced, Alone, Bare, Clearing
<1> QED  BY <1>4, <1>5, <1>10, <1>11, <1>13 DEF SessionInv, DeviceInv, Confirmed

LEMMA ReadAnsweredKeeps == ASSUME SessionInv, ReadAnswered PROVE SessionInv'
<1>1. DeviceInv /\ DeviceTyped /\ InTurn /\ ServerTyped /\ CallsConfirm /\ Confirmed
      /\ "read" \in Flow /\ "signout" \in Flow
  BY FlowsDiffer DEF SessionInv, DeviceInv, Confirmed
<1>2. /\ flow["read"].at = "sent" /\ call' = Abandoned({"read"}) /\ UNCHANGED server
      /\ \/ ClearAndSignOut("rejected", FALSE, "read")
         \/ Rest("read") /\ UNCHANGED <<store, memory, ended>>
  BY DEF ReadAnswered
<1>3. flow["signout"].at # "sent"  BY <1>1, <1>2 DEF DeviceInv, Fenced
<1>4. ServerTyped' /\ CallsConfirm'  BY <1>1, <1>2, AbandonConfirms
<1>5. CASE ClearAndSignOut("rejected", FALSE, "read")
  <2>1. DeviceInv' /\ ~cleaned' /\ ended' # "signout"
    BY <1>1, <1>3, <1>5, ClearsAlone
  <2> QED  BY <1>4, <2>1 DEF SessionInv, Confirmed, Concluded
<1>6. CASE Rest("read") /\ UNCHANGED <<store, memory, ended>>
  <2>1. UNCHANGED <<queue, phase, mem, disk>>  BY <1>6 DEF store, memory
  <2>2. DeviceTyped'  BY <1>1, <1>6, RestsCalmly DEF DeviceTyped, store, memory
  <2>3. DeviceInv'  BY <1>1, <1>6, <2>1, <2>2, RestsCalmly, Calm
  <2>4. Concluded'  BY <1>1, <1>2, <1>6 DEF Confirmed, Concluded, memory, server
  <2> QED  BY <1>4, <2>3, <2>4 DEF SessionInv, Confirmed
<1> QED  BY <1>2, <1>5, <1>6

LEMMA ReadLostKeeps == ASSUME SessionInv, ReadLost PROVE SessionInv'
<1>1. DeviceInv /\ DeviceTyped /\ ServerTyped /\ CallsConfirm /\ Confirmed
      /\ "read" \in Flow /\ "signout" \in Flow
  BY FlowsDiffer DEF SessionInv, DeviceInv, Confirmed
<1>2. /\ flow["read"].at = "sent" /\ Rest("read") /\ call' = Abandoned({"read"})
      /\ phase' = phase \/ (phase = "online" /\ phase' = "offline")
      /\ UNCHANGED <<server, store, mem, before, revocation, cleaned, minted, ended>>
  BY DEF ReadLost
<1>3. ServerTyped' /\ CallsConfirm'  BY <1>1, <1>2, AbandonConfirms
<1>4. Concluded'  BY <1>1, <1>2 DEF Confirmed, Concluded, server
<1>5. DeviceTyped'
  BY <1>1, <1>2, RestsCalmly DEF DeviceTyped, store, Screens
<1>6. UNCHANGED <<queue, mem, disk>>  BY <1>2 DEF store
<1>7. \A g \in Flow : /\ flow'[g].cred => flow[g].cred
                      /\ flow'[g].at = "sent" => flow[g].at = "sent"
  BY <1>1, <1>2, RestsCalmly
<1>8. DeviceInv'
  <2>1. CASE phase' = phase  BY <1>1, <1>2, <1>5, <1>6, <1>7, <2>1, Calm
  <2>2. CASE phase = "online" /\ phase' = "offline"
    <3>1. flow["signout"].at # "sent" /\ ~Clearing
      BY <1>1, <1>2, <2>2 DEF DeviceInv, Fenced, Alone
    <3>2. InTurn' /\ ~Clearing' /\ flow'["signout"].at # "sent"
      BY <1>1, <1>5, <1>6, <1>7, <3>1, Calm
    <3> QED  BY <1>5, <2>2, <3>2 DEF DeviceInv, Fenced, Alone, Bare
  <2> QED  BY <1>2, <2>1, <2>2
<1> QED  BY <1>3, <1>4, <1>8 DEF SessionInv, Confirmed

LEMMA ServerKeeps == ASSUME SessionInv, ServerNext, UNCHANGED device PROVE SessionInv'
<1>1. ServerTyped' /\ Confirmed'
  BY ServerTypedKept, ServerConfirms DEF SessionInv
<1>2. DeviceInv'
  BY DEF SessionInv, DeviceInv, DeviceTyped, InTurn, Fenced, Alone, Bare, Still,
         Clearing, device, store, memory
<1> QED  BY <1>1, <1>2 DEF SessionInv

-----------------------------------------------------------------------------
(* The theorems. *)

LEMMA SessionInitially == ASSUME Init PROVE SessionInv
<1>1. Idle \in Calls /\ Idle.to = None /\ Idle.kind # "revoke"
  BY RotationAssumption DEF Idle, Calls, Bearings
<1>2. Resting \in Flows /\ ~Resting.cred /\ Resting.at # "sent"
  BY DEF Resting, Flows, Stations, MaybeVault
<1>3. Vault(<<>>, 0) \in MaybeVault
  BY RotationAssumption DEF Vault, Vaults, MaybeVault, Bearings
<1>4. <<>> \in Bearings  BY DEF Bearings
<1>5. Before0 \in [phase : Screens, out : BOOLEAN]  BY DEF Before0, Screens
<1> HIDE DEF Idle, Resting, Vault, Before0
<1>6. ServerTyped /\ Confirmed
  BY <1>1, <1>4, FlowsDiffer
     DEF Init, RotationInit, ServerTyped, Confirmed, CallsConfirm, Concluded
<1>7. flow \in [Flow -> Flows] /\ \A f \in Flow : Still(f) /\ flow[f].at # "sent"
  BY <1>2 DEF Init, Still
<1>8. queue \in Seq(Ops) /\ DOMAIN queue = {}  BY DEF Init
<1>9. DeviceTyped
  <2>1. phase \in Screens /\ mem \in MaybeVault /\ disk \in MaybeVault
    BY <1>3 DEF Init, Screens, MaybeVault
  <2>2. revocation \in 0..MaxKeys /\ minted \in 0..MaxKeys /\ cleaned \in BOOLEAN
    <3>1. 0 \in 0..MaxKeys  BY RotationAssumption
    <3> QED  BY <3>1 DEF Init
  <2>3. before \in [phase : Screens, out : BOOLEAN]  BY <1>5 DEF Init
  <2>4. ended = "no"  BY DEF Init
  <2> QED  BY <1>7, <1>8, <2>1, <2>2, <2>3, <2>4 DEF DeviceTyped
<1>10. InTurn /\ Fenced /\ Alone /\ Bare
  BY <1>7, <1>8, FlowsDiffer DEF Init, InTurn, Fenced, Alone, Bare, Clearing, Still
<1> QED  BY <1>6, <1>9, <1>10 DEF SessionInv, DeviceInv

LEMMA SessionSteps == ASSUME SessionInv, [Next]_vars PROVE SessionInv'
<1>1. CASE UNCHANGED vars
  <2>1. UNCHANGED <<server, call, device>>  BY <1>1 DEF vars
  <2>2. ServerTyped' /\ Confirmed'  BY <2>1, Unheard DEF SessionInv, device, memory
  <2>3. DeviceInv'
    BY <2>1 DEF SessionInv, DeviceInv, DeviceTyped, InTurn, Fenced, Alone, Bare, Still,
                Clearing, device, store, memory
  <2> QED  BY <2>2, <2>3 DEF SessionInv
<1>2. CASE Next
  <2>1. CASE Work
    BY <2>1, UnlockKeeps, BeginKeeps, WritesKeep, FailsKeep, ClearsKeep, RefreshedKeeps,
       GiveUpKeeps, SignOutUnlockedKeeps, SignedOutKeeps, SignOutFailedKeeps,
       ReadAnsweredKeeps, ReadLostKeeps DEF Work
  <2> QED
    BY <1>2, <2>1, ServerKeeps, ForegroundKeeps, SignOutKeeps, BackgroundKeeps,
       RestartKeeps, ReadScreenKeeps, RetryKeeps DEF Next
<1> QED  BY <1>1, <1>2

\* The invariant holds in every scenario of a phone: in the others the
\* session stays in its first state.
THEOREM SessionInductive == PhoneSpec => []SessionInv
<1>1. PhoneInit => SessionInv  BY SessionInitially DEF PhoneInit
<1>2. SessionInv /\ [PhoneNext]_everything => SessionInv'
  <2>1. [PhoneNext]_everything => [Next]_vars  BY DEF PhoneNext, everything
  <2> QED  BY <2>1, SessionSteps
<1> QED  BY <1>1, <1>2, PTL DEF PhoneSpec

\* A phone that shows itself signed out holds no bearer, and it takes itself
\* to be signed out only when the server has revoked the session.
THEOREM SignsOutInTruth == PhoneSpec => []SignOutIsTrue
<1>1. SessionInv => SignOutIsTrue
  BY DEF SessionInv, DeviceInv, Confirmed, Concluded, Bare, SignOutIsTrue
<1> QED  BY <1>1, SessionInductive, PTL

\* A revoked session never rotates again and is never restored, whatever
\* requests were past their inspection when it was revoked.
THEOREM RevokedForGood == PhoneSpec => RevocationIsFinal
<1>1. SessionInv /\ [PhoneNext]_everything
        => [revoked # None => UNCHANGED <<chain, revoked>>]_vars
  <2>1. SUFFICES ASSUME SessionInv, [Next]_vars
                 PROVE  (revoked # None => UNCHANGED <<chain, revoked>>) \/ UNCHANGED vars
    BY DEF PhoneNext, everything
  <2>2. CASE UNCHANGED vars  BY <2>2
  <2>3. CASE ServerNext  BY <2>1, <2>3, ServerTypedKept DEF SessionInv
  <2>4. CASE Next /\ ~ServerNext
    <3>1. UNCHANGED server
      BY <2>4 DEF Next, Work, Unlock, BeginStore, StoreWrites, StoreFails, StoreClears,
                  Refreshed, GiveUp, SignOutUnlocked, SignedOut, SignOutFailed,
                  ReadAnswered, ReadLost, Foreground, SignOut, Background, Restart,
                  ReadScreen, RetryConnection
    <3> QED  BY <3>1 DEF server
  <2> QED  BY <2>1, <2>2, <2>3, <2>4
<1> QED  BY <1>1, SessionInductive, PTL DEF PhoneSpec, RevocationIsFinal

-----------------------------------------------------------------------------
(* The session of a patient phone.                                         *)
(*                                                                         *)
(* Spendable are the vaults the phone may still use: the stored one, those *)
(* that wait to be stored, the one in memory, and the one that a sign-out  *)
(* puts back if it fails.  SpendableSound: each holds the bearer in force, *)
(* or the bearer and the key of the latest rotation.  OneRequest: while a  *)
(* request is under way that would rotate, whatever is kept, and whatever  *)
(* else is asked, is that very pair.  NoneAhead: while the answer to a     *)
(* rotation that has happened is under way, nothing is kept that would     *)
(* rotate again.  For this a write that a live flow waits for is the last  *)
(* that announces a request (LeaderLast), and there is one live flow at a  *)
(* time (OneLeader).                                                       *)

\* Requests are served while the phone waits for them, repetitions come
\* within the window, and a retry is offered only when nothing is under way.
Patient == ~Reads /\ ~Stragglers /\ ~WindowCanClose /\ Offered \subseteq {"offline"}

Asking(c)  == call[c].kind = "refresh" /\ call[c].at \in {"sent", "verified", "retired"}
Issued(c)  == call[c].kind = "refresh" /\ call[c].at = "answered" /\ call[c].answer = "session"
AskedOf(c) == Vault(call[c].bearer, call[c].key)

MayRestore == /\ flow["signout"].at = "sent" /\ Live("signout") /\ ~before.out
              /\ before.phase \in {"online", "offline"}
Writes == {i \in DOMAIN queue : queue[i].kind = "write"}
Spendable == ({disk} \cup {queue[i].vault : i \in Writes}
          \cup (IF flow["signout"].at = "sent" THEN {} ELSE {mem})
          \cup (IF MayRestore THEN {flow["signout"].vault} ELSE {})) \ {None}

Sound(v) == v.bearer = chain \/ chain = Append(v.bearer, v.key)
Asks(v)  == v.bearer = chain /\ v.key # 0

Recoverable == chain # <<>> => recoverable

CallFits(c) ==
    /\ Asking(c) => Sound(AskedOf(c)) /\ call[c].key # 0
    /\ call[c].at = "retired"
         => call[c].kind = "refresh" /\ call[c].bearer # chain /\ call[c].inTime
    /\ Issued(c) => call[c].issued = chain
    /\ call[c].kind = "refresh" /\ call[c].answer = "rejected" => revoked # None
    /\ call[c].to \in Refreshing => call[c].kind = "refresh"
    /\ call[c].kind = "revoke" => call[c].key # 0
    /\ call[c].bearer \in Bearers /\ call[c].issued \in Bearers

CallsFit  == \A c \in Call : CallFits(c)
SpendableSound == \A v \in Spendable : Sound(v)

OneRequest ==
    \A c \in Call : Asking(c) /\ Asks(AskedOf(c)) =>
        /\ \A v \in Spendable : v = AskedOf(c)
        /\ \A d \in Call : (Asking(d) => AskedOf(d) = AskedOf(c)) /\ ~Issued(d)

NoneAhead ==
    \A c \in Call : (Asking(c) /\ ~Asks(AskedOf(c))) \/ Issued(c)
        => \A v \in Spendable : ~Asks(v)

Rooted ==
    /\ chain \in Seq(Keys)
    /\ \A r \in receipts : r.bearer \in Bearers /\ r.key \in Keys
    /\ mem # None => mem.bearer \in Bearers

\* The keys and bearers of the session.
TokensFit == Recoverable /\ CallsFit /\ SpendableSound /\ OneRequest /\ NoneAhead /\ Rooted

\* An operation is one its flow waits for.
QueueFits ==
    \A i \in DOMAIN queue :
        /\ queue[i].kind = "clear" =>
             flow[queue[i].flow].at = "clearing" /\ queue[i].vault = None
        /\ queue[i].kind = "write" =>
             /\ queue[i].vault \in Vaults
             /\ \/ /\ flow[queue[i].flow].at = "writing"
                   /\ queue[i].vault = flow[queue[i].flow].vault /\ queue[i].vault.key # 0
                \/ flow[queue[i].flow].at = "storing" /\ queue[i].vault.key = 0
        /\ \A j \in DOMAIN queue : queue[j].flow = queue[i].flow => i = j

Leads(i) == Live(queue[i].flow) /\ flow[queue[i].flow].at = "writing"
LeaderLast ==
    \A i, j \in Writes : i < j /\ Leads(i) =>
        flow[queue[j].flow].at # "writing" /\ ~Asks(queue[i].vault)

OneLeader ==
    /\ \A f \in Refreshing : Live(f) =>
         \/ f = "unlock" /\ flow[f].at = "auth" /\ phase = "locked"
         \/ flow[f].at \in {"writing", "sent", "storing"} /\ phase = "checking"
    /\ \A f, g \in Refreshing : Live(f) /\ Live(g) => f = g

Shown ==
    /\ phase \in {"checking", "offline", "online"} => mem # None
    /\ flow["signout"].at = "sent" => flow["signout"].vault \in Vaults
    /\ flow["read"].at = "idle"

FlowsFit == QueueFits /\ LeaderLast /\ OneLeader /\ Shown

PatientInv == SessionInv /\ TokensFit /\ FlowsFit /\ NeverTakenForReplay /\ NothingWasted

-----------------------------------------------------------------------------
(* Bearers and the chain of rotations. *)

\* None is no vault.
LEMMA NoVault == None \notin Vaults
<1>1. \A v \in Vaults : v \in [bearer : Seq(Nat), key : Nat]
  <2>1. \A s \in Seq(0..MaxKeys) : s \in Seq(Nat)
    BY RotationAssumption
  <2>2. \A k \in 0..MaxKeys : k \in Nat  BY RotationAssumption
  <2> QED  BY <2>1, <2>2 DEF Vaults, Bearings
<1> QED  BY <1>1, DeviceAssumption

\* What a sequence begins with.
LEMMA Starts ==
    ASSUME NEW S, NEW s \in Seq(S), NEW n \in 0..Len(s)
    PROVE  /\ SubSeq(s, 1, n) \in Seq(S) /\ Len(SubSeq(s, 1, n)) = n
           /\ \A i \in 1..n : SubSeq(s, 1, n)[i] = s[i]
<1>1. Len(s) \in Nat /\ n \in Int /\ n - 1 + 1 = n /\ \A i \in 1..n : s[i] \in S /\ 1 + i - 1 = i
  OBVIOUS
<1>2. /\ SubSeq(s, 1, n) \in Seq(S)
      /\ Len(SubSeq(s, 1, n)) = IF 1 <= n THEN n - 1 + 1 ELSE 0
      /\ \A i \in 1..(n - 1 + 1) : SubSeq(s, 1, n)[i] = s[1 + i - 1]
  BY <1>1, SubSeqProperties
<1> QED  BY <1>1, <1>2

\* A prefix of the chain is a prefix of what the chain becomes.
LEMMA Prefixes ==
    ASSUME chain \in Bearings, NEW b \in Bearings
    PROVE  /\ b \in Bearers => Len(b) <= Len(chain) /\ b = SubSeq(chain, 1, Len(b))
           /\ Len(b) <= Len(chain) /\ b = SubSeq(chain, 1, Len(b)) => b \in Bearers
           /\ chain \in Bearers /\ <<>> \in Bearers
<1>1. chain \in Seq(0..MaxKeys) /\ Len(chain) \in Nat  BY DEF Bearings
<1>2. b \in Seq(0..MaxKeys) /\ Len(b) \in Nat  BY DEF Bearings
<1>3. \A n \in 0..Len(chain) : SubSeq(chain, 1, n) \in Seq(0..MaxKeys)
                              /\ Len(SubSeq(chain, 1, n)) = n
  BY <1>1, Starts
<1>4. SubSeq(chain, 1, Len(chain)) = chain /\ SubSeq(chain, 1, 0) = <<>>
  BY <1>1, SubSeqFull, SubSeqEmpty
<1>5. Len(chain) \in 0..Len(chain) /\ 0 \in 0..Len(chain)  BY <1>1
<1>6. chain \in Bearers /\ <<>> \in Bearers
  <2> HIDE DEF Bearings
  <2> QED  BY <1>4, <1>5, Zenon DEF Bearers
<1>7. ASSUME b \in Bearers PROVE Len(b) <= Len(chain) /\ b = SubSeq(chain, 1, Len(b))
  <2>1. PICK n \in 0..Len(chain) : b = SubSeq(chain, 1, n)  BY <1>7 DEF Bearers
  <2>2. Len(b) = n  BY <1>3, <2>1
  <2> QED  BY <2>1, <2>2, <1>1
<1>8. ASSUME Len(b) <= Len(chain), b = SubSeq(chain, 1, Len(b)) PROVE b \in Bearers
  <2>1. Len(b) \in 0..Len(chain)  BY <1>1, <1>2, <1>8
  <2> QED  BY <1>8, <2>1, Zenon DEF Bearers
<1> QED  BY <1>6, <1>7, <1>8

\* What was asked with b and k and happened last is recognised as that.
LEMMA Recognised ==
    ASSUME chain \in Bearings, NEW b \in Bearings, NEW k \in 0..MaxKeys
    PROVE  /\ chain = Append(b, k) =>
                /\ b \in Bearers /\ IsRetired(b) /\ RetiredBy(b, k) /\ SuccessorCurrent(b)
                /\ ~IsCurrent(b)
           /\ b = chain => ~IsRetired(b) /\ ~RetiredBy(b, k)
           /\ chain = Append(b, k) => b # chain
           /\ RetiredBy(b, k) /\ SuccessorCurrent(b) => chain = Append(b, k) /\ b # chain
<1>1. chain \in Seq(0..MaxKeys) /\ Len(chain) \in Nat  BY DEF Bearings
<1>2. b \in Seq(0..MaxKeys) /\ Len(b) \in Nat  BY DEF Bearings
<1>3. ASSUME chain = Append(b, k)
      PROVE  /\ Len(chain) = Len(b) + 1 /\ chain[Len(b) + 1] = k
             /\ b = SubSeq(chain, 1, Len(b))
  <2>1. Len(chain) = Len(b) + 1 /\ chain[Len(b) + 1] = k
        /\ \A i \in 1..Len(b) : chain[i] = b[i]
    BY <1>2, <1>3
  <2>2. /\ SubSeq(chain, 1, Len(b)) \in Seq(0..MaxKeys)
        /\ Len(SubSeq(chain, 1, Len(b))) = Len(b)
        /\ \A i \in 1..Len(b) : SubSeq(chain, 1, Len(b))[i] = chain[i]
    <3>1. Len(b) \in 0..Len(chain)  BY <1>1, <1>2, <2>1
    <3> QED  BY <1>1, <3>1, Starts
  <2>3. b = SubSeq(chain, 1, Len(b))  BY <1>2, <2>1, <2>2
  <2> QED  BY <2>1, <2>3
<1>4. ASSUME chain = Append(b, k)
      PROVE  /\ b \in Bearers /\ IsRetired(b) /\ RetiredBy(b, k) /\ SuccessorCurrent(b)
             /\ ~IsCurrent(b)
  <2>1. /\ Len(chain) = Len(b) + 1 /\ chain[Len(b) + 1] = k
        /\ b = SubSeq(chain, 1, Len(b))
    BY <1>3, <1>4
  <2>2. b # chain /\ Len(b) < Len(chain) /\ Len(b) <= Len(chain)  BY <1>2, <2>1
  <2>3. b \in Bearers  BY <2>1, <2>2, Prefixes
  <2> QED  BY <2>1, <2>2, <2>3 DEF IsRetired, RetiredBy, SuccessorCurrent, IsCurrent
<1>5. ASSUME RetiredBy(b, k), SuccessorCurrent(b)
      PROVE  chain = Append(b, k) /\ b # chain
  <2>1. /\ Len(chain) = Len(b) + 1 /\ b = SubSeq(chain, 1, Len(b))
        /\ chain[Len(b) + 1] = k
    BY <1>1, <1>2, <1>5 DEF RetiredBy, SuccessorCurrent, IsRetired
  <2>2. \A i \in 1..Len(b) : b[i] = chain[i]
    <3>1. \A i \in 1..Len(b) : SubSeq(chain, 1, Len(b))[i] = chain[i]
      <4>1. Len(b) \in 0..Len(chain)  BY <1>1, <1>2, <2>1
      <4> QED  BY <1>1, <4>1, Starts
    <3> QED  BY <2>1, <3>1
  <2>3. chain = Append(b, k)
    <3>1. /\ Append(b, k) \in Seq(0..MaxKeys) /\ Len(Append(b, k)) = Len(b) + 1
          /\ Append(b, k)[Len(b) + 1] = k
          /\ \A i \in 1..Len(b) : Append(b, k)[i] = b[i]
      BY <1>2
    <3>2. \A i \in 1..Len(chain) : Append(b, k)[i] = chain[i]
      BY <1>1, <1>2, <2>1, <2>2, <3>1
    <3> QED  BY <1>1, <2>1, <3>1, <3>2
  <2>4. b # chain  BY <1>2, <2>1
  <2> QED  BY <2>3, <2>4
<1>6. b = chain => ~IsRetired(b) /\ ~RetiredBy(b, k)
  BY <1>1 DEF IsRetired, RetiredBy
<1>7. chain = Append(b, k) => b # chain  BY <1>4 DEF IsCurrent
<1> QED  BY <1>4, <1>5, <1>6, <1>7, Zenon

\* A rotation leaves the bearers that were.
LEMMA Grows ==
    ASSUME chain \in Bearings, NEW k \in 0..MaxKeys, chain' = Append(chain, k)
    PROVE  chain' \in Bearings /\ \A b \in Bearings : b \in Bearers => b \in Bearers'
<1>1. chain \in Seq(0..MaxKeys) /\ Len(chain) \in Nat  BY DEF Bearings
<1>2. /\ chain' \in Seq(0..MaxKeys) /\ Len(chain') = Len(chain) + 1
      /\ \A i \in 1..Len(chain) : chain'[i] = chain[i]
  BY <1>1
<1>3. ASSUME NEW n \in 0..Len(chain)  PROVE SubSeq(chain', 1, n) = SubSeq(chain, 1, n)
  <2>1. /\ SubSeq(chain', 1, n) \in Seq(0..MaxKeys) /\ Len(SubSeq(chain', 1, n)) = n
        /\ \A i \in 1..n : SubSeq(chain', 1, n)[i] = chain'[i]
    <3>1. n \in 0..Len(chain')  BY <1>1, <1>2
    <3> QED  BY <1>2, <3>1, Starts
  <2>2. /\ SubSeq(chain, 1, n) \in Seq(0..MaxKeys) /\ Len(SubSeq(chain, 1, n)) = n
        /\ \A i \in 1..n : SubSeq(chain, 1, n)[i] = chain[i]
    BY <1>1, Starts
  <2>3. \A i \in 1..n : chain'[i] = chain[i]  BY <1>1, <1>2
  <2> QED  BY <2>1, <2>2, <2>3
<1>4. \A n \in 0..Len(chain) : n \in 0..Len(chain')  BY <1>1, <1>2
<1>5. ASSUME NEW b \in Bearings, b \in Bearers PROVE b \in Bearers'
  <2>1. PICK n \in 0..Len(chain) : b = SubSeq(chain, 1, n)  BY <1>5 DEF Bearers
  <2>2. b = SubSeq(chain', 1, n) /\ n \in 0..Len(chain')  BY <1>3, <1>4, <2>1
  <2> QED  BY <2>2, Zenon DEF Bearers
<1>6. chain' \in Bearings  BY <1>2 DEF Bearings
<1> QED  BY <1>5, <1>6

-----------------------------------------------------------------------------
(* Steps that ask for nothing new. *)

\* Where the chain is as it was, nothing is kept that was not, and nothing is
\* asked or issued anew, the keys and bearers still fit.
LEMMA Steady ==
    ASSUME TokensFit, UNCHANGED <<chain, recoverable>>, Spendable' \subseteq Spendable,
           CallsFit', Rooted',
           \A d \in Call :
              /\ Asking(d)' => Asking(d) /\ AskedOf(d)' = AskedOf(d)
              /\ Issued(d)' => Issued(d) \/ (Asking(d) /\ ~Asks(AskedOf(d)))
    PROVE  TokensFit'
<1>1. \A v : (Asks(v)' <=> Asks(v)) /\ (Sound(v)' <=> Sound(v))
  BY DEF Asks, Sound
<1>2. \A d \in Call : Asking(d)' => (Asks(AskedOf(d))' <=> Asks(AskedOf(d)))
  BY DEF Asks
<1>3. Recoverable'  BY DEF TokensFit, Recoverable
<1>4. SpendableSound'  BY <1>1 DEF TokensFit, SpendableSound
<1>5. OneRequest'
  <2>1. SUFFICES ASSUME NEW c \in Call, Asking(c)', Asks(AskedOf(c))'
                 PROVE  /\ \A v \in Spendable' : v = AskedOf(c)'
                        /\ \A d \in Call : (Asking(d)' => AskedOf(d)' = AskedOf(c)')
                                           /\ ~Issued(d)'
    BY DEF OneRequest
  <2>2. Asking(c) /\ Asks(AskedOf(c)) /\ AskedOf(c)' = AskedOf(c)  BY <1>2, <2>1
  <2>3. /\ \A v \in Spendable : v = AskedOf(c)
        /\ \A d \in Call : (Asking(d) => AskedOf(d) = AskedOf(c)) /\ ~Issued(d)
    BY <2>2 DEF TokensFit, OneRequest
  <2>4. \A d \in Call : ~(Asking(d) /\ ~Asks(AskedOf(d)))  BY <2>2, <2>3
  <2> QED  BY <2>2, <2>3, <2>4
<1>6. NoneAhead'
  <2>1. SUFFICES ASSUME NEW c \in Call,
                        (Asking(c)' /\ ~Asks(AskedOf(c))') \/ Issued(c)'
                 PROVE  \A v \in Spendable' : ~Asks(v)'
    BY DEF NoneAhead
  <2>2. (Asking(c) /\ ~Asks(AskedOf(c))) \/ Issued(c)  BY <1>2, <2>1
  <2>3. \A v \in Spendable : ~Asks(v)  BY <2>2 DEF TokensFit, NoneAhead
  <2> QED  BY <1>1, <2>3
<1> QED  BY <1>3, <1>4, <1>5, <1>6 DEF TokensFit

\* A call that is no refresh asks for nothing.
LEMMA Harmless ==
    ASSUME NEW c \in Call, call[c].kind # "refresh", call[c].at # "retired",
           call[c].to \notin Refreshing, call[c].kind = "revoke" => call[c].key # 0,
           call[c].bearer \in Bearers, call[c].issued \in Bearers
    PROVE  CallFits(c) /\ ~Asking(c) /\ ~Issued(c)
  BY DEF CallFits, Asking, Issued

LEMMA IdleFits ==
    ASSUME ServerTyped', NEW c \in Call, call'[c] = Idle
    PROVE  CallFits(c)' /\ ~Asking(c)' /\ ~Issued(c)'
<1>1. /\ Idle.kind = "none" /\ Idle.at = "idle" /\ Idle.to = None
      /\ Idle.bearer = <<>> /\ Idle.issued = <<>>
  BY DEF Idle
<1>2. <<>> \in Bearers'
  <2>1. SubSeq(chain', 1, 0) = <<>>  BY SubSeqEmpty
  <2>2. 0 \in 0..Len(chain')  BY DEF ServerTyped, Bearings
  <2> QED  BY <2>1, <2>2, Zenon DEF Bearers
<1>3. None \notin Refreshing  BY FlowsDiffer
<1>4. ~Asking(c)' /\ ~Issued(c)'  BY <1>1 DEF Asking, Issued
<1> QED  BY <1>1, <1>2, <1>3, <1>4 DEF CallFits

\* What becomes of a call that is given up.
LEMMA Dropped ==
    ASSUME CallsFit, ServerTyped, ServerTyped', UNCHANGED server, NEW fs, NEW d \in Call,
           call'[d] = Abandoned(fs)[d]
    PROVE  /\ CallFits(d)'
           /\ Asking(d)' => Asking(d) /\ AskedOf(d)' = AskedOf(d)
           /\ Issued(d)' => Issued(d)
<1>1. call'[d] \in {call[d], Idle, [call[d] EXCEPT !.to = None]}
  BY DEF Abandoned
<1>2. UNCHANGED <<chain, revoked>> /\ Bearers' = Bearers
  BY DEF server, Bearers
<1>3. CallFits(d) /\ call[d] \in Calls  BY DEF CallsFit, ServerTyped
<1>4. CASE call'[d] = Idle
  <2>1. CallFits(d)' /\ ~Asking(d)' /\ ~Issued(d)'  BY <1>4, IdleFits
  <2> QED  BY <2>1
<1>5. CASE call'[d] # Idle
  <2>1. /\ call'[d].kind = call[d].kind /\ call'[d].at = call[d].at
        /\ call'[d].bearer = call[d].bearer /\ call'[d].key = call[d].key
        /\ call'[d].inTime = call[d].inTime /\ call'[d].answer = call[d].answer
        /\ call'[d].issued = call[d].issued /\ call'[d].to \in {call[d].to, None}
    BY <1>1, <1>3, <1>5 DEF Calls
  <2>2. None \notin Refreshing  BY FlowsDiffer
  <2>3. /\ (Asking(d)' <=> Asking(d)) /\ (Issued(d)' <=> Issued(d))
        /\ AskedOf(d)' = AskedOf(d)
    BY <2>1 DEF Asking, Issued, AskedOf
  <2>4. Sound(AskedOf(d))' <=> Sound(AskedOf(d))  BY <1>2, <2>3 DEF Sound
  <2>5. CallFits(d)'
    BY <1>2, <1>3, <2>1, <2>2, <2>3, <2>4 DEF CallFits
  <2> QED  BY <2>3, <2>5
<1> QED  BY <1>4, <1>5

\* A step of the phone that sends nothing and keeps nothing new.
LEMMA SendsNothing ==
    ASSUME TokensFit, ServerTyped, ServerTyped', UNCHANGED server,
           UNCHANGED call \/ \E fs : call' = Abandoned(fs),
           Spendable' \subseteq Spendable, mem' # None => mem'.bearer \in Bearers
    PROVE  TokensFit'
<1>1. UNCHANGED <<chain, recoverable, receipts>> /\ Bearers' = Bearers
  BY DEF server, Bearers
<1>2. Rooted'  BY <1>1 DEF TokensFit, Rooted
<1>3. ASSUME NEW d \in Call
      PROVE  /\ CallFits(d)'
             /\ Asking(d)' => Asking(d) /\ AskedOf(d)' = AskedOf(d)
             /\ Issued(d)' => Issued(d)
  <2>1. CASE UNCHANGED call
    <3>1. (CallFits(d)' <=> CallFits(d)) /\ (Asking(d)' <=> Asking(d))
          /\ AskedOf(d)' = AskedOf(d) /\ (Issued(d)' <=> Issued(d))
      BY <2>1 DEF server, CallFits, Asking, AskedOf, Issued, Sound, Bearers
    <3> QED  BY <3>1 DEF TokensFit, CallsFit
  <2>2. CASE \E fs : call' = Abandoned(fs)
    <3>1. PICK fs : call' = Abandoned(fs)  BY <2>2
    <3> QED  BY <3>1, Dropped DEF TokensFit
  <2> QED  BY <2>1, <2>2
<1>4. CallsFit'  BY <1>3 DEF CallsFit
<1> QED  BY <1>1, <1>2, <1>3, <1>4, Steady

-----------------------------------------------------------------------------
(* The server's steps. *)

\* The answer to a call.
LEMMA Replied ==
    ASSUME ServerTyped, NEW c \in Call, NEW a, NEW b, Reply(c, a, b)
    PROVE  /\ \A d \in Call : d # c => call'[d] = call[d]
           /\ \/ call'[c] = Idle
              \/ /\ call'[c].kind = call[c].kind /\ call'[c].bearer = call[c].bearer
                 /\ call'[c].key = call[c].key /\ call'[c].to = call[c].to
                 /\ call'[c].at = "answered" /\ call'[c].answer = a /\ call'[c].issued = b
<1>1. call[c] \in Calls  BY DEF ServerTyped
<1> DEFINE r == [call[c] EXCEPT !.at = "answered", !.answer = a, !.issued = b]
<1>2. /\ r.kind = call[c].kind /\ r.bearer = call[c].bearer /\ r.key = call[c].key
      /\ r.to = call[c].to /\ r.at = "answered" /\ r.answer = a /\ r.issued = b
  BY <1>1 DEF Calls
<1>3. call' = [call EXCEPT ![c] = IF call[c].to = None THEN Idle ELSE r]
  BY DEF Reply, ServerTyped
<1> HIDE DEF r, Idle
<1> QED  BY <1>2, <1>3 DEF ServerTyped

\* The bearer that is issued.
LEMMA IssuedTo ==
    ASSUME ServerTyped, NEW c \in Call, NEW b, Issue(c, b)
    PROVE  /\ \A d \in Call : d # c => call'[d] = call[d]
           /\ \/ call'[c] = Idle
              \/ /\ call'[c].kind = call[c].kind /\ call'[c].bearer = call[c].bearer
                 /\ call'[c].key = call[c].key /\ call'[c].to = call[c].to
                 /\ call'[c].at = "answered" /\ call'[c].answer = "session"
                 /\ call'[c].issued = b
  BY Replied DEF Issue

\* An answer that tells what is so.
LEMMA ReplyFits ==
    ASSUME TokensFit, ServerTyped, ServerTyped', UNCHANGED <<chain, recoverable, device>>,
           Rooted', revoked # None => revoked' # None,
           NEW c \in Call, NEW a, NEW b \in Bearers, Reply(c, a, b),
           call[c].kind = "refresh" /\ a = "rejected" => revoked' # None,
           call[c].kind = "refresh" /\ a = "session"
               => b = chain /\ Asking(c) /\ ~Asks(AskedOf(c))
    PROVE  TokensFit'
<1>1. Bearers' = Bearers  BY DEF Bearers
<1>2. Spendable' = Spendable
  BY DEF device, store, memory, Spendable, Writes, MayRestore, Live
<1>3. ASSUME NEW d \in Call, d # c
      PROVE  /\ CallFits(d)'
             /\ Asking(d)' => Asking(d) /\ AskedOf(d)' = AskedOf(d)
             /\ Issued(d)' => Issued(d)
  <2>1. call'[d] = call[d]  BY <1>3, Replied
  <2>2. /\ (Asking(d)' <=> Asking(d)) /\ (Issued(d)' <=> Issued(d))
        /\ AskedOf(d)' = AskedOf(d)
    BY <2>1 DEF Asking, Issued, AskedOf
  <2>3. Sound(AskedOf(d))' <=> Sound(AskedOf(d))  BY <2>2 DEF Sound
  <2>4. CallFits(d)  BY DEF TokensFit, CallsFit
  <2>5. CallFits(d)'  BY <1>1, <2>1, <2>2, <2>3, <2>4 DEF CallFits
  <2> QED  BY <2>2, <2>5
<1>4. /\ CallFits(c)' /\ ~Asking(c)'
      /\ Issued(c)' => Asking(c) /\ ~Asks(AskedOf(c))
  <2>1. CASE call'[c] = Idle
    <3>1. CallFits(c)' /\ ~Asking(c)' /\ ~Issued(c)'  BY <2>1, IdleFits
    <3> QED  BY <3>1
  <2>2. CASE /\ call'[c].kind = call[c].kind /\ call'[c].bearer = call[c].bearer
             /\ call'[c].key = call[c].key /\ call'[c].to = call[c].to
             /\ call'[c].at = "answered" /\ call'[c].answer = a /\ call'[c].issued = b
    <3>1. ~Asking(c)'  BY <2>2 DEF Asking
    <3>2. Issued(c)' => b = chain /\ Asking(c) /\ ~Asks(AskedOf(c))
      BY <2>2 DEF Issued
    <3>3. CallFits(c)  BY DEF TokensFit, CallsFit
    <3>4. CallFits(c)'  BY <1>1, <2>2, <3>1, <3>2, <3>3 DEF CallFits
    <3> QED  BY <3>1, <3>2, <3>4
  <2> QED  BY <2>1, <2>2, Replied
<1>5. CallsFit'  BY <1>3, <1>4 DEF CallsFit
<1> QED  BY <1>2, <1>3, <1>4, <1>5, Steady

\* The rotation: what the phone keeps is the pair that was asked with.
LEMMA RotationFits ==
    ASSUME TokensFit, ServerTyped, ServerTyped', UNCHANGED device, NEW c \in Call, Asking(c),
           call[c].bearer = chain, chain' = Append(chain, call[c].key), recoverable' = TRUE,
           NEW new, new = chain', Issue(c, new), UNCHANGED <<revoked, receipts>>
    PROVE  TokensFit'
<1> DEFINE k == call[c].key
<1>1. /\ call[c] \in Calls /\ k \in 0..MaxKeys /\ k # 0 /\ k \in Keys
      /\ chain \in Bearings /\ chain' \in Bearings
  BY DEF ServerTyped, Calls, TokensFit, CallsFit, CallFits, Keys
<1>2. \A b \in Bearings : b \in Bearers => b \in Bearers'  BY <1>1, Grows
<1>3. chain' # chain
  <2>1. Len(Append(chain, k)) = Len(chain) + 1 /\ Len(chain) \in Nat
    BY <1>1 DEF Bearings
  <2> QED  BY <2>1
<1>4. AskedOf(c) = Vault(chain, k) /\ Asks(AskedOf(c))
  BY <1>1 DEF AskedOf, Asks, Vault
<1>5. /\ \A v \in Spendable : v = Vault(chain, k)
      /\ \A d \in Call : (Asking(d) => AskedOf(d) = Vault(chain, k)) /\ ~Issued(d)
  BY <1>4 DEF TokensFit, OneRequest
<1>6. Spendable' = Spendable
  BY DEF device, store, memory, Spendable, Writes, MayRestore, Live
<1>7. Vault(chain, k).bearer = chain /\ Vault(chain, k).key = k  BY DEF Vault
<1>8. /\ \A d \in Call : d # c => call'[d] = call[d]
      /\ \/ call'[c] = Idle
         \/ /\ call'[c].kind = call[c].kind /\ call'[c].bearer = call[c].bearer
            /\ call'[c].key = call[c].key /\ call'[c].to = call[c].to
            /\ call'[c].at = "answered" /\ call'[c].answer = "session"
            /\ call'[c].issued = new
  BY IssuedTo, Zenon
<1>9. chain' \in Bearers'
  <2>1. chain' \in {SubSeq(chain', 1, n) : n \in 0..Len(chain')}
    <3>1. chain' \in Seq(0..MaxKeys) /\ Len(chain') \in Nat  BY <1>1 DEF Bearings
    <3>2. SubSeq(chain', 1, Len(chain')) = chain' /\ Len(chain') \in 0..Len(chain')
      BY <3>1, SubSeqFull
    <3> QED  BY <3>2, Zenon
  <2> QED  BY <2>1 DEF Bearers
<1> HIDE DEF k
<1>10. ASSUME NEW d \in Call, d # c
       PROVE  CallFits(d)' /\ ~Issued(d)' /\ (Asking(d)' => AskedOf(d)' = Vault(chain, k))
  <2>1. call'[d] = call[d]  BY <1>8, <1>10
  <2>2. /\ (Asking(d)' <=> Asking(d)) /\ ~Issued(d)' /\ AskedOf(d)' = AskedOf(d)
    BY <1>5, <2>1 DEF Asking, Issued, AskedOf
  <2>3. CallFits(d) /\ call[d] \in Calls  BY DEF TokensFit, CallsFit, ServerTyped
  <2>4. call[d].bearer \in Bearers' /\ call[d].issued \in Bearers'
    BY <1>2, <2>3 DEF CallFits, Calls
  <2>5. Asking(d) => AskedOf(d) = Vault(chain, k) /\ call[d].bearer = chain
                     /\ call[d].key = k /\ Sound(AskedOf(d))'
    <3>1. Asking(d) => AskedOf(d) = Vault(chain, k)  BY <1>5
    <3>2. Asking(d) => call[d].bearer = chain /\ call[d].key = k
      BY <1>7, <3>1 DEF AskedOf, Vault
    <3>3. chain' = Append(chain, k)  BY DEF k
    <3> QED  BY <2>2, <3>1, <3>2, <3>3, <1>7 DEF Sound
  <2>6. call[d].at # "retired"
    BY <2>3, <2>5 DEF CallFits, Asking
  <2>7. CallFits(d)'
    BY <1>1, <2>1, <2>2, <2>3, <2>4, <2>5, <2>6 DEF CallFits
  <2> QED  BY <2>2, <2>5, <2>7
<1>11. CallFits(c)' /\ ~Asking(c)'
  <2>1. CASE call'[c] = Idle
    <3>1. CallFits(c)' /\ ~Asking(c)'  BY <2>1, IdleFits
    <3> QED  BY <3>1
  <2>2. CASE /\ call'[c].kind = call[c].kind /\ call'[c].bearer = call[c].bearer
             /\ call'[c].key = call[c].key /\ call'[c].to = call[c].to
             /\ call'[c].at = "answered" /\ call'[c].answer = "session"
             /\ call'[c].issued = chain'
    <3>1. ~Asking(c)'  BY <2>2 DEF Asking
    <3>2. CallFits(c)  BY DEF TokensFit, CallsFit
    <3>3. call[c].bearer \in Bearers'  BY <1>1, <1>2, <3>2 DEF CallFits
    <3>4. CallFits(c)'  BY <1>9, <2>2, <3>1, <3>2, <3>3 DEF CallFits
    <3> QED  BY <3>1, <3>4
  <2> QED  BY <1>8, <2>1, <2>2
<1>12. CallsFit'  BY <1>10, <1>11 DEF CallsFit
<1>13. SpendableSound'
  <2>1. \A v \in Spendable' : chain' = Append(v.bearer, v.key)
    BY <1>5, <1>6, <1>7 DEF k
  <2> QED  BY <2>1 DEF SpendableSound, Sound
<1>14. OneRequest'
  <2>1. \A d \in Call : Asking(d)' => ~Asks(AskedOf(d))'
    BY <1>3, <1>7, <1>10, <1>11 DEF Asks
  <2> QED  BY <2>1 DEF OneRequest
<1>15. NoneAhead'
  <2>1. \A v \in Spendable' : ~Asks(v)'  BY <1>3, <1>5, <1>6, <1>7 DEF Asks
  <2> QED  BY <2>1 DEF NoneAhead
<1>16. Rooted'
  <2>1. chain' \in Seq(Keys)  BY <1>1 DEF TokensFit, Rooted, k
  <2>2. \A r \in receipts' : r.bearer \in Bearers' /\ r.key \in Keys
    <3>1. \A b \in Bearers : b \in Bearings
      <4>1. \A n \in 0..Len(chain) : SubSeq(chain, 1, n) \in Bearings
        BY <1>1, Starts DEF Bearings
      <4> QED  BY <4>1 DEF Bearers
    <3> QED  BY <1>2, <3>1 DEF TokensFit, Rooted
  <2>3. mem' # None => mem'.bearer \in Bearers'
    <3>1. mem' = mem  BY DEF device, memory
    <3>2. \A b \in Bearers : b \in Bearings
      <4>1. \A n \in 0..Len(chain) : SubSeq(chain, 1, n) \in Bearings
        BY <1>1, Starts DEF Bearings
      <4> QED  BY <4>1 DEF Bearers
    <3> QED  BY <1>2, <3>1, <3>2 DEF TokensFit, Rooted
  <2> QED  BY <2>1, <2>2, <2>3 DEF Rooted
<1>17. Recoverable'  BY DEF Recoverable
<1> QED  BY <1>12, <1>13, <1>14, <1>15, <1>16, <1>17 DEF TokensFit

\* A call the server looks at: what it was, and whether it is new.
LEMMA Looked ==
    ASSUME TokensFit, ServerTyped, NEW c \in Call
    PROVE  /\ call[c] \in Calls /\ CallFits(c) /\ chain \in Bearings
           /\ call[c].bearer \in Bearings /\ call[c].key \in 0..MaxKeys
           /\ call[c].bearer \in Bearers /\ chain \in Bearers /\ <<>> \in Bearers
           /\ AskedOf(c).bearer = call[c].bearer /\ AskedOf(c).key = call[c].key
           /\ Asking(c) =>
                /\ call[c].key # 0
                /\ IsRetired(call[c].bearer) => call[c].bearer # chain
                /\ RetiredBy(call[c].bearer, call[c].key) => call[c].bearer # chain
                /\ call[c].bearer # chain =>
                     /\ RetiredBy(call[c].bearer, call[c].key)
                     /\ SuccessorCurrent(call[c].bearer)
                     /\ chain = Append(call[c].bearer, call[c].key)
                     /\ ~Asks(AskedOf(c))
<1>1. call[c] \in Calls /\ CallFits(c) /\ chain \in Bearings
  BY DEF TokensFit, CallsFit, ServerTyped
<1>2. call[c].bearer \in Bearings /\ call[c].key \in 0..MaxKeys  BY <1>1 DEF Calls
<1>3. call[c].bearer \in Bearers /\ chain \in Bearers /\ <<>> \in Bearers
  BY <1>1, <1>2, Prefixes DEF CallFits
<1>4. AskedOf(c).bearer = call[c].bearer /\ AskedOf(c).key = call[c].key
  BY DEF AskedOf, Vault
<1>5. ASSUME Asking(c)
      PROVE  /\ call[c].key # 0
             /\ call[c].bearer = chain \/ chain = Append(call[c].bearer, call[c].key)
  BY <1>1, <1>4, <1>5 DEF CallFits, Sound
<1>6. /\ IsRetired(call[c].bearer) => call[c].bearer # chain
      /\ RetiredBy(call[c].bearer, call[c].key) => call[c].bearer # chain
      /\ chain = Append(call[c].bearer, call[c].key) =>
           /\ RetiredBy(call[c].bearer, call[c].key)
           /\ SuccessorCurrent(call[c].bearer)
  BY <1>1, <1>2, Recognised
<1>7. call[c].bearer # chain => ~Asks(AskedOf(c))  BY <1>4 DEF Asks
<1> QED  BY <1>1, <1>2, <1>3, <1>4, <1>5, <1>6, <1>7

\* An inspection that lets a call go on.
LEMMA GoesOn ==
    ASSUME TokensFit, ServerTyped, ServerTyped', UNCHANGED <<server, device>>,
           NEW c \in Call, NEW r, call' = [call EXCEPT ![c] = r],
           r.kind = call[c].kind /\ r.bearer = call[c].bearer /\ r.key = call[c].key,
           r.answer = call[c].answer /\ r.issued = call[c].issued /\ r.to = call[c].to,
           r.at \in {"verified", "retired"},
           call[c].kind = "refresh" => Asking(c),
           r.at = "retired"
               => call[c].kind = "refresh" /\ call[c].bearer # chain /\ r.inTime
    PROVE  TokensFit'
<1>1. UNCHANGED <<chain, recoverable, revoked, receipts>> /\ Bearers' = Bearers
  BY DEF server, Bearers
<1>2. Spendable' = Spendable
  BY DEF device, store, memory, Spendable, Writes, MayRestore, Live
<1>3. Rooted'  BY <1>1 DEF TokensFit, Rooted, device, memory
<1>4. call'[c] = r /\ \A d \in Call : d # c => call'[d] = call[d]  BY DEF ServerTyped
<1>5. ASSUME NEW d \in Call
      PROVE  /\ CallFits(d)'
             /\ Asking(d)' => Asking(d) /\ AskedOf(d)' = AskedOf(d)
             /\ Issued(d)' => Issued(d)
  <2>1. CallFits(d)  BY DEF TokensFit, CallsFit
  <2>2. AskedOf(d)' = AskedOf(d)  BY <1>4 DEF AskedOf
  <2>3. Sound(AskedOf(d))' <=> Sound(AskedOf(d))  BY <1>1, <2>2 DEF Sound
  <2>4. (Asking(d)' => Asking(d)) /\ (Issued(d)' => Issued(d))
    BY <1>4 DEF Asking, Issued
  <2>5. CASE d # c
    <3>1. (Asking(d)' <=> Asking(d)) /\ (Issued(d)' <=> Issued(d))
      BY <1>4, <2>5 DEF Asking, Issued
    <3>2. CallFits(d)'  BY <1>1, <1>4, <2>1, <2>3, <2>5, <3>1 DEF CallFits
    <3> QED  BY <2>2, <2>4, <3>2
  <2>6. CASE d = c
    <3>1. ~Issued(d)'  BY <1>4, <2>6 DEF Issued
    <3>2. CallFits(d)'  BY <1>1, <1>4, <2>1, <2>3, <2>4, <2>6, <3>1 DEF CallFits
    <3> QED  BY <2>2, <2>4, <3>2
  <2> QED  BY <2>5, <2>6
<1>6. CallsFit'  BY <1>5 DEF CallsFit
<1> QED  BY <1>1, <1>2, <1>3, <1>5, <1>6, Steady

\* The server takes no repetition of a patient phone for a replay.
LEMMA ServesPatiently ==
    ASSUME Patient, TokensFit, ServerTyped, NeverTakenForReplay, ServerNext, UNCHANGED device
    PROVE  TokensFit' /\ NeverTakenForReplay'
<1>1. ServerTyped' /\ (revoked # None => UNCHANGED <<chain, revoked>>)
  BY ServerTypedKept
<1>2. chain' = chain => Bearers' = Bearers  BY DEF Bearers
<1>3. chain' = chain /\ receipts' = receipts => Rooted'
  BY <1>2 DEF TokensFit, Rooted, device, memory
<1>4. revoked # None => revoked' # None  BY <1>1
<1>5. ASSUME NEW c \in Call, Serve(c)  PROVE TokensFit' /\ NeverTakenForReplay'
  <2> DEFINE b == call[c].bearer  k == call[c].key
  <2>1. /\ call[c] \in Calls /\ CallFits(c) /\ chain \in Bearings
        /\ b \in Bearings /\ k \in 0..MaxKeys
        /\ b \in Bearers /\ chain \in Bearers /\ <<>> \in Bearers
        /\ Asking(c) => /\ k # 0 /\ (IsRetired(b) => b # chain)
                        /\ RetiredBy(b, k) => b # chain
                        /\ b # chain => /\ RetiredBy(b, k) /\ SuccessorCurrent(b)
                                        /\ chain = Append(b, k) /\ ~Asks(AskedOf(c))
    BY Looked
  <2>2. ASSUME UNCHANGED server, NEW a \in {"rejected", "unavailable", "done"},
               Answer(c, a),
               call[c].kind = "refresh" /\ a = "rejected" => revoked # None
        PROVE  TokensFit' /\ NeverTakenForReplay'
    <3>1. UNCHANGED <<chain, recoverable, revoked, receipts>>  BY <2>2 DEF server
    <3>2. Reply(c, a, <<>>)  BY <2>2 DEF Answer
    <3>3. TokensFit'  BY <1>1, <1>3, <2>1, <2>2, <3>1, <3>2, ReplyFits
    <3> QED  BY <3>1, <3>3 DEF NeverTakenForReplay
  <2>3. CASE InspectRefresh(c)
    <3>1. Asking(c) /\ call[c].kind = "refresh" /\ UNCHANGED server
      BY <2>3 DEF InspectRefresh, Asking
    <3>2. CASE Advance(c, "verified")
      <4> DEFINE r == [call[c] EXCEPT !.at = "verified"]
      <4>1. /\ r.kind = call[c].kind /\ r.bearer = call[c].bearer /\ r.key = call[c].key
            /\ r.answer = call[c].answer /\ r.issued = call[c].issued /\ r.to = call[c].to
            /\ r.at = "verified"
        BY <2>1 DEF Calls
      <4>2. call' = [call EXCEPT ![c] = r]  BY <3>2 DEF Advance
      <4> HIDE DEF r
      <4>3. TokensFit'  BY <1>1, <3>1, <4>1, <4>2, GoesOn DEF server
      <4> QED  BY <3>1, <4>3 DEF server, NeverTakenForReplay
    <3>3. CASE IsRetired(b) /\ call' = [call EXCEPT ![c].at = "retired",
                                                    ![c].inTime = recoverable]
      <4> DEFINE r == [[call[c] EXCEPT !.at = "retired"] EXCEPT !.inTime = recoverable]
      <4>1. /\ r.kind = call[c].kind /\ r.bearer = call[c].bearer /\ r.key = call[c].key
            /\ r.answer = call[c].answer /\ r.issued = call[c].issued /\ r.to = call[c].to
            /\ r.at = "retired" /\ r.inTime = recoverable
        BY <2>1 DEF Calls
      <4>2. call' = [call EXCEPT ![c] = r]  BY <3>3 DEF ServerTyped
      <4>3. recoverable
        <5>1. chain # <<>>  BY <2>1, <3>3 DEF IsRetired, Bearings
        <5> QED  BY <5>1 DEF TokensFit, Recoverable
      <4>4. b # chain  BY <2>1, <3>1, <3>3
      <4> HIDE DEF r
      <4>5. TokensFit'  BY <1>1, <3>1, <4>1, <4>2, <4>3, <4>4, GoesOn DEF server
      <4> QED  BY <3>1, <4>5 DEF server, NeverTakenForReplay
    <3>4. CASE Answer(c, "rejected") /\ revoked # None  BY <2>2, <3>1, <3>4
    <3> QED  BY <2>3, <3>2, <3>3, <3>4, Zenon DEF InspectRefresh
  <2>4. CASE Rotate(c)
    <3>1. Asking(c) /\ call[c].kind = "refresh"  BY <2>4 DEF Rotate, Asking
    <3>2. CASE /\ Repetition(b, k) /\ UNCHANGED server
               /\ IF SuccessorCurrent(b) /\ revoked = None
                  THEN Issue(c, Append(b, k)) ELSE Answer(c, "rejected")
      <4>1. b # chain /\ SuccessorCurrent(b) /\ chain = Append(b, k) /\ ~Asks(AskedOf(c))
        BY <2>1, <3>1, <3>2 DEF Repetition
      <4>2. CASE Issue(c, Append(b, k))
        <5>1. Reply(c, "session", chain)  BY <4>1, <4>2 DEF Issue
        <5>2. UNCHANGED <<chain, recoverable, revoked, receipts>>  BY <3>2 DEF server
        <5>3. TokensFit'  BY <1>1, <1>3, <2>1, <3>1, <4>1, <5>1, <5>2, ReplyFits
        <5> QED  BY <5>2, <5>3 DEF NeverTakenForReplay
      <4>3. CASE Answer(c, "rejected") /\ revoked # None  BY <2>2, <3>2, <4>3
      <4> QED  BY <3>2, <4>1, <4>2, <4>3
    <3>3. CASE /\ ~Repetition(b, k) /\ RevokedSince(c)
               /\ Answer(c, "rejected") /\ UNCHANGED server
      BY <2>2, <3>3 DEF RevokedSince
    <3>4. CASE ~Repetition(b, k) /\ IsRetired(b)
      BY <2>1, <3>1, <3>4 DEF Repetition
    <3>5. CASE /\ IsCurrent(b) /\ chain' = Append(chain, k) /\ recoverable' = TRUE
               /\ Issue(c, chain') /\ UNCHANGED <<revoked, receipts>>
      <4>1. b = chain  BY <3>5 DEF IsCurrent
      <4>2. PICK new : new = chain' /\ Issue(c, new)  BY <3>5
      <4>3. TokensFit'
        BY <1>1, <3>1, <3>5, <4>1, <4>2, RotationFits
      <4> QED  BY <3>5, <4>3 DEF NeverTakenForReplay
    <3> QED  BY <2>4, <3>2, <3>3, <3>4, <3>5, Zenon DEF Rotate
  <2>5. CASE Retry(c)
    <3>1. call[c].at = "retired" /\ UNCHANGED <<chain, recoverable, receipts>>
      BY <2>5 DEF Retry
    <3>2. call[c].kind = "refresh" /\ b # chain /\ call[c].inTime /\ Asking(c)
      BY <2>1, <3>1 DEF CallFits, Asking
    <3>3. Recovered(c) /\ ~Asks(AskedOf(c))  BY <2>1, <3>2 DEF Recovered
    <3>4. /\ UNCHANGED revoked
          /\ IF revoked = None THEN Issue(c, chain) ELSE Answer(c, "rejected")
      BY <2>5, <3>3 DEF Retry
    <3>5. CASE Issue(c, chain)
      <4>1. Reply(c, "session", chain)  BY <3>5 DEF Issue
      <4>2. TokensFit'  BY <1>1, <1>3, <2>1, <3>1, <3>2, <3>3, <3>4, <4>1, ReplyFits
      <4> QED  BY <3>4, <4>2 DEF NeverTakenForReplay
    <3>6. CASE Answer(c, "rejected") /\ revoked # None
      BY <2>2, <3>1, <3>4, <3>6 DEF server
    <3> QED  BY <3>4, <3>5, <3>6
  <2>6. CASE InspectRead(c)  BY <2>2, <2>6 DEF InspectRead
  <2>7. CASE InspectRevoke(c)
    <3>1. call[c].kind = "revoke" /\ UNCHANGED server  BY <2>7 DEF InspectRevoke
    <3>2. CASE Advance(c, "verified")
      <4> DEFINE r == [call[c] EXCEPT !.at = "verified"]
      <4>1. /\ r.kind = call[c].kind /\ r.bearer = call[c].bearer /\ r.key = call[c].key
            /\ r.answer = call[c].answer /\ r.issued = call[c].issued /\ r.to = call[c].to
            /\ r.at = "verified"
        BY <2>1 DEF Calls
      <4>2. call' = [call EXCEPT ![c] = r]  BY <3>2 DEF Advance
      <4> HIDE DEF r
      <4>3. TokensFit'  BY <1>1, <3>1, <4>1, <4>2, GoesOn DEF server
      <4> QED  BY <3>1, <4>3 DEF server, NeverTakenForReplay
    <3> QED  BY <2>2, <2>7, <3>1, <3>2 DEF InspectRevoke
  <2>8. CASE Revoke(c)
    <3>1. call[c].kind = "revoke" /\ UNCHANGED <<chain, recoverable>>  BY <2>8 DEF Revoke
    <3>2. /\ revoked' \in {revoked, "human"}
          /\ receipts' = receipts \/ receipts' = receipts \cup {Receipt(c)}
          /\ Reply(c, "rejected", <<>>) \/ Reply(c, "done", <<>>)
      BY <2>8 DEF Revoke, Answer
    <3>3. Rooted'
      <4>1. Receipt(c).bearer = b /\ Receipt(c).key = k /\ k \in Keys
        BY <2>1, <3>1 DEF Receipt, CallFits, Keys
      <4>2. \A r \in receipts' : r.bearer \in Bearers' /\ r.key \in Keys
        BY <1>2, <2>1, <3>1, <3>2, <4>1 DEF TokensFit, Rooted
      <4> QED  BY <1>2, <3>1, <4>2 DEF TokensFit, Rooted, device, memory
    <3>4. TokensFit'  BY <1>1, <1>4, <2>1, <3>1, <3>2, <3>3, ReplyFits
    <3> QED  BY <3>2, <3>4 DEF NeverTakenForReplay
  <2>9. CASE Unavailable(c)  BY <2>2, <2>9 DEF Unavailable
  <2> QED  BY <1>5, <2>3, <2>4, <2>5, <2>6, <2>7, <2>8, <2>9 DEF Serve
<1>6. CASE RevokeElsewhere
  <2>1. /\ UNCHANGED <<chain, recoverable, receipts, call>> /\ revoked' = "human"
        /\ revoked' # None
    BY <1>6, RotationAssumption DEF RevokeElsewhere
  <2>2. Spendable' = Spendable
    BY DEF device, store, memory, Spendable, Writes, MayRestore, Live
  <2>3. ASSUME NEW d \in Call
        PROVE  /\ CallFits(d)' /\ (Asking(d)' <=> Asking(d)) /\ AskedOf(d)' = AskedOf(d)
               /\ (Issued(d)' <=> Issued(d))
    <3>1. /\ (Asking(d)' <=> Asking(d)) /\ AskedOf(d)' = AskedOf(d)
          /\ (Issued(d)' <=> Issued(d))
      BY <2>1 DEF Asking, AskedOf, Issued
    <3>2. CallFits(d)  BY DEF TokensFit, CallsFit
    <3>3. CallFits(d)'  BY <1>2, <2>1, <3>1, <3>2 DEF CallFits, Sound
    <3> QED  BY <3>1, <3>3
  <2>4. CallsFit'  BY <2>3 DEF CallsFit
  <2>5. TokensFit'  BY <1>3, <2>1, <2>2, <2>3, <2>4, Steady
  <2> QED  BY <2>1, <2>5 DEF NeverTakenForReplay
<1>7. CASE WindowCloses  BY <1>7 DEF WindowCloses, Patient
<1> QED  BY <1>5, <1>6, <1>7 DEF ServerNext

-----------------------------------------------------------------------------
(* The phone's flows and the queue of its store. *)

\* What may be kept: all of it is a vault.
LEMMA Members ==
    ASSUME DeviceTyped, QueueFits, Shown
    PROVE  /\ disk # None => disk \in Spendable
           /\ mem # None /\ flow["signout"].at # "sent" => mem \in Spendable
           /\ MayRestore => flow["signout"].vault \in Spendable
           /\ \A i \in DOMAIN queue : queue[i].kind = "write" => queue[i].vault \in Spendable
           /\ Spendable \subseteq Vaults
<1>1. \A i \in DOMAIN queue : queue[i].kind = "write" =>
         queue[i].vault \in Vaults /\ queue[i].vault # None
  BY NoVault DEF QueueFits
<1>2. MayRestore => flow["signout"].vault \in Vaults /\ flow["signout"].vault # None
  BY NoVault DEF MayRestore, Shown
<1>3. mem \in MaybeVault /\ disk \in MaybeVault  BY DEF DeviceTyped
<1> QED  BY <1>1, <1>2, <1>3 DEF Spendable, Writes, MaybeVault

\* Nothing is kept that was not.
LEMMA KeepsNoMore ==
    ASSUME DeviceTyped, QueueFits, Shown,
           \A i \in DOMAIN queue' : queue'[i].kind = "write" =>
               \E j \in DOMAIN queue : queue[j].kind = "write"
                                       /\ queue[j].vault = queue'[i].vault,
           disk' \in Spendable \cup {None, disk},
           flow'["signout"].at # "sent" => mem' \in Spendable \cup {None},
           MayRestore' => flow'["signout"].vault \in Spendable
    PROVE  Spendable' \subseteq Spendable
<1>1. \A i \in DOMAIN queue' : queue'[i].kind = "write" => queue'[i].vault \in Spendable
  BY Members
<1>2. disk' # None => disk' \in Spendable  BY Members
<1> QED  BY <1>1, <1>2 DEF Spendable, Writes

\* What is sound holds a bearer of the session.
LEMMA SoundBearers ==
    ASSUME ServerTyped, NEW v \in Vaults, Sound(v)
    PROVE  v.bearer \in Bearers
<1>1. v.bearer \in Bearings /\ v.key \in 0..MaxKeys  BY DEF Vaults
<1>2. chain \in Bearings  BY DEF ServerTyped
<1> QED  BY <1>1, <1>2, Recognised, Prefixes DEF Sound

\* A flow that waits for something else than the store has nothing queued.
LEMMA Unqueued ==
    ASSUME DeviceTyped, QueueFits, NEW f \in Flow, flow[f].at \in {"idle", "auth", "sent"}
    PROVE  \A i \in DOMAIN queue : queue[i].flow # f
<1>1. \A i \in DOMAIN queue : queue[i] \in Ops  BY DEF DeviceTyped
<1> QED  BY <1>1 DEF QueueFits, Ops

\* Flows whose operations wait go on waiting.
LEMMA WaitsOn ==
    ASSUME DeviceTyped, QueueFits, LeaderLast, UNCHANGED chain,
           DOMAIN queue' = DOMAIN queue,
           \A i \in DOMAIN queue :
              /\ queue'[i].kind = queue[i].kind /\ queue'[i].flow = queue[i].flow
              /\ queue'[i].vault = queue[i].vault,
           NEW own \in Flow, flow[own].at \in {"idle", "auth", "sent"},
           \A g \in Flow \ {own} : /\ flow'[g].at = flow[g].at
                                   /\ flow'[g].vault = flow[g].vault
                                   /\ Live(g)' => Live(g)
    PROVE  QueueFits' /\ LeaderLast'
<1>0. \A i \in DOMAIN queue : queue[i].flow \in Flow \ {own}
  <2>1. \A i \in DOMAIN queue : queue[i] \in Ops  BY DEF DeviceTyped
  <2> QED  BY <2>1, Unqueued DEF Ops
<1>1. QueueFits'
  <2>1. SUFFICES ASSUME NEW i \in DOMAIN queue
        PROVE  /\ queue'[i].kind = "clear" =>
                    flow'[queue'[i].flow].at = "clearing" /\ queue'[i].vault = None
               /\ queue'[i].kind = "write" =>
                    /\ queue'[i].vault \in Vaults
                    /\ \/ /\ flow'[queue'[i].flow].at = "writing"
                          /\ queue'[i].vault = flow'[queue'[i].flow].vault
                          /\ queue'[i].vault.key # 0
                       \/ flow'[queue'[i].flow].at = "storing" /\ queue'[i].vault.key = 0
               /\ \A j \in DOMAIN queue : queue'[j].flow = queue'[i].flow => i = j
    BY DEF QueueFits
  <2> QED  BY <1>0 DEF QueueFits
<1>2. LeaderLast'
  <2>1. Writes' = Writes  BY DEF Writes
  <2>2. \A i \in Writes : i \in DOMAIN queue  BY DEF Writes
  <2>3. \A i \in Writes : Leads(i)' => Leads(i)  BY <1>0, <2>2 DEF Leads, Live
  <2>4. ASSUME NEW i \in Writes, NEW j \in Writes, i < j, Leads(i)'
        PROVE  flow'[queue'[j].flow].at # "writing" /\ ~Asks(queue[i].vault)'
    <3>1. flow[queue[j].flow].at # "writing" /\ ~Asks(queue[i].vault)
      BY <2>3, <2>4 DEF LeaderLast
    <3>2. queue'[i].vault = queue[i].vault /\ flow'[queue'[j].flow].at # "writing"
      BY <1>0, <2>2, <3>1
    <3> QED  BY <3>1, <3>2 DEF Asks
  <2> QED  BY <2>1, <2>4 DEF LeaderLast
<1> QED  BY <1>1, <1>2

\* The oldest operation leaves, and its flow goes on.
LEMMA Leaves ==
    ASSUME DeviceTyped, InTurn, QueueFits, LeaderLast, UNCHANGED chain,
           queue # <<>>, queue' = Tail(queue),
           \A g \in Flow : g # Head(queue).flow => flow'[g] = flow[g]
    PROVE  /\ QueueFits' /\ LeaderLast'
           /\ \A i \in DOMAIN queue' : \E j \in DOMAIN queue : queue'[i] = queue[j]
           /\ \A i \in DOMAIN queue' : queue'[i].flow # Head(queue).flow
<1>1. /\ 1 \in DOMAIN queue /\ Head(queue) = queue[1]
      /\ \A i \in DOMAIN queue' : i + 1 \in DOMAIN queue /\ queue'[i] = queue[i + 1]
  BY Popped
<1>2. DOMAIN queue \subseteq Nat /\ DOMAIN queue' \subseteq Nat
  BY DEF DeviceTyped
<1>3. \A i \in DOMAIN queue' : i + 1 # 1
  <2>1. \A i \in DOMAIN queue' : i # 0
    BY <1>1 DEF DeviceTyped
  <2> QED  BY <1>2, <2>1
<1>4. \A i \in DOMAIN queue' : queue[i + 1].flow # queue[1].flow /\ queue[i + 1].flow \in Flow
  <2>1. \A i \in DOMAIN queue : queue[i] \in Ops  BY DEF DeviceTyped
  <2> QED  BY <1>1, <1>3, <2>1 DEF QueueFits, Ops
<1>5. \A i \in DOMAIN queue' : flow'[queue[i + 1].flow] = flow[queue[i + 1].flow]
  BY <1>1, <1>4
<1>6. QueueFits'
  <2>1. SUFFICES ASSUME NEW i \in DOMAIN queue'
        PROVE  /\ queue'[i].kind = "clear" =>
                    flow'[queue'[i].flow].at = "clearing" /\ queue'[i].vault = None
               /\ queue'[i].kind = "write" =>
                    /\ queue'[i].vault \in Vaults
                    /\ \/ /\ flow'[queue'[i].flow].at = "writing"
                          /\ queue'[i].vault = flow'[queue'[i].flow].vault
                          /\ queue'[i].vault.key # 0
                       \/ flow'[queue'[i].flow].at = "storing" /\ queue'[i].vault.key = 0
               /\ \A j \in DOMAIN queue' : queue'[j].flow = queue'[i].flow => i = j
    BY DEF QueueFits
  <2>2. \A j \in DOMAIN queue' : queue'[j].flow = queue'[i].flow => i = j
    <3>1. \A j \in DOMAIN queue' : queue[j + 1].flow = queue[i + 1].flow => i + 1 = j + 1
      BY <1>1 DEF QueueFits
    <3> QED  BY <1>1, <1>2, <3>1
  <2> QED  BY <1>1, <1>5, <2>2 DEF QueueFits
<1>7. LeaderLast'
  <2>1. SUFFICES ASSUME NEW i \in Writes', NEW j \in Writes', i < j, Leads(i)'
                 PROVE  flow'[queue'[j].flow].at # "writing" /\ ~Asks(queue[i].vault)'
    BY DEF LeaderLast
  <2>2. i \in DOMAIN queue' /\ j \in DOMAIN queue'  BY DEF Writes
  <2>3. i + 1 \in Writes /\ j + 1 \in Writes /\ i + 1 < j + 1
    BY <1>1, <1>2, <2>1, <2>2 DEF Writes
  <2>4. Leads(i + 1)  BY <1>1, <1>5, <2>1, <2>2 DEF Leads, Live
  <2>5. flow[queue[j + 1].flow].at # "writing" /\ ~Asks(queue[i + 1].vault)
    BY <2>3, <2>4 DEF LeaderLast
  <2> QED  BY <1>1, <1>5, <2>2, <2>5 DEF Asks
<1> QED  BY <1>1, <1>4, <1>6, <1>7

\* An operation joins the queue that its flow waits for.
LEMMA Joins ==
    ASSUME DeviceTyped, QueueFits, LeaderLast, UNCHANGED chain,
           NEW q \in Seq(Ops), Len(q) = Len(queue), NEW op \in Ops, queue' = Append(q, op),
           \A i \in DOMAIN queue :
              /\ q[i].kind = queue[i].kind /\ q[i].flow = queue[i].flow
              /\ q[i].vault = queue[i].vault,
           flow[op.flow].at \in {"idle", "auth", "sent"},
           \A g \in Flow \ {op.flow} : /\ flow'[g].at = flow[g].at
                                       /\ flow'[g].vault = flow[g].vault
                                       /\ Live(g)' => Live(g),
           op.kind = "clear" => flow'[op.flow].at = "clearing" /\ op.vault = None,
           op.kind = "write" =>
              /\ op.vault \in Vaults
              /\ \/ /\ flow'[op.flow].at = "writing"
                    /\ op.vault = flow'[op.flow].vault /\ op.vault.key # 0
                 \/ flow'[op.flow].at = "storing" /\ op.vault.key = 0,
           op.kind = "write" =>
              \A i \in Writes : Live(queue[i].flow) =>
                 flow'[op.flow].at # "writing" /\ ~Asks(queue[i].vault)
    PROVE  /\ QueueFits' /\ LeaderLast'
           /\ \A i \in DOMAIN queue' : \/ queue'[i] = op
                                       \/ /\ i \in DOMAIN queue
                                          /\ queue'[i].kind = queue[i].kind
                                          /\ queue'[i].vault = queue[i].vault
                                          /\ queue'[i].flow = queue[i].flow
<1> DEFINE n == Len(queue) + 1
<1>0. \A i \in DOMAIN queue : queue[i].flow \in Flow \ {op.flow}
  <2>1. \A i \in DOMAIN queue : queue[i] \in Ops  BY DEF DeviceTyped
  <2>2. op.flow \in Flow /\ \A i \in DOMAIN queue : queue[i].flow \in Flow
    BY <2>1 DEF Ops
  <2> QED  BY <2>2, Unqueued
<1>1. /\ Len(queue) \in Nat /\ DOMAIN queue = 1..Len(queue) /\ DOMAIN queue' = 1..n
      /\ queue'[n] = op /\ \A i \in DOMAIN queue : queue'[i] = q[i]
  BY DEF DeviceTyped
<1>2. \A i \in DOMAIN queue' : i = n \/ i \in DOMAIN queue  BY <1>1
<1>3. n \notin DOMAIN queue /\ \A i \in DOMAIN queue : i \in Nat /\ i < n  BY <1>1
<1> HIDE DEF n
<1>4. \A i \in DOMAIN queue :
         /\ queue'[i].kind = queue[i].kind /\ queue'[i].flow = queue[i].flow
         /\ queue'[i].vault = queue[i].vault
  BY <1>1
<1>5. QueueFits'
  <2>1. SUFFICES ASSUME NEW i \in DOMAIN queue'
        PROVE  /\ queue'[i].kind = "clear" =>
                    flow'[queue'[i].flow].at = "clearing" /\ queue'[i].vault = None
               /\ queue'[i].kind = "write" =>
                    /\ queue'[i].vault \in Vaults
                    /\ \/ /\ flow'[queue'[i].flow].at = "writing"
                          /\ queue'[i].vault = flow'[queue'[i].flow].vault
                          /\ queue'[i].vault.key # 0
                       \/ flow'[queue'[i].flow].at = "storing" /\ queue'[i].vault.key = 0
               /\ \A j \in DOMAIN queue' : queue'[j].flow = queue'[i].flow => i = j
    BY DEF QueueFits
  <2>2. CASE i = n
    <3>1. queue'[i] = op  BY <1>1, <2>2
    <3>2. \A j \in DOMAIN queue' : queue'[j].flow = queue'[i].flow => i = j
      BY <1>0, <1>2, <1>4, <2>2, <3>1
    <3> QED  BY <3>1, <3>2
  <2>3. CASE i \in DOMAIN queue
    <3>1. \A j \in DOMAIN queue' : queue'[j].flow = queue'[i].flow => i = j
      <4>1. queue'[n].flow # queue'[i].flow  BY <1>0, <1>1, <1>4, <2>3
      <4>2. \A j \in DOMAIN queue : queue[j].flow = queue[i].flow => i = j
        BY <2>3 DEF QueueFits
      <4> QED  BY <1>2, <1>4, <2>3, <4>1, <4>2
    <3>2. /\ queue[i].kind = "clear" =>
               flow'[queue[i].flow].at = "clearing" /\ queue[i].vault = None
          /\ queue[i].kind = "write" =>
               /\ queue[i].vault \in Vaults
               /\ \/ /\ flow'[queue[i].flow].at = "writing"
                     /\ queue[i].vault = flow'[queue[i].flow].vault
                     /\ queue[i].vault.key # 0
                  \/ flow'[queue[i].flow].at = "storing" /\ queue[i].vault.key = 0
      BY <1>0, <2>3 DEF QueueFits
    <3> QED  BY <1>4, <2>3, <3>1, <3>2
  <2> QED  BY <1>2, <2>2, <2>3
<1>6. LeaderLast'
  <2>1. SUFFICES ASSUME NEW i \in Writes', NEW j \in Writes', i < j, Leads(i)'
                 PROVE  flow'[queue'[j].flow].at # "writing" /\ ~Asks(queue[i].vault)'
    BY DEF LeaderLast
  <2>2. i \in DOMAIN queue' /\ j \in DOMAIN queue' /\ queue'[i].kind = "write"
        /\ queue'[j].kind = "write"
    BY DEF Writes
  <2>3. i \in DOMAIN queue
    <3>1. i # n \/ j \in DOMAIN queue  BY <1>1, <1>2, <2>1, <2>2 DEF n
    <3> QED  BY <1>2, <1>3, <2>1, <2>2, <3>1
  <2>4. i \in Writes /\ Live(queue[i].flow) /\ flow[queue[i].flow].at = "writing"
    <3>1. PICK g \in Flow \ {op.flow} : queue[i].flow = g /\ queue'[i].flow = g
      BY <1>0, <1>4, <2>3
    <3>2. flow'[g].at = flow[g].at /\ (Live(g)' => Live(g))  BY <3>1
    <3>3. Live(g)' /\ flow'[g].at = "writing"  BY <2>1, <3>1 DEF Leads, Live
    <3>4. i \in Writes  BY <1>4, <2>2, <2>3 DEF Writes
    <3> QED  BY <3>1, <3>2, <3>3, <3>4
  <2>5. CASE j = n
    BY <1>1, <1>4, <2>2, <2>3, <2>4, <2>5 DEF Asks
  <2>6. CASE j \in DOMAIN queue
    <3>1. j \in Writes /\ Leads(i)  BY <1>4, <2>2, <2>3, <2>4, <2>6 DEF Writes, Leads
    <3>2. flow[queue[j].flow].at # "writing" /\ ~Asks(queue[i].vault)
      BY <2>1, <2>4, <3>1 DEF LeaderLast
    <3>3. flow'[queue[j].flow].at = flow[queue[j].flow].at  BY <1>0, <2>6
    <3>4. queue'[j].flow = queue[j].flow /\ queue'[i].vault = queue[i].vault
      BY <1>4, <2>3, <2>6
    <3> QED  BY <3>2, <3>3, <3>4 DEF Asks
  <2> QED  BY <1>2, <2>2, <2>5, <2>6
<1> QED  BY <1>1, <1>2, <1>4, <1>5, <1>6

\* Nobody becomes the leader.
LEMMA StillLed ==
    ASSUME OneLeader, phase' = phase,
           \A g \in Refreshing : Live(g)' =>
              /\ Live(g)
              /\ \/ flow'[g].at = flow[g].at
                 \/ flow[g].at # "auth" /\ flow'[g].at \in {"sent", "storing"}
    PROVE  OneLeader'
  BY DEF OneLeader

\* What outdating leaves as it is.
LEMMA Outdates ==
    ASSUME DeviceTyped, InTurn, Shown
    PROVE  /\ OutdatedQueue \in Seq(Ops) /\ Len(OutdatedQueue) = Len(queue)
           /\ DOMAIN OutdatedQueue = DOMAIN queue
           /\ \A i \in DOMAIN queue : /\ OutdatedQueue[i].kind = queue[i].kind
                                      /\ OutdatedQueue[i].flow = queue[i].flow
                                      /\ OutdatedQueue[i].vault = queue[i].vault
           /\ Outdated \in [Flow -> Flows]
           /\ \A f \in Flow : /\ Outdated[f].at = flow[f].at /\ ~Outdated[f].cred
                              /\ Outdated[f].vault = flow[f].vault
           /\ NoRead = flow["read"] /\ NoRead.at = "idle" /\ ~NoRead.cred
           /\ NoRead \in Flows
<1>1. \A i \in DOMAIN queue : OutdatedQueue[i].vault = queue[i].vault
  <2>1. \A i \in DOMAIN queue : queue[i] \in Ops  BY DEF DeviceTyped
  <2>2. \A o \in Ops : [o EXCEPT !.live = FALSE].vault = o.vault  BY DEF Ops
  <2>3. \A i \in DOMAIN queue : OutdatedQueue[i] = [queue[i] EXCEPT !.live = FALSE]
    BY DEF OutdatedQueue
  <2> QED  BY <2>1, <2>2, <2>3, Zenon
<1>2. \A f \in Flow : Outdated[f].vault = flow[f].vault
  <2>1. \A f \in Flow : flow[f] \in Flows  BY DEF DeviceTyped
  <2>2. \A r \in Flows : [r EXCEPT !.life = FALSE, !.cred = FALSE].vault = r.vault
    BY DEF Flows
  <2>3. \A f \in Flow : Outdated[f] = [flow[f] EXCEPT !.life = FALSE, !.cred = FALSE]
    BY DEF Outdated
  <2> QED  BY <2>1, <2>2, <2>3, Zenon
<1>3. NoRead = flow["read"] /\ NoRead.at = "idle"  BY DEF NoRead, Shown
<1>4. DOMAIN OutdatedQueue = DOMAIN queue  BY DEF OutdatedQueue
<1> QED  BY <1>1, <1>2, <1>3, <1>4, Outdating DEF InTurn

-----------------------------------------------------------------------------
(* The phone's steps. *)

\* A flow that waited for the device or the server gives up.
LEMMA RestsPatiently ==
    ASSUME SessionInv, SessionInv', TokensFit, FlowsFit, NEW f \in Flow, Rest(f),
           flow[f].at \in {"auth", "sent"}, f = "signout" => flow[f].at = "auth",
           UNCHANGED <<server, disk, queue, mem, before>>,
           UNCHANGED call \/ \E fs : call' = Abandoned(fs),
           phase' = phase \/ (Live(f) /\ f \in Refreshing /\ mem # None)
    PROVE  TokensFit' /\ FlowsFit'
<1>1. /\ DeviceTyped /\ InTurn /\ ServerTyped /\ ServerTyped'
      /\ QueueFits /\ LeaderLast /\ OneLeader /\ Shown
  BY DEF SessionInv, DeviceInv, FlowsFit
<1>2. /\ flow'[f].at = "idle" /\ ~flow'[f].cred
      /\ \A g \in Flow : g # f => flow'[g] = flow[g]
  BY <1>1, Rests
<1>4. "signout" \in Flow /\ "read" \in Flow /\ Refreshing \subseteq Flow  BY FlowsDiffer
<1>5. UNCHANGED chain  BY DEF server
<1>6. QueueFits' /\ LeaderLast'
  <2>1. \A g \in Flow \ {f} : /\ flow'[g].at = flow[g].at /\ flow'[g].vault = flow[g].vault
                              /\ Live(g)' => Live(g)
    BY <1>2 DEF Live
  <2> QED  BY <1>1, <1>5, <2>1, WaitsOn
<1>7. OneLeader'
  <2>1. CASE phase' = phase
    <3>1. \A g \in Refreshing : Live(g)' => Live(g) /\ flow'[g].at = flow[g].at
      BY <1>2, <1>4 DEF Live
    <3> QED  BY <1>1, <2>1, <3>1, StillLed
  <2>2. CASE Live(f) /\ f \in Refreshing
    BY <1>1, <1>2, <1>4, <2>2 DEF OneLeader, Live
  <2> QED  BY <2>1, <2>2
<1>8. Shown'
  <2>1. flow'["read"].at = "idle"  BY <1>1, <1>2, <1>4 DEF Shown
  <2>2. flow'["signout"].at = "sent" => flow'["signout"].vault \in Vaults
    BY <1>1, <1>2, <1>4 DEF Shown
  <2> QED  BY <1>1, <2>1, <2>2 DEF Shown
<1>9. Spendable' \subseteq Spendable
  <2>1. flow'["signout"].at # "sent" => flow["signout"].at # "sent"  BY <1>2, <1>4
  <2>2. MayRestore' => MayRestore /\ flow'["signout"] = flow["signout"]
    BY <1>2, <1>4 DEF MayRestore, Live
  <2>3. /\ flow'["signout"].at # "sent" => mem' \in Spendable \cup {None}
        /\ MayRestore' => flow'["signout"].vault \in Spendable
    BY <1>1, <2>1, <2>2, Members
  <2> QED  BY <1>1, <2>3, KeepsNoMore
<1>10. TokensFit'
  <2>1. mem' # None => mem'.bearer \in Bearers  BY DEF TokensFit, Rooted
  <2> QED  BY <1>1, <1>9, <2>1, SendsNothing
<1> QED  BY <1>6, <1>7, <1>8, <1>10 DEF FlowsFit

\* The clearing of the store: nothing more is kept, and nobody leads.
LEMMA ClearsPatiently ==
    ASSUME SessionInv, SessionInv', TokensFit, FlowsFit, NothingWasted, UNCHANGED server,
           NEW own \in Flow, flow[own].at \in {"auth", "sent"}, own # "read",
           own = "signout" \/ flow["signout"].at # "sent",
           NEW confirmed, NEW why \in {"signout", "rejected", "missing"},
           ClearAndSignOut(why, confirmed, own), why = "rejected" => revoked # None,
           UNCHANGED call \/ \E fs : call' = Abandoned(fs)
    PROVE  TokensFit' /\ FlowsFit' /\ NothingWasted'
<1> DEFINE op == [kind |-> "clear", flow |-> own, vault |-> None,
                  begun |-> FALSE, live |-> TRUE]
           read == [Outdated EXCEPT !["read"] = NoRead]
<1>1. /\ DeviceTyped /\ InTurn /\ ServerTyped /\ ServerTyped'
      /\ QueueFits /\ LeaderLast /\ OneLeader /\ Shown /\ UNCHANGED chain
  BY DEF SessionInv, DeviceInv, FlowsFit, server
<1>2. "signout" \in Flow /\ "read" \in Flow /\ Refreshing \subseteq Flow  BY FlowsDiffer
<1>3. /\ mem' = None /\ phase' = "blocked" /\ disk' = disk
      /\ queue' = Append(OutdatedQueue, op)
      /\ flow' = [read EXCEPT ![own].at = "clearing"]
      /\ ended' = IF why = "rejected" /\ Usable(disk) THEN "wasted" ELSE why
  BY DEF ClearAndSignOut
<1>4. op \in Ops /\ op.kind = "clear" /\ op.flow = own /\ op.vault = None
  BY DEF Ops, MaybeVault
<1> HIDE DEF op
<1>5. /\ read \in [Flow -> Flows]
      /\ \A g \in Flow : /\ read[g].at = flow[g].at /\ read[g].vault = flow[g].vault
                         /\ ~read[g].cred
  BY <1>1, <1>2, Outdates
<1> HIDE DEF read
<1>6. /\ flow'[own].at = "clearing" /\ \A g \in Flow : g # own => flow'[g] = read[g]
      /\ \A g \in Flow : ~flow'[g].cred
  <2>1. \A r \in Flows : /\ [r EXCEPT !.at = "clearing"].at = "clearing"
                         /\ [r EXCEPT !.at = "clearing"].cred = r.cred
    BY DEF Flows
  <2>2. /\ flow'[own] = [read[own] EXCEPT !.at = "clearing"] /\ read[own] \in Flows
        /\ \A g \in Flow : g # own => flow'[g] = read[g]
    BY <1>3, <1>5
  <2>3. flow'[own].at = "clearing" /\ ~flow'[own].cred
    <3>1. /\ [read[own] EXCEPT !.at = "clearing"].at = "clearing"
          /\ [read[own] EXCEPT !.at = "clearing"].cred = read[own].cred
      BY <2>1, <2>2
    <3> QED  BY <1>5, <2>2, <3>1
  <2>4. \A g \in Flow : g # own => ~flow'[g].cred  BY <1>5, <2>2
  <2> QED  BY <2>2, <2>3, <2>4
<1>8. /\ QueueFits' /\ LeaderLast'
      /\ \A i \in DOMAIN queue' : \/ queue'[i] = op
                                  \/ /\ i \in DOMAIN queue
                                     /\ queue'[i].kind = queue[i].kind
                                     /\ queue'[i].vault = queue[i].vault
                                     /\ queue'[i].flow = queue[i].flow
  <2>1. \A g \in Flow \ {op.flow} : /\ flow'[g].at = flow[g].at
                                    /\ flow'[g].vault = flow[g].vault
                                    /\ Live(g)' => Live(g)
    BY <1>4, <1>5, <1>6 DEF Live
  <2>2. op.kind # "write" /\ flow'[op.flow].at = "clearing"  BY <1>4, <1>6
  <2> DEFINE q == OutdatedQueue
  <2>3. q \in Seq(Ops) /\ Len(q) = Len(queue) /\ queue' = Append(q, op)
    BY <1>1, <1>3, Outdates
  <2>4. \A i \in DOMAIN queue :
           /\ q[i].kind = queue[i].kind /\ q[i].flow = queue[i].flow
           /\ q[i].vault = queue[i].vault
    BY <1>1, Outdates
  <2> HIDE DEF q
  <2> QED  BY <1>1, <1>4, <2>1, <2>2, <2>3, <2>4, Joins
<1>9. OneLeader'  BY <1>2, <1>6 DEF OneLeader, Live
<1>10. Shown' /\ flow'["signout"].at # "sent"
  <2>1. flow'["read"].at = "idle"  BY <1>1, <1>2, <1>5, <1>6 DEF Shown
  <2>2. flow'["signout"].at # "sent"  BY <1>2, <1>5, <1>6
  <2> QED  BY <1>3, <2>1, <2>2 DEF Shown
<1>11. Spendable' \subseteq Spendable
  <2>1. \A i \in DOMAIN queue' : queue'[i].kind = "write" =>
           \E j \in DOMAIN queue : queue[j].kind = "write" /\ queue[j].vault = queue'[i].vault
    BY <1>4, <1>8
  <2>2. ~MayRestore'  BY <1>10 DEF MayRestore
  <2> QED  BY <1>1, <1>3, <2>1, <2>2, KeepsNoMore
<1>12. TokensFit'  BY <1>1, <1>3, <1>11, SendsNothing
<1>13. NothingWasted'  BY <1>3 DEF NothingWasted, Usable
<1> QED  BY <1>8, <1>9, <1>10, <1>12, <1>13 DEF FlowsFit

\* A refresh begins with a vault that may be used: under the key it has, or
\* under a new one when no refresh is under way.
LEMMA StartsPatiently ==
    ASSUME Patient, SessionInv, SessionInv', TokensFit, FlowsFit,
           NEW f \in Refreshing, NEW v \in Spendable, StartRefresh(f, v),
           UNCHANGED <<server, call>>, flow[f].at \in {"idle", "auth"},
           \A g \in Refreshing : Live(g) => g = f, flow["signout"].at # "sent"
    PROVE  TokensFit' /\ FlowsFit'
<1> DEFINE k  == IF PendingKey(v) # 0 THEN PendingKey(v) ELSE minted + 1
           pending == Vault(v.bearer, k)
           op == [kind |-> "write", flow |-> f, vault |-> pending,
                  begun |-> FALSE, live |-> TRUE]
           new == [at |-> "writing", life |-> TRUE, cred |-> TRUE, vault |-> pending]
<1>1. /\ DeviceTyped /\ InTurn /\ ServerTyped /\ ServerTyped'
      /\ QueueFits /\ LeaderLast /\ OneLeader /\ Shown /\ UNCHANGED chain
  BY DEF SessionInv, DeviceInv, FlowsFit, server
<1>2. /\ "signout" \in Flow /\ "read" \in Flow /\ f \in Flow /\ f # "signout" /\ f # "read"
      /\ Refreshing \subseteq Flow
  BY FlowsDiffer
<1>3. v \in Vaults /\ v # None /\ Sound(v) /\ v.bearer \in Bearers /\ v.bearer \in Bearings
      /\ v.key \in 0..MaxKeys
  <2>1. v \in Vaults /\ v # None  BY <1>1, Members, NoVault
  <2>2. Sound(v)  BY DEF TokensFit, SpendableSound
  <2> QED  BY <1>1, <2>1, <2>2, SoundBearers DEF Vaults
<1>4. /\ k \in 0..MaxKeys /\ k # 0 /\ (v.key # 0 => pending = v)
      /\ v.key = 0 => CanMint
  <2>1. v.key # 0 => k = v.key  BY DEF PendingKey
  <2>2. v.key = 0 => k = minted + 1 /\ CanMint  BY DEF PendingKey, StartRefresh
  <2>3. v.key # 0 => Vault(v.bearer, v.key) = v  BY <1>3 DEF Vault, Vaults
  <2> QED  BY <1>1, <1>3, <2>1, <2>2, <2>3, RotationAssumption DEF DeviceTyped, CanMint
<1>5. /\ queue' = Append(queue, op) /\ flow' = [flow EXCEPT ![f] = new]
      /\ mem' = v /\ phase' = "checking" /\ UNCHANGED <<disk, before>>
  BY DEF StartRefresh
<1>6. pending \in Vaults /\ pending \in MaybeVault /\ pending.bearer = v.bearer
      /\ pending.key = k
  BY <1>3, <1>4 DEF Vault, Vaults, MaybeVault
<1>7. op \in Ops /\ op.kind = "write" /\ op.flow = f /\ op.vault = pending
  BY <1>2, <1>6 DEF Ops
<1>8. new.at = "writing" /\ new.vault = pending  OBVIOUS
<1> HIDE DEF k, pending, op, new
<1>9. /\ flow'[f] = new /\ \A g \in Flow : g # f => flow'[g] = flow[g]
  BY <1>1, <1>2, <1>5 DEF DeviceTyped
<1>10. /\ QueueFits' /\ LeaderLast'
       /\ \A i \in DOMAIN queue' : \/ queue'[i] = op
                                   \/ /\ i \in DOMAIN queue
                                      /\ queue'[i].kind = queue[i].kind
                                      /\ queue'[i].vault = queue[i].vault
                                      /\ queue'[i].flow = queue[i].flow
  <2>1. \A g \in Flow \ {op.flow} : /\ flow'[g].at = flow[g].at
                                    /\ flow'[g].vault = flow[g].vault
                                    /\ Live(g)' => Live(g)
    BY <1>7, <1>9 DEF Live
  <2>2. \A i \in Writes : ~Live(queue[i].flow)
    <3>1. \A i \in Writes : i \in DOMAIN queue /\ queue[i].flow \in Refreshing
      BY <1>1 DEF Writes, InTurn
    <3>2. \A i \in DOMAIN queue : queue[i].flow # f  BY <1>1, <1>2, Unqueued
    <3> QED  BY <3>1, <3>2
  <2>3. /\ queue \in Seq(Ops) /\ flow[op.flow].at \in {"idle", "auth", "sent"}
        /\ flow'[op.flow].at = "writing" /\ op.vault = flow'[op.flow].vault
        /\ op.vault.key # 0 /\ op.vault \in Vaults
    BY <1>1, <1>4, <1>6, <1>7, <1>8, <1>9 DEF DeviceTyped
  <2> QED  BY <1>1, <1>5, <1>7, <2>1, <2>2, <2>3, Joins
<1>11. OneLeader'
  <2>1. \A g \in Refreshing : Live(g)' => g = f  BY <1>2, <1>9 DEF Live
  <2> QED  BY <1>5, <1>8, <1>9, <2>1 DEF OneLeader
<1>12. Shown'
  BY <1>1, <1>2, <1>3, <1>5, <1>9 DEF Shown
<1>13. Spendable' \subseteq Spendable \cup {pending}
  <2>1. \A i \in DOMAIN queue' : queue'[i].kind = "write" =>
           queue'[i].vault \in Spendable \cup {pending}
    BY <1>1, <1>7, <1>10, Members
  <2>2. disk' # None => disk' \in Spendable  BY <1>1, <1>5, Members
  <2>3. ~MayRestore'  BY <1>2, <1>9 DEF MayRestore
  <2> QED  BY <1>5, <2>1, <2>2, <2>3 DEF Spendable, Writes
<1>14. mem' # None => mem'.bearer \in Bearers  BY <1>3, <1>5
<1>15. TokensFit'
  <2>1. CASE v.key # 0
    <3>1. Spendable' \subseteq Spendable  BY <1>4, <1>13, <2>1
    <3> QED  BY <1>1, <1>14, <3>1, SendsNothing
  <2>2. CASE v.key = 0
    <3>1. \A c \in Call : call[c].kind # "refresh"
      BY <1>4, <2>2 DEF CanMint, Patient
    <3>2. \A c \in Call : ~Asking(c)' /\ ~Issued(c)'  BY <3>1 DEF Asking, Issued
    <3>3. Bearers' = Bearers /\ UNCHANGED <<recoverable, receipts, revoked>>
      BY <1>1 DEF Bearers, server
    <3>4. CallsFit'
      BY <1>1, <3>2, <3>3 DEF CallsFit, CallFits, TokensFit
    <3>5. Sound(pending)
      <4>1. chain # Append(v.bearer, 0)
        <5>1. chain \in Seq(Keys)  BY DEF TokensFit, Rooted
        <5>2. v.bearer \in Seq(0..MaxKeys)  BY <1>3 DEF Bearings
        <5>3. Len(Append(v.bearer, 0)) = Len(v.bearer) + 1
              /\ Append(v.bearer, 0)[Len(v.bearer) + 1] = 0 /\ Len(v.bearer) \in Nat
          BY <5>2
        <5>4. \A i \in 1..Len(chain) : chain[i] # 0
          <6>1. \A x \in Keys : x # 0  BY RotationAssumption DEF Keys
          <6>2. \A i \in 1..Len(chain) : chain[i] \in Keys  BY <5>1
          <6> QED  BY <6>1, <6>2
        <5>5. ASSUME chain = Append(v.bearer, 0) PROVE FALSE
          BY <5>3, <5>4, <5>5
        <5> QED  BY <5>5
      <4> QED  BY <1>3, <1>6, <2>2, <4>1 DEF Sound
    <3>6. SpendableSound'
      <4>1. \A u : Sound(u)' <=> Sound(u)  BY <1>1 DEF Sound
      <4>2. \A u \in Spendable : Sound(u)  BY DEF TokensFit, SpendableSound
      <4> QED  BY <1>13, <3>5, <4>1, <4>2 DEF SpendableSound
    <3>7. OneRequest' /\ NoneAhead'  BY <3>2 DEF OneRequest, NoneAhead
    <3>8. Rooted' /\ Recoverable'
      BY <1>1, <1>14, <3>3 DEF TokensFit, Rooted, Recoverable
    <3> QED  BY <3>4, <3>6, <3>7, <3>8 DEF TokensFit
  <2> QED  BY <2>1, <2>2
<1> QED  BY <1>10, <1>11, <1>12, <1>15 DEF FlowsFit

\* The answer to a refresh.
LEMMA AnswersPatiently ==
    ASSUME Patient, SessionInv, SessionInv', TokensFit, FlowsFit, NothingWasted,
           NEW f \in Refreshing, Refreshed(f)
    PROVE  TokensFit' /\ FlowsFit' /\ NothingWasted'
<1>1. /\ DeviceTyped /\ InTurn /\ ServerTyped /\ ServerTyped' /\ DeviceInv
      /\ QueueFits /\ LeaderLast /\ OneLeader /\ Shown /\ UNCHANGED <<chain, server>>
      /\ flow[f].at = "sent"
  BY DEF SessionInv, DeviceInv, FlowsFit, server, Refreshed
<1>2. /\ "signout" \in Flow /\ "read" \in Flow /\ f \in Flow /\ f # "signout" /\ f # "read"
      /\ Refreshing \subseteq Flow
  BY FlowsDiffer
<1>3. PICK c \in CallOf(f) :
        LET b == call[c].issued IN
        \/ /\ call[c].at = "answered" /\ call[c].answer = "session" /\ flow[f].cred
           /\ flow' = [flow EXCEPT ![f].at = "storing", !["read"] = NoRead]
           /\ queue' = Append(queue,
                  [kind |-> "write", flow |-> f, vault |-> Vault(b, 0),
                   begun |-> FALSE, live |-> TRUE])
           /\ call' = Abandoned({f, "read"})
           /\ UNCHANGED <<disk, memory, ended>>
        \/ /\ Rest(f) /\ call' = Abandoned({f})
           /\ UNCHANGED <<store, memory, ended>>
        \/ /\ call[c].answer = "rejected" /\ Live(f)
           /\ ClearAndSignOut("rejected", FALSE, f)
           /\ call' = Abandoned({f, "read"})
  BY Zenon DEF Refreshed, Refused
<1>4. c \in Call /\ CallFits(c) /\ call[c].kind = "refresh"
  BY DEF CallOf, TokensFit, CallsFit, CallFits
<1>5. \E fs : call' = Abandoned(fs)  BY <1>3
<1>6. CASE Rest(f) /\ UNCHANGED <<store, memory, ended>>
  <2>1. UNCHANGED <<disk, queue, mem, before, phase>>  BY <1>6 DEF store, memory
  <2>2. TokensFit' /\ FlowsFit'
    BY <1>1, <1>2, <1>5, <1>6, <2>1, RestsPatiently
  <2> QED  BY <1>6, <2>2 DEF NothingWasted
<1>7. CASE call[c].answer = "rejected" /\ Live(f) /\ ClearAndSignOut("rejected", FALSE, f)
  <2>1. revoked # None  BY <1>4, <1>7 DEF CallFits
  <2>2. flow["signout"].at # "sent"  BY <1>1, <1>2, <1>7, CredentialsAreLive DEF Live
  <2> QED  BY <1>1, <1>2, <1>5, <1>7, <2>1, <2>2, ClearsPatiently
<1>8. CASE /\ call[c].at = "answered" /\ call[c].answer = "session" /\ flow[f].cred
           /\ flow' = [flow EXCEPT ![f].at = "storing", !["read"] = NoRead]
           /\ queue' = Append(queue,
                  [kind |-> "write", flow |-> f, vault |-> Vault(call[c].issued, 0),
                   begun |-> FALSE, live |-> TRUE])
           /\ UNCHANGED <<disk, memory, ended>>
  <2> DEFINE next == Vault(call[c].issued, 0)
             op == [kind |-> "write", flow |-> f, vault |-> next,
                    begun |-> FALSE, live |-> TRUE]
             new == [flow[f] EXCEPT !.at = "storing"]
  <2>1. Issued(c) /\ call[c].issued = chain  BY <1>4, <1>8 DEF Issued, CallFits
  <2>2. /\ next.bearer = chain /\ next.key = 0 /\ next \in Vaults /\ next \in MaybeVault
    BY <1>1, <2>1, RotationAssumption DEF Vault, Vaults, MaybeVault, ServerTyped
  <2>3. op \in Ops /\ op.kind = "write" /\ op.flow = f /\ op.vault = next
    BY <1>2, <2>2 DEF Ops
  <2>4. /\ new.at = "storing" /\ new.cred = flow[f].cred /\ new.life = flow[f].life
    BY <1>1, <1>2 DEF DeviceTyped, Flows
  <2>5. queue' = Append(queue, op) /\ UNCHANGED <<phase, mem, disk, before>>
    BY <1>8 DEF memory
  <2>6. flow' = [[flow EXCEPT ![f] = new] EXCEPT !["read"] = NoRead]
    BY <1>1, <1>2, <1>8 DEF DeviceTyped
  <2> HIDE DEF next, op, new
  <2>7. flow'[f] = new /\ \A g \in Flow : g # f => flow'[g] = flow[g]
    BY <1>1, <1>2, <2>6, Outdates DEF DeviceTyped
  <2>8. \A v \in Spendable : ~Asks(v)  BY <1>4, <2>1 DEF TokensFit, NoneAhead
  <2>9. /\ QueueFits' /\ LeaderLast'
        /\ \A i \in DOMAIN queue' : \/ queue'[i] = op
                                    \/ /\ i \in DOMAIN queue
                                       /\ queue'[i].kind = queue[i].kind
                                       /\ queue'[i].vault = queue[i].vault
                                       /\ queue'[i].flow = queue[i].flow
    <3>1. \A g \in Flow \ {op.flow} : /\ flow'[g].at = flow[g].at
                                      /\ flow'[g].vault = flow[g].vault
                                      /\ Live(g)' => Live(g)
      BY <2>3, <2>7 DEF Live
    <3>2. \A i \in Writes : ~Asks(queue[i].vault)
      BY <1>1, <2>8, Members DEF Writes
    <3>3. /\ queue \in Seq(Ops) /\ flow[op.flow].at = "sent"
          /\ flow'[op.flow].at = "storing" /\ op.vault.key = 0 /\ op.vault \in Vaults
      BY <1>1, <2>2, <2>3, <2>4, <2>7 DEF DeviceTyped
    <3> QED  BY <1>1, <2>3, <2>5, <3>1, <3>2, <3>3, Joins
  <2>10. OneLeader'
    <3>1. \A g \in Refreshing : Live(g)' =>
              /\ Live(g)
              /\ \/ flow'[g].at = flow[g].at
                 \/ flow[g].at # "auth" /\ flow'[g].at \in {"sent", "storing"}
      BY <1>1, <1>2, <2>4, <2>7 DEF Live
    <3> QED  BY <1>1, <2>5, <3>1, StillLed
  <2>11. Shown'  BY <1>1, <1>2, <2>5, <2>7 DEF Shown
  <2>12. Spendable' \subseteq Spendable \cup {next}
    <3>1. \A i \in DOMAIN queue' : queue'[i].kind = "write" =>
             queue'[i].vault \in Spendable \cup {next}
      BY <1>1, <2>3, <2>9, Members
    <3>2. disk' # None => disk' \in Spendable  BY <1>1, <2>5, Members
    <3>3. flow'["signout"] = flow["signout"]  BY <1>2, <2>7
    <3>4. MayRestore' => MayRestore  BY <2>5, <3>3 DEF MayRestore, Live
    <3>5. MayRestore' => flow'["signout"].vault \in Spendable
      BY <1>1, <3>3, <3>4, Members
    <3>6. mem' # None /\ flow'["signout"].at # "sent" => mem' \in Spendable
      BY <1>1, <2>5, <3>3, Members
    <3> QED  BY <3>1, <3>2, <3>5, <3>6 DEF Spendable, Writes
  <2>13. \A d \in Call : /\ CallFits(d)'
                         /\ Asking(d)' => Asking(d) /\ AskedOf(d)' = AskedOf(d)
    <3>1. PICK fs : call' = Abandoned(fs)  BY <1>5
    <3> QED  BY <1>1, <3>1, Dropped DEF TokensFit
  <2>14. \A u : (Sound(u)' <=> Sound(u)) /\ (Asks(u)' <=> Asks(u))
    BY <1>1 DEF Sound, Asks
  <2>15. SpendableSound'
    <3>1. Sound(next)  BY <2>2 DEF Sound
    <3> QED  BY <2>12, <2>14, <3>1 DEF TokensFit, SpendableSound
  <2>16. NoneAhead'
    <3>1. ~Asks(next)  BY <2>2 DEF Asks
    <3> QED  BY <2>8, <2>12, <2>14, <3>1 DEF NoneAhead
  <2>17. OneRequest'
    <3>1. \A d \in Call : Asking(d)' => ~Asks(AskedOf(d))'
      <4>1. ASSUME NEW d \in Call, Asking(d)', Asks(AskedOf(d))' PROVE FALSE
        <5>1. Asking(d) /\ Asks(AskedOf(d))
          BY <1>1, <2>13, <4>1 DEF Asks
        <5> QED  BY <1>4, <2>1, <5>1 DEF TokensFit, OneRequest
      <4> QED  BY <4>1
    <3> QED  BY <3>1 DEF OneRequest
  <2>18. Rooted' /\ Recoverable'
    <3>1. Bearers' = Bearers /\ UNCHANGED <<recoverable, receipts>>
      BY <1>1 DEF Bearers, server
    <3> QED  BY <1>1, <2>5, <3>1 DEF TokensFit, Rooted, Recoverable
  <2>19. TokensFit'
    BY <2>13, <2>15, <2>16, <2>17, <2>18 DEF TokensFit, CallsFit
  <2>20. NothingWasted'  BY <1>8 DEF NothingWasted
  <2> QED  BY <2>9, <2>10, <2>11, <2>19, <2>20 DEF FlowsFit
<1> QED  BY <1>3, <1>6, <1>7, <1>8

LEMMA GivesUpPatiently ==
    ASSUME SessionInv, SessionInv', TokensFit, FlowsFit, NothingWasted,
           NEW f \in Refreshing, GiveUp(f)
    PROVE  TokensFit' /\ FlowsFit' /\ NothingWasted'
<1>1. f \in Flow /\ f # "signout"  BY FlowsDiffer
<1>2. /\ Rest(f) /\ call' = Abandoned({f}) /\ flow[f].at = "sent"
      /\ phase' = AfterGivingUp(f)
      /\ UNCHANGED <<server, disk, queue, mem, before, ended>>
  BY DEF GiveUp, store
<1>3. phase' = phase \/ (Live(f) /\ mem # None)
  <2>1. Live(f) => phase = "checking"  BY <1>2 DEF FlowsFit, OneLeader
  <2> QED  BY <1>2, <2>1 DEF AfterGivingUp, FlowsFit, Shown
<1>4. TokensFit' /\ FlowsFit'  BY <1>1, <1>2, <1>3, RestsPatiently
<1> QED  BY <1>2, <1>4 DEF NothingWasted

\* An operation leaves the queue, and its flow rests.
LEMMA TakesOff ==
    ASSUME SessionInv, SessionInv', TokensFit, FlowsFit, queue # <<>>, queue' = Tail(queue),
           NEW f \in Flow, f = Head(queue).flow, Rest(f), UNCHANGED <<server, call, before>>,
           disk' \in Spendable \cup {None, disk}, mem' \in Spendable \cup {None, mem},
           \/ phase' = phase /\ mem' = mem
           \/ /\ \A g \in Refreshing : Live(g) => g = f
              /\ phase' \in {"checking", "offline", "online"} => mem' # None
    PROVE  TokensFit' /\ FlowsFit'
<1>1. /\ DeviceTyped /\ InTurn /\ ServerTyped /\ ServerTyped'
      /\ QueueFits /\ LeaderLast /\ OneLeader /\ Shown /\ UNCHANGED chain
  BY DEF SessionInv, DeviceInv, FlowsFit, server
<1>2. "signout" \in Flow /\ "read" \in Flow /\ Refreshing \subseteq Flow  BY FlowsDiffer
<1>3. /\ flow'[f].at = "idle" /\ ~flow'[f].cred
      /\ \A g \in Flow : g # f => flow'[g] = flow[g]
  BY <1>1, Rests
<1>4. flow[f].at # "sent"
  <2>1. 1 \in DOMAIN queue /\ Head(queue) = queue[1]  BY <1>1, Popped
  <2> QED  BY <1>1, <2>1, Unqueued
<1>5. /\ QueueFits' /\ LeaderLast'
      /\ \A i \in DOMAIN queue' : \E j \in DOMAIN queue : queue'[i] = queue[j]
  BY <1>1, <1>3, Leaves
<1>6. OneLeader'
  <2>1. \A g \in Refreshing : Live(g)' => Live(g) /\ g # f /\ flow'[g].at = flow[g].at
    BY <1>2, <1>3 DEF Live
  <2> QED  BY <1>1, <2>1, StillLed DEF OneLeader
<1>7. Shown'  BY <1>1, <1>2, <1>3 DEF Shown
<1>8. Spendable' \subseteq Spendable
  <2>1. \A i \in DOMAIN queue' : queue'[i].kind = "write" =>
           \E j \in DOMAIN queue : queue[j].kind = "write" /\ queue[j].vault = queue'[i].vault
    BY <1>5
  <2>2. flow'["signout"].at # "sent" => flow["signout"].at # "sent"  BY <1>2, <1>3, <1>4
  <2>3. flow'["signout"].at # "sent" => mem' \in Spendable \cup {None}
    BY <1>1, <2>2, Members
  <2>4. MayRestore' => MayRestore /\ flow'["signout"] = flow["signout"]
    BY <1>2, <1>3 DEF MayRestore, Live
  <2>5. MayRestore' => flow'["signout"].vault \in Spendable
    BY <1>1, <2>4, Members
  <2> QED  BY <1>1, <2>1, <2>3, <2>5, KeepsNoMore
<1>9. mem' # None => mem'.bearer \in Bearers
  <2>1. ASSUME mem' \in Spendable PROVE mem'.bearer \in Bearers
    <3>1. mem' \in Vaults /\ Sound(mem')
      BY <1>1, <2>1, Members DEF TokensFit, SpendableSound
    <3> QED
      <4>1. \A v \in Vaults : Sound(v) => v.bearer \in Bearers  BY <1>1, SoundBearers
      <4> QED  BY <3>1, <4>1
  <2> QED  BY <2>1 DEF TokensFit, Rooted
<1>10. TokensFit'  BY <1>1, <1>8, <1>9, SendsNothing
<1> QED  BY <1>5, <1>6, <1>7, <1>10 DEF FlowsFit

LEMMA BeginsPatiently ==
    ASSUME SessionInv, SessionInv', TokensFit, FlowsFit, NothingWasted, BeginStore
    PROVE  TokensFit' /\ FlowsFit' /\ NothingWasted'
<1>1. /\ DeviceTyped /\ InTurn /\ ServerTyped /\ ServerTyped'
      /\ QueueFits /\ LeaderLast /\ OneLeader /\ Shown
  BY DEF SessionInv, DeviceInv, FlowsFit
<1>2. /\ queue # <<>> /\ UNCHANGED <<server, call, disk, memory, ended>>
      /\ \/ queue' = [queue EXCEPT ![1].begun = TRUE] /\ UNCHANGED flow
         \/ queue' = Tail(queue) /\ Rest(Head(queue).flow)
  BY DEF BeginStore
<1>3. UNCHANGED <<chain, phase, mem, before>> /\ NothingWasted'
  BY <1>2 DEF memory, server, NothingWasted
<1>4. 1 \in DOMAIN queue /\ Head(queue) = queue[1] /\ Head(queue).flow \in Flow
      /\ Head(queue) \in Ops
  BY <1>1, <1>2, Popped DEF Ops
<1>5. CASE queue' = Tail(queue) /\ Rest(Head(queue).flow)
  BY <1>2, <1>3, <1>4, <1>5, TakesOff
<1>6. CASE queue' = [queue EXCEPT ![1].begun = TRUE] /\ UNCHANGED flow
  <2> DEFINE op == [queue[1] EXCEPT !.begun = TRUE]
  <2>1. op.kind = queue[1].kind /\ op.flow = queue[1].flow /\ op.vault = queue[1].vault
    BY <1>4 DEF Ops
  <2>2. queue' = [queue EXCEPT ![1] = op]  BY <1>4, <1>6
  <2> HIDE DEF op
  <2>3. /\ DOMAIN queue' = DOMAIN queue
        /\ \A i \in DOMAIN queue :
              /\ queue'[i].kind = queue[i].kind /\ queue'[i].flow = queue[i].flow
              /\ queue'[i].vault = queue[i].vault
    BY <1>1, <1>4, <2>1, <2>2 DEF DeviceTyped
  <2>4. QueueFits' /\ LeaderLast'
    <3>1. "read" \in Flow /\ flow["read"].at = "idle"  BY <1>1, FlowsDiffer DEF Shown
    <3>2. \A g \in Flow \ {"read"} : /\ flow'[g].at = flow[g].at
                                     /\ flow'[g].vault = flow[g].vault
                                     /\ Live(g)' => Live(g)
      BY <1>6 DEF Live
    <3> QED  BY <1>1, <1>3, <2>3, <3>1, <3>2, WaitsOn
  <2>5. OneLeader' /\ Shown'  BY <1>1, <1>3, <1>6 DEF OneLeader, Shown, Live
  <2>6. Spendable' \subseteq Spendable
    <3>1. MayRestore' <=> MayRestore  BY <1>3, <1>6 DEF MayRestore, Live
    <3>2. flow'["signout"].at # "sent" => mem' \in Spendable \cup {None}
      BY <1>1, <1>3, <1>6, Members
    <3>3. MayRestore' => flow'["signout"].vault \in Spendable
      BY <1>1, <1>6, <3>1, Members
    <3> QED  BY <1>1, <1>2, <2>3, <3>2, <3>3, KeepsNoMore
  <2>7. TokensFit'
    <3>1. mem' # None => mem'.bearer \in Bearers  BY <1>3 DEF TokensFit, Rooted
    <3> QED  BY <1>1, <1>2, <2>6, <3>1, SendsNothing
  <2> QED  BY <1>3, <2>4, <2>5, <2>7 DEF FlowsFit
<1> QED  BY <1>2, <1>5, <1>6

LEMMA FailsPatiently ==
    ASSUME SessionInv, SessionInv', TokensFit, FlowsFit, NothingWasted,
           StoreFails \/ StoreClears
    PROVE  TokensFit' /\ FlowsFit' /\ NothingWasted'
<1> DEFINE f == Head(queue).flow
<1>1. DeviceTyped /\ InTurn /\ Alone /\ OneLeader
  BY DEF SessionInv, DeviceInv, FlowsFit
<1>2. /\ queue # <<>> /\ queue' = Tail(queue) /\ Rest(f)
      /\ UNCHANGED <<server, call, before, ended>> /\ disk' \in {disk, None}
  BY DEF StoreFails, StoreClears
<1>3. /\ Head(queue) = queue[1] /\ 1 \in DOMAIN queue /\ f \in Flow
      /\ Head(queue).kind = "write" => f \in Refreshing
  BY <1>1, <1>2, Popped DEF Ops, InTurn
<1>4. \/ UNCHANGED <<mem, phase>>
      \/ /\ \A g \in Refreshing : Live(g) => g = f
         /\ mem' \in {None, mem} /\ phase' \in {"blocked", "out"}
  <2>1. CASE StoreFails
    <3>1. \/ UNCHANGED <<mem, phase>>
          \/ Head(queue).kind = "write" /\ Live(f) /\ mem' = None /\ phase' = "blocked"
      BY <2>1 DEF StoreFails
    <3> QED  BY <1>1, <1>3, <3>1 DEF OneLeader
  <2>2. CASE StoreClears
    <3>1. \/ UNCHANGED <<mem, phase>>
          \/ Head(queue).kind = "clear" /\ Head(queue).live /\ mem' = mem /\ phase' = "out"
      BY <2>2 DEF StoreClears
    <3>2. Head(queue).kind = "clear" /\ Head(queue).live => \A g \in Refreshing : ~Live(g)
      BY <1>1, <1>3, FlowsDiffer DEF Alone, Clearing, Still, Live
    <3> QED  BY <3>1, <3>2
  <2> QED  BY <2>1, <2>2
<1> HIDE DEF f
<1>5. TokensFit' /\ FlowsFit'
  <2>1. f = Head(queue).flow  BY DEF f
  <2>2. PICK g \in Flow : g = f  BY <1>3
  <2> QED  BY <1>2, <1>4, <2>1, <2>2, TakesOff
<1> QED  BY <1>2, <1>5 DEF NothingWasted

\* A request that is sent takes a free place.
LEMMA Sent ==
    ASSUME ServerTyped, NEW f, NEW kind, NEW v, NEW k, NEW fs, Send(f, kind, v, k, fs)
    PROVE  \E c \in Call :
              /\ call[c] = Idle
              /\ call'[c].kind = kind /\ call'[c].to = f /\ call'[c].bearer = v.bearer
              /\ call'[c].key = k /\ call'[c].at = "sent" /\ call'[c].answer = "none"
              /\ call'[c].issued = <<>>
              /\ \A d \in Call : d # c => call'[d] = Abandoned(fs)[d]
<1> DEFINE new == [Idle EXCEPT !.kind = kind, !.to = f, !.bearer = v.bearer,
                               !.key = k, !.at = "sent"]
<1>1. PICK c \in Call : call[c] = Idle /\ call' = [Abandoned(fs) EXCEPT ![c] = new]
  BY DEF Send, FreeCalls
<1>2. /\ new.kind = kind /\ new.to = f /\ new.bearer = v.bearer /\ new.key = k
      /\ new.at = "sent" /\ new.answer = "none" /\ new.issued = <<>>
  BY DEF Idle
<1> HIDE DEF new, Idle
<1>3. call'[c] = new /\ \A d \in Call : d # c => call'[d] = Abandoned(fs)[d]
  BY <1>1 DEF Abandoned
<1> QED  BY <1>1, <1>2, <1>3

\* A request is sent with the vault that was stored: if it would rotate,
\* nothing else is kept; if it repeats a rotation, nothing kept would rotate.
LEMMA SendsPatiently ==
    ASSUME SessionInv, SessionInv', TokensFit, FlowsFit, NEW f \in Refreshing,
           queue # <<>>, f = Head(queue).flow, Head(queue).kind = "write",
           NEW v, v = Head(queue).vault, disk' = v, mem' = v, queue' = Tail(queue),
           Live(f), flow[f].at = "writing", flow' = [flow EXCEPT ![f].at = "sent"],
           Send(f, "refresh", v, v.key, {}), UNCHANGED <<server, before, phase>>
    PROVE  TokensFit' /\ FlowsFit'
<1>1. /\ DeviceTyped /\ InTurn /\ ServerTyped /\ ServerTyped' /\ DeviceInv
      /\ QueueFits /\ LeaderLast /\ OneLeader /\ Shown
      /\ UNCHANGED <<chain, recoverable, receipts, revoked>> /\ Bearers' = Bearers
  BY DEF SessionInv, DeviceInv, FlowsFit, server, Bearers
<1>2. /\ "signout" \in Flow /\ "read" \in Flow /\ f \in Flow /\ f # "signout" /\ f # "read"
      /\ Refreshing \subseteq Flow
  BY FlowsDiffer
<1>3. 1 \in DOMAIN queue /\ Head(queue) = queue[1] /\ 1 \in Writes
      /\ \A i \in DOMAIN queue' : i + 1 \in DOMAIN queue /\ queue'[i] = queue[i + 1]
  BY <1>1, Popped DEF Writes
<1>4. v \in Spendable /\ v \in Vaults /\ v # None /\ v.key # 0
  BY <1>1, <1>3, Members, NoVault DEF QueueFits
<1>5. Sound(v) /\ v.bearer \in Bearers
  <2>1. Sound(v)  BY <1>4 DEF TokensFit, SpendableSound
  <2> QED  BY <1>1, <1>4, <2>1, SoundBearers
<1>6. /\ flow'[f].at = "sent" /\ flow'[f].cred = flow[f].cred /\ flow'[f].life = flow[f].life
      /\ \A g \in Flow : g # f => flow'[g] = flow[g]
  <2> DEFINE new == [flow[f] EXCEPT !.at = "sent"]
  <2>1. new.at = "sent" /\ new.cred = flow[f].cred /\ new.life = flow[f].life
    BY <1>1, <1>2 DEF DeviceTyped, Flows
  <2>2. flow' = [flow EXCEPT ![f] = new]  OBVIOUS
  <2> HIDE DEF new
  <2>3. flow'[f] = new /\ \A g \in Flow : g # f => flow'[g] = flow[g]
    BY <1>1, <1>2, <2>2 DEF DeviceTyped
  <2> QED  BY <2>1, <2>3
<1>7. /\ QueueFits' /\ LeaderLast'
      /\ \A i \in DOMAIN queue' : \E j \in DOMAIN queue : queue'[i] = queue[j]
  BY <1>1, <1>6, Leaves
<1>8. OneLeader'
  <2>1. \A g \in Refreshing : Live(g)' =>
            /\ Live(g)
            /\ \/ flow'[g].at = flow[g].at
               \/ flow[g].at # "auth" /\ flow'[g].at \in {"sent", "storing"}
    BY <1>2, <1>6 DEF Live
  <2> QED  BY <1>1, <2>1, StillLed
<1>9. Shown'  BY <1>1, <1>2, <1>4, <1>6 DEF Shown
<1>10. flow["signout"].at # "sent" /\ flow'["signout"].at # "sent"
  BY <1>1, <1>2, <1>6, CredentialsAreLive DEF Live
<1>11. \A u \in Spendable' : u = v \/ \E i \in DOMAIN queue' :
                                        queue'[i].kind = "write" /\ queue'[i].vault = u
  BY <1>10 DEF Spendable, Writes, MayRestore
<1>12. Spendable' \subseteq Spendable
  <2>1. \A i \in DOMAIN queue' : queue'[i].kind = "write" => queue'[i].vault \in Spendable
    BY <1>1, <1>7, Members
  <2> QED  BY <1>4, <1>11, <2>1
<1>13. PICK c \in Call :
          /\ call[c] = Idle
          /\ call'[c].kind = "refresh" /\ call'[c].to = f /\ call'[c].bearer = v.bearer
          /\ call'[c].key = v.key /\ call'[c].at = "sent" /\ call'[c].answer = "none"
          /\ call'[c].issued = <<>>
          /\ \A d \in Call : d # c => call'[d] = Abandoned({})[d]
  BY <1>1, Sent
<1>14. \A d \in Call : d # c => /\ CallFits(d)'
                                /\ Asking(d)' => Asking(d) /\ AskedOf(d)' = AskedOf(d)
                                /\ Issued(d)' => Issued(d)
  BY <1>1, <1>13, Dropped DEF TokensFit
<1>15. /\ ~Issued(c)' /\ Asking(c)' /\ AskedOf(c)' = v /\ CallFits(c)'
  <2>1. ~Issued(c)' /\ Asking(c)'  BY <1>13 DEF Issued, Asking
  <2>2. AskedOf(c)' = v  BY <1>4, <1>13 DEF AskedOf, Vault, Vaults
  <2>3. Sound(v)'  BY <1>1, <1>5 DEF Sound
  <2>4. <<>> \in Bearers'
    <3>1. chain \in Bearings /\ <<>> \in Bearings  BY <1>1 DEF ServerTyped, Bearings
    <3> QED  BY <1>1, <3>1, Prefixes
  <2>5. CallFits(c)'  BY <1>1, <1>4, <1>5, <1>13, <2>1, <2>2, <2>3, <2>4 DEF CallFits
  <2> QED  BY <2>1, <2>2, <2>5
<1>16. CallsFit'  BY <1>14, <1>15 DEF CallsFit
<1>17. \A u : (Sound(u)' <=> Sound(u)) /\ (Asks(u)' <=> Asks(u))
  BY <1>1 DEF Sound, Asks
<1>18. SpendableSound'  BY <1>12, <1>17 DEF TokensFit, SpendableSound
<1>19. Rooted' /\ Recoverable'
  BY <1>1, <1>5 DEF TokensFit, Rooted, Recoverable
<1>20. OneRequest' /\ NoneAhead'
  <2>1. CASE Asks(v)
    <3>1. \A u \in Spendable' : u = v
      <4>1. ASSUME NEW i \in DOMAIN queue', queue'[i].kind = "write" PROVE FALSE
        <5>1. i + 1 \in Writes /\ 1 < i + 1
          <6>1. i + 1 \in DOMAIN queue /\ queue[i + 1].kind = "write"  BY <1>3, <4>1
          <6>2. i \in Nat /\ i # 0  BY <1>1, <4>1 DEF DeviceTyped, DeviceInv, SessionInv
          <6> QED  BY <6>1, <6>2 DEF Writes
        <5>2. Leads(1)  BY <1>3 DEF Leads
        <5> QED  BY <1>1, <1>3, <2>1, <5>1, <5>2 DEF LeaderLast
      <4> QED  BY <1>11, <4>1
    <3>2. \A d \in Call : ~Issued(d) /\ (Asking(d) => AskedOf(d) = v)
      <4>1. \A d \in Call : ~Issued(d) /\ (Asking(d) => Asks(AskedOf(d)))
        BY <1>4, <2>1 DEF TokensFit, NoneAhead
      <4> QED  BY <1>4, <4>1 DEF TokensFit, OneRequest
    <3>3. \A d \in Call : ~Issued(d)' /\ (Asking(d)' => AskedOf(d)' = v)
      BY <1>14, <1>15, <3>2
    <3>4. OneRequest'  BY <3>1, <3>3 DEF OneRequest
    <3>5. NoneAhead'  BY <1>17, <2>1, <3>3 DEF NoneAhead
    <3> QED  BY <3>4, <3>5
  <2>2. CASE ~Asks(v)
    <3>1. \A u \in Spendable' : ~Asks(u)
      <4>1. ASSUME NEW i \in DOMAIN queue', queue'[i].kind = "write"
            PROVE  ~Asks(queue'[i].vault)
        <5>1. i + 1 \in Writes /\ 1 < i + 1 /\ queue'[i] = queue[i + 1]
          <6>1. i + 1 \in DOMAIN queue /\ queue[i + 1].kind = "write"  BY <1>3, <4>1
          <6>2. i \in Nat /\ i # 0  BY <1>1, <4>1 DEF DeviceTyped, DeviceInv, SessionInv
          <6> QED  BY <1>3, <4>1, <6>1, <6>2 DEF Writes
        <5>2. Leads(1)  BY <1>3 DEF Leads
        <5>3. flow[queue[i + 1].flow].at # "writing"
          BY <1>1, <1>3, <5>1, <5>2 DEF LeaderLast
        <5>4. queue[i + 1].vault.key = 0  BY <1>1, <5>1, <5>3 DEF QueueFits, Writes
        <5> QED  BY <5>1, <5>4 DEF Asks
      <4> QED  BY <1>11, <2>2, <4>1
    <3>2. NoneAhead'  BY <1>17, <3>1 DEF NoneAhead
    <3>3. \A d \in Call : Asking(d)' => ~Asks(AskedOf(d))'
      <4>1. \A d \in Call : Asking(d) => ~Asks(AskedOf(d))
        BY <1>4, <2>2 DEF TokensFit, OneRequest
      <4>2. \A d \in Call : Asks(AskedOf(d))' <=> Asks(AskedOf(d)')  BY <1>1 DEF Asks
      <4> QED  BY <1>14, <1>15, <2>2, <4>1, <4>2
    <3>4. OneRequest'  BY <3>3 DEF OneRequest
    <3> QED  BY <3>2, <3>4
  <2> QED  BY <2>1, <2>2
<1> QED  BY <1>7, <1>8, <1>9, <1>16, <1>18, <1>19, <1>20 DEF TokensFit, FlowsFit

LEMMA WritesPatiently ==
    ASSUME SessionInv, SessionInv', TokensFit, FlowsFit, NothingWasted, StoreWrites
    PROVE  TokensFit' /\ FlowsFit' /\ NothingWasted'
<1>1. DeviceTyped /\ InTurn /\ QueueFits /\ Shown /\ OneLeader
  BY DEF SessionInv, DeviceInv, FlowsFit
<1>2. /\ queue # <<>> /\ Head(queue).kind = "write" /\ disk' = Head(queue).vault
      /\ Written(Head(queue).flow) /\ queue' = Tail(queue)
      /\ UNCHANGED <<server, before, ended>>
  BY DEF StoreWrites
<1>3. 1 \in DOMAIN queue /\ Head(queue) = queue[1] /\ Head(queue) \in Ops
  BY <1>1, <1>2, Popped
<1>4. PICK f \in Refreshing : f = Head(queue).flow
  BY <1>1, <1>2, <1>3 DEF InTurn
<1>5. f \in Flow /\ Refreshing \subseteq Flow  BY FlowsDiffer
<1>6. Head(queue).vault \in Spendable /\ Head(queue).vault # None
  BY <1>1, <1>2, <1>3, Members, NoVault DEF QueueFits
<1>7. CASE /\ Live(f) /\ flow[f].at = "writing"
           /\ Send(f, "refresh", flow[f].vault, flow[f].vault.key, {})
           /\ mem' = flow[f].vault /\ flow' = [flow EXCEPT ![f].at = "sent"]
           /\ UNCHANGED phase
  <2>1. flow[f].vault = Head(queue).vault  BY <1>1, <1>2, <1>3, <1>4, <1>7 DEF QueueFits
  <2>2. PICK v : v = Head(queue).vault  OBVIOUS
  <2>3. TokensFit' /\ FlowsFit'
    BY <1>2, <1>4, <1>7, <2>1, <2>2, SendsPatiently
  <2> QED  BY <1>2, <2>3 DEF NothingWasted
<1>8. CASE /\ Live(f) /\ mem' = Head(queue).vault /\ phase' = "online"
           /\ Rest(f) /\ UNCHANGED call
  <2>1. \A g \in Refreshing : Live(g) => g = f  BY <1>1, <1>8 DEF OneLeader
  <2>2. TokensFit' /\ FlowsFit'
    BY <1>2, <1>4, <1>5, <1>6, <1>8, <2>1, TakesOff
  <2> QED  BY <1>2, <2>2 DEF NothingWasted
<1>9. CASE Rest(f) /\ UNCHANGED <<phase, mem, call>>
  <2>1. TokensFit' /\ FlowsFit'
    BY <1>2, <1>4, <1>5, <1>6, <1>9, TakesOff
  <2> QED  BY <1>2, <2>1 DEF NothingWasted
<1> QED  BY <1>2, <1>4, <1>7, <1>8, <1>9 DEF Written

\* The fence: its request rotates nothing, and nobody leads any more.
LEMMA FencesPatiently ==
    ASSUME SessionInv, SessionInv', TokensFit, FlowsFit, NothingWasted,
           flow["signout"].at \in {"idle", "auth"}, NEW v \in Spendable, Fence(v),
           UNCHANGED server
    PROVE  TokensFit' /\ FlowsFit' /\ NothingWasted'
<1> DEFINE k == IF revocation # 0 THEN revocation ELSE minted + 1
           new == [at |-> "sent", life |-> TRUE, cred |-> TRUE, vault |-> v]
           read == [Outdated EXCEPT !["read"] = NoRead]
<1>1. /\ DeviceTyped /\ InTurn /\ ServerTyped /\ ServerTyped' /\ DeviceInv
      /\ QueueFits /\ LeaderLast /\ OneLeader /\ Shown
      /\ UNCHANGED <<chain, recoverable, receipts, revoked>> /\ Bearers' = Bearers
  BY DEF SessionInv, DeviceInv, FlowsFit, server, Bearers
<1>2. /\ "signout" \in Flow /\ "read" \in Flow /\ "signout" \notin Refreshing
      /\ Refreshing \subseteq Flow
  BY FlowsDiffer
<1>3. /\ phase' = "locked" /\ queue' = OutdatedQueue
      /\ flow' = [read EXCEPT !["signout"] = new]
      /\ Send("signout", "revoke", v, k, {"read"})
      /\ UNCHANGED <<disk, mem, ended>> /\ (revocation = 0 => minted < MaxKeys)
  BY DEF Fence
<1>4. k # 0  BY <1>1, RotationAssumption DEF DeviceTyped
<1>5. v \in Vaults /\ v.bearer \in Bearers
  <2>1. v \in Vaults /\ Sound(v)  BY <1>1, Members DEF TokensFit, SpendableSound
  <2> QED  BY <1>1, <2>1, SoundBearers
<1>6. new.at = "sent" /\ new.vault = v  OBVIOUS
<1> HIDE DEF k, new
<1>7. /\ read \in [Flow -> Flows]
      /\ \A g \in Flow : /\ read[g].at = flow[g].at /\ read[g].vault = flow[g].vault
                         /\ ~read[g].cred
  BY <1>1, <1>2, Outdates
<1> HIDE DEF read
<1>8. flow'["signout"] = new /\ \A g \in Flow : g # "signout" => flow'[g] = read[g]
  BY <1>2, <1>3, <1>7
<1>9. /\ DOMAIN queue' = DOMAIN queue
      /\ \A i \in DOMAIN queue :
            /\ queue'[i].kind = queue[i].kind /\ queue'[i].flow = queue[i].flow
            /\ queue'[i].vault = queue[i].vault
  BY <1>1, <1>3, Outdates
<1>10. QueueFits' /\ LeaderLast'
  <2>1. \A g \in Flow \ {"signout"} : /\ flow'[g].at = flow[g].at
                                      /\ flow'[g].vault = flow[g].vault
                                      /\ Live(g)' => Live(g)
    BY <1>7, <1>8 DEF Live
  <2> QED  BY <1>1, <1>2, <1>9, <2>1, WaitsOn
<1>11. OneLeader'  BY <1>2, <1>7, <1>8 DEF OneLeader, Live
<1>12. Shown'  BY <1>1, <1>2, <1>3, <1>5, <1>6, <1>7, <1>8 DEF Shown
<1>13. Spendable' \subseteq Spendable
  <2>1. flow'["signout"].at = "sent" /\ flow'["signout"].vault \in Spendable
    BY <1>6, <1>8
  <2> QED  BY <1>1, <1>3, <1>9, <2>1, KeepsNoMore
<1>14. PICK c \in Call :
          /\ call'[c].kind = "revoke" /\ call'[c].to = "signout"
          /\ call'[c].bearer = v.bearer /\ call'[c].key = k /\ call'[c].at = "sent"
          /\ call'[c].issued = <<>>
          /\ \A d \in Call : d # c => call'[d] = Abandoned({"read"})[d]
  BY <1>1, <1>3, Sent
<1>15. CallFits(c)' /\ ~Asking(c)' /\ ~Issued(c)'
  <2>1. <<>> \in Bearers'
    <3>1. chain \in Bearings /\ <<>> \in Bearings  BY <1>1 DEF ServerTyped, Bearings
    <3> QED  BY <1>1, <3>1, Prefixes
  <2>2. ~Asking(c)' /\ ~Issued(c)'  BY <1>14 DEF Asking, Issued
  <2> QED  BY <1>1, <1>2, <1>4, <1>5, <1>14, <2>1, <2>2 DEF CallFits
<1>16. \A d \in Call : d # c => /\ CallFits(d)'
                                /\ Asking(d)' => Asking(d) /\ AskedOf(d)' = AskedOf(d)
                                /\ Issued(d)' => Issued(d)
  BY <1>1, <1>14, Dropped DEF TokensFit
<1>17. CallsFit'  BY <1>15, <1>16 DEF CallsFit
<1>18. Rooted'  BY <1>1, <1>3 DEF TokensFit, Rooted
<1>19. TokensFit'  BY <1>1, <1>13, <1>15, <1>16, <1>17, <1>18, Steady
<1>20. NothingWasted'  BY <1>3 DEF NothingWasted
<1> QED  BY <1>10, <1>11, <1>12, <1>19, <1>20 DEF FlowsFit

LEMMA SignsOutPatiently ==
    ASSUME SessionInv, SessionInv', TokensFit, FlowsFit, NothingWasted, SignOut
    PROVE  TokensFit' /\ FlowsFit' /\ NothingWasted'
<1>1. /\ DeviceTyped /\ InTurn /\ ServerTyped /\ ServerTyped'
      /\ QueueFits /\ LeaderLast /\ OneLeader /\ Shown
      /\ flow["signout"].at = "idle" /\ UNCHANGED <<server, chain>>
  BY DEF SessionInv, DeviceInv, FlowsFit, SignOut, server
<1>2. "signout" \in Flow /\ "read" \in Flow /\ "signout" \notin Refreshing
      /\ Refreshing \subseteq Flow
  BY FlowsDiffer
<1>3. CASE mem # None /\ Fence(mem)
  <2>1. mem \in Spendable  BY <1>1, <1>3, Members
  <2> QED  BY <1>1, <1>3, <2>1, FencesPatiently
<1>4. CASE /\ flow' = [flow EXCEPT !["signout"].at = "auth"]
           /\ UNCHANGED <<call, store, memory, ended>>
  <2> DEFINE new == [flow["signout"] EXCEPT !.at = "auth"]
  <2>1. new.at = "auth"  BY <1>1, <1>2 DEF DeviceTyped, Flows
  <2>2. flow' = [flow EXCEPT !["signout"] = new]  BY <1>4
  <2> HIDE DEF new
  <2>3. flow'["signout"] = new /\ \A g \in Flow : g # "signout" => flow'[g] = flow[g]
    BY <1>1, <1>2, <2>2 DEF DeviceTyped
  <2>4. UNCHANGED <<disk, queue, mem, phase>>  BY <1>4 DEF store, memory
  <2>5. QueueFits' /\ LeaderLast'
    <3>1. \A g \in Flow \ {"signout"} : /\ flow'[g].at = flow[g].at
                                        /\ flow'[g].vault = flow[g].vault
                                        /\ Live(g)' => Live(g)
      BY <2>3 DEF Live
    <3> QED  BY <1>1, <1>2, <2>4, <3>1, WaitsOn
  <2>6. OneLeader'
    <3>1. \A g \in Refreshing : Live(g)' => Live(g) /\ flow'[g].at = flow[g].at
      BY <1>2, <2>3 DEF Live
    <3> QED  BY <1>1, <2>4, <3>1, StillLed
  <2>7. Shown'  BY <1>1, <1>2, <2>1, <2>3, <2>4 DEF Shown
  <2>8. Spendable' \subseteq Spendable
    <3>1. ~MayRestore'  BY <2>1, <2>3 DEF MayRestore
    <3>2. mem' \in Spendable \cup {None}  BY <1>1, <2>4, Members
    <3> QED  BY <1>1, <2>4, <3>1, <3>2, KeepsNoMore
  <2>9. TokensFit'
    <3>1. mem' # None => mem'.bearer \in Bearers  BY <2>4 DEF TokensFit, Rooted
    <3> QED  BY <1>1, <1>4, <2>8, <3>1, SendsNothing
  <2> QED  BY <1>4, <2>5, <2>6, <2>7, <2>9 DEF FlowsFit, NothingWasted
<1> QED  BY <1>3, <1>4 DEF SignOut

LEMMA SignOutUnlocksPatiently ==
    ASSUME SessionInv, SessionInv', TokensFit, FlowsFit, NothingWasted, SignOutUnlocked
    PROVE  TokensFit' /\ FlowsFit' /\ NothingWasted'
<1>1. flow["signout"].at = "auth" /\ UNCHANGED server /\ DeviceTyped /\ QueueFits /\ Shown
  BY DEF SignOutUnlocked, SessionInv, DeviceInv, FlowsFit
<1>2. "signout" \in Flow  BY FlowsDiffer
<1>3. CASE Rest("signout") /\ UNCHANGED <<call, store, memory, ended>>
  <2>1. UNCHANGED <<disk, queue, mem, before, phase>>  BY <1>3 DEF store, memory
  <2>2. TokensFit' /\ FlowsFit'  BY <1>1, <1>2, <1>3, <2>1, RestsPatiently
  <2> QED  BY <1>3, <2>2 DEF NothingWasted
<1>4. CASE ClearAndSignOut("signout", TRUE, "signout") /\ UNCHANGED call
  BY <1>1, <1>2, <1>4, ClearsPatiently
<1>5. CASE disk # None /\ Fence(disk)
  <2>1. disk \in Spendable  BY <1>1, <1>5, Members
  <2> QED  BY <1>1, <1>5, <2>1, FencesPatiently
<1> QED  BY <1>3, <1>4, <1>5 DEF SignOutUnlocked

LEMMA SignedOutPatiently ==
    ASSUME SessionInv, SessionInv', TokensFit, FlowsFit, NothingWasted, SignedOut
    PROVE  TokensFit' /\ FlowsFit' /\ NothingWasted'
<1>1. /\ flow["signout"].at = "sent" /\ UNCHANGED server
      /\ ClearAndSignOut("signout", TRUE, "signout")
      /\ \E fs : call' = Abandoned(fs)
  BY DEF SignedOut
<1>2. "signout" \in Flow  BY FlowsDiffer
<1> QED  BY <1>1, <1>2, ClearsPatiently

\* What a sign-out that fails puts back was kept for that.
LEMMA SignOutFailsPatiently ==
    ASSUME SessionInv, SessionInv', TokensFit, FlowsFit, NothingWasted, SignOutFailed
    PROVE  TokensFit' /\ FlowsFit' /\ NothingWasted'
<1>1. /\ DeviceTyped /\ InTurn /\ ServerTyped /\ ServerTyped' /\ Fenced
      /\ QueueFits /\ LeaderLast /\ OneLeader /\ Shown
  BY DEF SessionInv, DeviceInv, FlowsFit
<1>2. /\ flow["signout"].at = "sent" /\ Rest("signout") /\ call' = Abandoned({"signout"})
      /\ mem' = IF MayRestore THEN flow["signout"].vault ELSE None
      /\ phase' = IF MayRestore THEN before.phase ELSE "locked"
      /\ UNCHANGED <<server, chain, disk, queue, ended>>
  BY DEF SignOutFailed, MayRestore, store, server
<1>3. "signout" \in Flow /\ "read" \in Flow /\ "signout" \notin Refreshing
      /\ Refreshing \subseteq Flow
  BY FlowsDiffer
<1>4. /\ flow'["signout"].at = "idle"
      /\ \A g \in Flow : g # "signout" => flow'[g] = flow[g]
  BY <1>1, <1>2, <1>3, Rests
<1>5. mem' \in Spendable \cup {None} /\ (MayRestore => mem' # None)
  <2>1. MayRestore => flow["signout"].vault \in Spendable  BY <1>1, Members
  <2>2. MayRestore => flow["signout"].vault # None  BY <1>1, <1>2, NoVault DEF Shown
  <2> QED  BY <1>2, <2>1, <2>2
<1>6. QueueFits' /\ LeaderLast'
  <2>1. \A g \in Flow \ {"signout"} : /\ flow'[g].at = flow[g].at
                                      /\ flow'[g].vault = flow[g].vault
                                      /\ Live(g)' => Live(g)
    BY <1>4 DEF Live
  <2> QED  BY <1>1, <1>2, <1>3, <2>1, WaitsOn
<1>7. OneLeader'
  <2>1. \A g \in Refreshing : ~Live(g)'
    BY <1>1, <1>2, <1>3, <1>4 DEF Fenced, Still, Live
  <2> QED  BY <2>1 DEF OneLeader
<1>8. Shown'  BY <1>1, <1>2, <1>3, <1>4, <1>5 DEF Shown
<1>9. Spendable' \subseteq Spendable
  <2>1. ~MayRestore'  BY <1>4 DEF MayRestore
  <2> QED  BY <1>1, <1>2, <1>5, <2>1, KeepsNoMore
<1>10. mem' # None => mem'.bearer \in Bearers
  <2>1. \A u \in Spendable : u \in Vaults /\ Sound(u)
    BY <1>1, Members DEF TokensFit, SpendableSound
  <2>2. \A u \in Vaults : Sound(u) => u.bearer \in Bearers  BY <1>1, SoundBearers
  <2> QED  BY <1>5, <2>1, <2>2
<1>11. TokensFit'  BY <1>1, <1>2, <1>9, <1>10, SendsNothing
<1> QED  BY <1>2, <1>6, <1>7, <1>8, <1>11 DEF FlowsFit, NothingWasted

LEMMA LeavesPatiently ==
    ASSUME SessionInv, SessionInv', TokensFit, FlowsFit, NothingWasted, Background
    PROVE  TokensFit' /\ FlowsFit' /\ NothingWasted'
<1> DEFINE away == [f \in Flow |-> [flow[f] EXCEPT !.life = FALSE]]
<1>1. /\ DeviceTyped /\ InTurn /\ ServerTyped /\ ServerTyped'
      /\ QueueFits /\ LeaderLast /\ OneLeader /\ Shown
  BY DEF SessionInv, DeviceInv, FlowsFit
<1>2. /\ mem' = None /\ phase' \in {"out", "blocked", "locked"}
      /\ flow' = [away EXCEPT !["read"] = NoRead] /\ call' = Abandoned({"read"})
      /\ UNCHANGED <<server, chain, disk, queue, ended>>
  BY DEF Background, store, server
<1>3. "signout" \in Flow /\ "read" \in Flow /\ "read" \notin Refreshing
      /\ Refreshing \subseteq Flow
  BY FlowsDiffer
<1>4. \A f \in Flow : /\ away[f].at = flow[f].at /\ away[f].vault = flow[f].vault
                      /\ ~away[f].life
  <2>1. \A f \in Flow : flow[f] \in Flows  BY <1>1 DEF DeviceTyped
  <2>2. \A r \in Flows : /\ [r EXCEPT !.life = FALSE].at = r.at
                         /\ [r EXCEPT !.life = FALSE].vault = r.vault
                         /\ ~[r EXCEPT !.life = FALSE].life
    BY DEF Flows
  <2>3. \A f \in Flow : away[f] = [flow[f] EXCEPT !.life = FALSE]  OBVIOUS
  <2> HIDE DEF away
  <2> QED  BY <2>1, <2>2, <2>3, Zenon
<1>5. DOMAIN away = Flow  OBVIOUS
<1> HIDE DEF away
<1>6. flow'["read"].at = "idle" /\ \A g \in Flow : g # "read" => flow'[g] = away[g]
  BY <1>1, <1>2, <1>3, <1>5, Outdates
<1>7. QueueFits' /\ LeaderLast'
  <2>1. \A g \in Flow \ {"read"} : /\ flow'[g].at = flow[g].at
                                   /\ flow'[g].vault = flow[g].vault
                                   /\ Live(g)' => Live(g)
    BY <1>4, <1>6 DEF Live
  <2>2. flow["read"].at = "idle"  BY <1>1 DEF Shown
  <2> QED  BY <1>1, <1>2, <1>3, <2>1, <2>2, WaitsOn
<1>8. OneLeader'  BY <1>3, <1>4, <1>6 DEF OneLeader, Live
<1>9. Shown'  BY <1>1, <1>2, <1>3, <1>4, <1>6 DEF Shown
<1>10. Spendable' \subseteq Spendable
  <2>1. ~MayRestore'  BY <1>3, <1>4, <1>6 DEF MayRestore, Live
  <2> QED  BY <1>1, <1>2, <2>1, KeepsNoMore
<1>11. TokensFit'  BY <1>1, <1>2, <1>10, SendsNothing
<1> QED  BY <1>2, <1>7, <1>8, <1>9, <1>11 DEF FlowsFit, NothingWasted

\* A write that had begun is one that was under way.
LEMMA RestartsPatiently ==
    ASSUME SessionInv, SessionInv', TokensFit, FlowsFit, NothingWasted, Restart
    PROVE  TokensFit' /\ FlowsFit' /\ NothingWasted'
<1>1. /\ DeviceTyped /\ InTurn /\ ServerTyped /\ ServerTyped'
      /\ QueueFits /\ LeaderLast /\ OneLeader /\ Shown
  BY DEF SessionInv, DeviceInv, FlowsFit
<1>2. /\ disk' \in {disk} \cup {op.vault : op \in {queue[i] : i \in
                                  {i \in DOMAIN queue : queue[i].begun}}}
      /\ phase' \in {"out", "locked"} /\ mem' = None /\ queue' = <<>> /\ ended' = "no"
      /\ flow' = [f \in Flow |-> Resting] /\ call' = Abandoned(Flow)
      /\ UNCHANGED server
  BY DEF Restart
<1>3. /\ "signout" \in Flow /\ "read" \in Flow /\ Refreshing \subseteq Flow
  BY FlowsDiffer
<1>4. \A f \in Flow : flow'[f].at = "idle" /\ ~flow'[f].life
  BY <1>2 DEF Resting
<1>5. DOMAIN queue' = {}  BY <1>2
<1>6. disk' \in Spendable \cup {None, disk}
  <2>1. \A i \in DOMAIN queue : queue[i].vault \in Spendable \cup {None}
    <3>1. \A i \in DOMAIN queue : queue[i].kind \in {"write", "clear"}
      <4>1. \A i \in DOMAIN queue : queue[i] \in Ops  BY <1>1 DEF DeviceTyped
      <4> QED  BY <4>1 DEF Ops
    <3> QED  BY <1>1, <3>1, Members DEF QueueFits
  <2> QED  BY <1>2, <2>1
<1>7. QueueFits' /\ LeaderLast'  BY <1>5 DEF QueueFits, LeaderLast, Writes
<1>8. OneLeader'  BY <1>3, <1>4 DEF OneLeader, Live
<1>9. Shown'  BY <1>2, <1>3, <1>4 DEF Shown
<1>10. Spendable' \subseteq Spendable
  <2>1. ~MayRestore'  BY <1>3, <1>4 DEF MayRestore
  <2> QED  BY <1>1, <1>2, <1>5, <1>6, <2>1, KeepsNoMore
<1>11. TokensFit'  BY <1>1, <1>2, <1>10, SendsNothing
<1> QED  BY <1>2, <1>7, <1>8, <1>9, <1>11 DEF FlowsFit, NothingWasted

LEMMA ComesBackPatiently ==
    ASSUME SessionInv, SessionInv', TokensFit, FlowsFit, NothingWasted, Foreground
    PROVE  TokensFit' /\ FlowsFit' /\ NothingWasted'
<1> DEFINE new == [at |-> "auth", life |-> TRUE, cred |-> TRUE, vault |-> None]
<1>1. /\ DeviceTyped /\ InTurn /\ ServerTyped /\ ServerTyped'
      /\ QueueFits /\ LeaderLast /\ OneLeader /\ Shown
  BY DEF SessionInv, DeviceInv, FlowsFit
<1>2. /\ phase = "locked" /\ flow["unlock"].at = "idle"
      /\ flow' = [flow EXCEPT !["unlock"] = new]
      /\ UNCHANGED <<server, call, chain, disk, queue, mem, phase, before, ended>>
  BY DEF Foreground, store, memory, server
<1>3. /\ "signout" \in Flow /\ "read" \in Flow /\ "unlock" \in Flow /\ "unlock" \in Refreshing
      /\ "signout" \notin Refreshing /\ "read" \notin Refreshing /\ Refreshing \subseteq Flow
  BY FlowsDiffer
<1>4. new.at = "auth"  OBVIOUS
<1> HIDE DEF new
<1>5. flow'["unlock"] = new /\ \A g \in Flow : g # "unlock" => flow'[g] = flow[g]
  BY <1>1, <1>2, <1>3 DEF DeviceTyped
<1>6. QueueFits' /\ LeaderLast'
  <2>1. \A g \in Flow \ {"unlock"} : /\ flow'[g].at = flow[g].at
                                     /\ flow'[g].vault = flow[g].vault
                                     /\ Live(g)' => Live(g)
    BY <1>5 DEF Live
  <2> QED  BY <1>1, <1>2, <1>3, <2>1, WaitsOn
<1>7. OneLeader'
  <2>1. \A g \in Refreshing : ~Live(g)  BY <1>1, <1>2 DEF OneLeader
  <2>2. \A g \in Refreshing : Live(g)' => g = "unlock"  BY <1>3, <1>5, <2>1 DEF Live
  <2> QED  BY <1>2, <1>4, <1>5, <2>2 DEF OneLeader
<1>8. flow'["signout"] = flow["signout"] /\ flow'["read"] = flow["read"]
  BY <1>3, <1>5
<1>9. Shown'  BY <1>1, <1>2, <1>8 DEF Shown
<1>10. Spendable' \subseteq Spendable
  <2>1. MayRestore' <=> MayRestore  BY <1>2, <1>8 DEF MayRestore, Live
  <2>2. /\ flow'["signout"].at # "sent" => mem' \in Spendable \cup {None}
        /\ MayRestore' => flow'["signout"].vault \in Spendable
    BY <1>1, <1>2, <1>8, <2>1, Members
  <2> QED  BY <1>1, <1>2, <2>2, KeepsNoMore
<1>11. TokensFit'
  <2>1. mem' # None => mem'.bearer \in Bearers  BY <1>2 DEF TokensFit, Rooted
  <2> QED  BY <1>1, <1>2, <1>10, <2>1, SendsNothing
<1> QED  BY <1>2, <1>6, <1>7, <1>9, <1>11 DEF FlowsFit, NothingWasted

LEMMA RetriesPatiently ==
    ASSUME Patient, SessionInv, SessionInv', TokensFit, FlowsFit, NothingWasted,
           NEW f \in Retrying, RetryConnection(f)
    PROVE  TokensFit' /\ FlowsFit' /\ NothingWasted'
<1>1. /\ phase = "offline" /\ mem # None /\ flow["signout"].at = "idle"
      /\ flow[f].at = "idle" /\ StartRefresh(f, mem) /\ UNCHANGED <<server, call>>
  BY DEF RetryConnection, Patient
<1>2. f \in Refreshing  BY FlowsDiffer
<1>3. \A g \in Refreshing : ~Live(g)  BY <1>1 DEF FlowsFit, OneLeader
<1>4. mem \in Spendable  BY <1>1, Members DEF SessionInv, DeviceInv, FlowsFit
<1>5. TokensFit' /\ FlowsFit'  BY <1>1, <1>2, <1>3, <1>4, StartsPatiently
<1> QED  BY <1>1, <1>5 DEF StartRefresh, NothingWasted

LEMMA UnlocksPatiently ==
    ASSUME Patient, SessionInv, SessionInv', TokensFit, FlowsFit, NothingWasted, Unlock
    PROVE  TokensFit' /\ FlowsFit' /\ NothingWasted'
<1>1. /\ flow["unlock"].at = "auth" /\ UNCHANGED <<server, call>>
      /\ "unlock" \in Refreshing /\ "unlock" \in Flow /\ DeviceInv /\ DeviceTyped
  BY FlowsDiffer DEF Unlock, SessionInv, DeviceInv
<1>2. CASE Rest("unlock") /\ UNCHANGED <<store, memory, ended>>
  <2>1. UNCHANGED <<disk, queue, mem, before, phase>>  BY <1>2 DEF store, memory
  <2>2. TokensFit' /\ FlowsFit'  BY <1>1, <1>2, <2>1, RestsPatiently
  <2> QED  BY <1>2, <2>2 DEF NothingWasted
<1>3. CASE Live("unlock") /\ disk # None /\ StartRefresh("unlock", disk)
  <2>1. flow["signout"].at # "sent"  BY <1>1, <1>3, CredentialsAreLive DEF Live
  <2>2. \A g \in Refreshing : Live(g) => g = "unlock"
    BY <1>1, <1>3 DEF FlowsFit, OneLeader
  <2>3. disk \in Spendable  BY <1>1, <1>3, Members DEF FlowsFit
  <2>4. TokensFit' /\ FlowsFit'
    BY <1>1, <1>3, <2>1, <2>2, <2>3, StartsPatiently
  <2> QED  BY <1>3, <2>4 DEF StartRefresh, NothingWasted
<1>4. CASE Live("unlock") /\ ClearAndSignOut("missing", FALSE, "unlock")
  <2>1. flow["signout"].at # "sent"  BY <1>1, <1>4, CredentialsAreLive DEF Live
  <2> QED  BY <1>1, <1>4, <2>1, ClearsPatiently
<1> QED  BY <1>2, <1>3, <1>4 DEF Unlock

\* A step of the server leaves the flows; a rotation passes what was kept.
LEMMA ServerPatient ==
    ASSUME Patient, SessionInv, TokensFit, FlowsFit, NeverTakenForReplay, NothingWasted,
           ServerNext, UNCHANGED device
    PROVE  TokensFit' /\ FlowsFit' /\ NeverTakenForReplay' /\ NothingWasted'
<1>1. /\ DeviceTyped /\ ServerTyped /\ QueueFits /\ LeaderLast /\ OneLeader /\ Shown
  BY DEF SessionInv, DeviceInv, FlowsFit
<1>2. TokensFit' /\ NeverTakenForReplay'  BY <1>1, ServesPatiently
<1>3. UNCHANGED <<phase, mem, disk, queue, flow, ended>>  BY DEF device, store, memory
<1>4. QueueFits' /\ OneLeader' /\ Shown'
  BY <1>1, <1>3 DEF QueueFits, OneLeader, Shown, Live
<1>5. \A v \in Spendable : ~Asks(v) => ~Asks(v)'
  <2>1. chain' = chain \/ \E k \in 0..MaxKeys : chain' = Append(chain, k)
    <3>1. \A c \in Call : call[c] \in Calls  BY <1>1 DEF ServerTyped
    <3>2. \A c \in Call : call[c].key \in 0..MaxKeys  BY <3>1 DEF Calls
    <3> QED
      BY <3>2 DEF ServerNext, Serve, InspectRefresh, Rotate, Retry, InspectRead,
                  InspectRevoke, Revoke, Unavailable, RevokeElsewhere, WindowCloses, server
  <2>2. CASE chain' = chain  BY <2>2 DEF Asks
  <2>3. CASE \E k \in 0..MaxKeys : chain' = Append(chain, k)
    <3>1. chain \in Seq(0..MaxKeys)  BY <1>1 DEF ServerTyped, Bearings
    <3>2. Len(chain') = Len(chain) + 1 /\ Len(chain) \in Nat  BY <2>3, <3>1
    <3>3. ASSUME NEW v \in Spendable PROVE v.bearer # chain'
      <4>1. v \in Vaults /\ Sound(v)  BY <1>1, Members DEF TokensFit, SpendableSound
      <4>2. v.bearer \in Bearers /\ v.bearer \in Bearings
        BY <1>1, <4>1, SoundBearers DEF Vaults
      <4>3. Len(v.bearer) <= Len(chain)  BY <1>1, <4>2, Prefixes DEF ServerTyped
      <4>4. Len(v.bearer) \in Nat  BY <4>2 DEF Bearings
      <4> QED  BY <3>2, <4>3, <4>4
    <3> QED  BY <3>3 DEF Asks
  <2> QED  BY <2>1, <2>2, <2>3
<1>6. LeaderLast'
  <2>1. \A i \in Writes : queue[i].vault \in Spendable  BY <1>1, Members DEF Writes
  <2>2. Writes' = Writes /\ \A i \in Writes : Leads(i)' <=> Leads(i)
    BY <1>3 DEF Writes, Leads, Live
  <2>3. ASSUME NEW i \in Writes, NEW j \in Writes, i < j, Leads(i)
        PROVE  flow'[queue'[j].flow].at # "writing" /\ ~Asks(queue[i].vault)'
    <3>1. flow[queue[j].flow].at # "writing" /\ ~Asks(queue[i].vault)
      BY <1>1, <2>3 DEF LeaderLast
    <3>2. ~Asks(queue[i].vault)'  BY <1>3, <1>5, <2>1, <3>1 DEF Asks
    <3> QED  BY <1>3, <3>1, <3>2
  <2> QED  BY <2>2, <2>3 DEF LeaderLast
<1> QED  BY <1>2, <1>3, <1>4, <1>6 DEF FlowsFit, NothingWasted

-----------------------------------------------------------------------------
(* The theorem. *)

LEMMA PatientInitially == ASSUME Init PROVE PatientInv
<1>1. SessionInv  BY SessionInitially
<1>2. /\ chain = <<>> /\ revoked = None /\ receipts = {} /\ call = [c \in Call |-> Idle]
      /\ phase = "locked" /\ mem = None /\ disk = Vault(<<>>, 0) /\ queue = <<>>
      /\ flow = [f \in Flow |-> Resting] /\ ended = "no"
  BY DEF Init, RotationInit
<1>3. /\ Idle.kind = "none" /\ Idle.at = "idle" /\ Idle.to = None
      /\ Idle.bearer = <<>> /\ Idle.issued = <<>>
  BY DEF Idle
<1>4. Resting.at = "idle" /\ ~Resting.life  BY DEF Resting
<1> HIDE DEF Idle, Resting
<1>5. /\ "signout" \in Flow /\ "read" \in Flow /\ Refreshing \subseteq Flow
      /\ None \notin Refreshing
  BY FlowsDiffer
<1>6. <<>> \in Bearers
  <2>1. chain \in Bearings /\ <<>> \in Bearings  BY <1>2 DEF Bearings
  <2> QED  BY <2>1, Prefixes
<1>7. \A c \in Call : ~Asking(c) /\ ~Issued(c) /\ CallFits(c)
  BY <1>2, <1>3, <1>5, <1>6 DEF Asking, Issued, CallFits
<1>8. \A f \in Flow : flow[f].at = "idle" /\ ~Live(f)  BY <1>2, <1>4 DEF Live
<1>9. DOMAIN queue = {}  BY <1>2
<1>10. SpendableSound
  <2>1. Spendable \subseteq {disk}  BY <1>2, <1>5, <1>8, <1>9 DEF Spendable, Writes, MayRestore
  <2>2. Sound(disk)  BY <1>2 DEF Sound, Vault
  <2> QED  BY <2>1, <2>2 DEF SpendableSound
<1>11. Rooted
  <2>1. chain \in Seq(Keys)  BY <1>2
  <2> QED  BY <1>2, <2>1 DEF Rooted
<1>12. TokensFit
  BY <1>2, <1>7, <1>10, <1>11
     DEF TokensFit, Recoverable, CallsFit, OneRequest, NoneAhead
<1>13. FlowsFit
  BY <1>2, <1>5, <1>8, <1>9
     DEF FlowsFit, QueueFits, LeaderLast, Writes, OneLeader, Shown
<1>14. NeverTakenForReplay /\ NothingWasted
  BY <1>2, RotationAssumption DEF NeverTakenForReplay, NothingWasted
<1> QED  BY <1>1, <1>12, <1>13, <1>14 DEF PatientInv

LEMMA PatientSteps == ASSUME Patient, PatientInv, [Next]_vars PROVE PatientInv'
<1>1. SessionInv /\ TokensFit /\ FlowsFit /\ NeverTakenForReplay /\ NothingWasted
  BY DEF PatientInv
<1>2. SessionInv'  BY <1>1, SessionSteps
<1>3. CASE UNCHANGED vars
  <2>1. UNCHANGED <<server, call, device>>  BY <1>3 DEF vars
  <2>2. /\ UNCHANGED <<chain, recoverable, revoked, receipts>>
        /\ UNCHANGED <<phase, mem, disk, queue, flow, before, ended>>
    BY <2>1 DEF server, device, store, memory
  <2>3. FlowsFit' /\ NeverTakenForReplay' /\ NothingWasted'
    BY <1>1, <2>2 DEF FlowsFit, QueueFits, LeaderLast, Writes, Leads, Live, Asks, OneLeader,
                      Shown, NeverTakenForReplay, NothingWasted
  <2>4. Spendable' \subseteq Spendable
    BY <2>2 DEF Spendable, Writes, MayRestore, Live
  <2>5. TokensFit'
    <3>1. mem' # None => mem'.bearer \in Bearers
      BY <1>1, <2>2 DEF TokensFit, Rooted
    <3> QED  BY <1>1, <1>2, <2>1, <2>4, <3>1, SendsNothing DEF SessionInv
  <2> QED  BY <1>2, <2>3, <2>5 DEF PatientInv
<1>4. CASE ServerNext /\ UNCHANGED device
  <2>1. TokensFit' /\ FlowsFit' /\ NeverTakenForReplay' /\ NothingWasted'
    BY <1>1, <1>4, ServerPatient
  <2> QED  BY <1>2, <2>1 DEF PatientInv
<1>5. ASSUME TokensFit' /\ FlowsFit' /\ NothingWasted', UNCHANGED server PROVE PatientInv'
  BY <1>1, <1>2, <1>5 DEF PatientInv, NeverTakenForReplay, server
<1>6. CASE Next /\ ~(ServerNext /\ UNCHANGED device)
  <2>1. UNCHANGED server
    <3>1. CASE Unlock  BY <3>1 DEF Unlock
    <3>2. CASE BeginStore  BY <3>2 DEF BeginStore
    <3>3. CASE StoreWrites  BY <3>3 DEF StoreWrites
    <3>4. CASE StoreFails \/ StoreClears  BY <3>4 DEF StoreFails, StoreClears
    <3>5. CASE \E f \in Refreshing : Refreshed(f) \/ GiveUp(f)
      BY <3>5 DEF Refreshed, GiveUp
    <3>6. CASE SignOutUnlocked \/ SignedOut \/ SignOutFailed
      BY <3>6 DEF SignOutUnlocked, SignedOut, SignOutFailed
    <3>7. CASE ReadAnswered \/ ReadLost \/ ReadScreen
      BY <3>7 DEF ReadAnswered, ReadLost, ReadScreen
    <3>8. CASE Foreground \/ SignOut \/ Background \/ Restart
      BY <3>8 DEF Foreground, SignOut, Background, Restart
    <3>9. CASE \E f \in Retrying : RetryConnection(f)  BY <3>9 DEF RetryConnection
    <3> QED
      BY <1>6, <3>1, <3>2, <3>3, <3>4, <3>5, <3>6, <3>7, <3>8, <3>9 DEF Next, Work
  <2>2. TokensFit' /\ FlowsFit' /\ NothingWasted'
    <3>1. CASE Unlock  BY <1>1, <1>2, <3>1, UnlocksPatiently
    <3>2. CASE BeginStore  BY <1>1, <1>2, <3>2, BeginsPatiently
    <3>3. CASE StoreWrites  BY <1>1, <1>2, <3>3, WritesPatiently
    <3>4. CASE StoreFails \/ StoreClears  BY <1>1, <1>2, <3>4, FailsPatiently
    <3>5. CASE \E f \in Refreshing : Refreshed(f) \/ GiveUp(f)
      BY <1>1, <1>2, <3>5, AnswersPatiently, GivesUpPatiently
    <3>6. CASE SignOutUnlocked  BY <1>1, <1>2, <3>6, SignOutUnlocksPatiently
    <3>7. CASE SignedOut  BY <1>1, <1>2, <3>7, SignedOutPatiently
    <3>8. CASE SignOutFailed  BY <1>1, <1>2, <3>8, SignOutFailsPatiently
    <3>9. CASE ReadAnswered \/ ReadLost
      BY <1>1, <3>9 DEF ReadAnswered, ReadLost, FlowsFit, Shown
    <3>10. CASE ReadScreen  BY <3>10 DEF ReadScreen, Patient
    <3>11. CASE Foreground  BY <1>1, <1>2, <3>11, ComesBackPatiently
    <3>12. CASE SignOut  BY <1>1, <1>2, <3>12, SignsOutPatiently
    <3>13. CASE Background  BY <1>1, <1>2, <3>13, LeavesPatiently
    <3>14. CASE Restart  BY <1>1, <1>2, <3>14, RestartsPatiently
    <3>15. CASE \E f \in Retrying : RetryConnection(f)
      BY <1>1, <1>2, <3>15, RetriesPatiently
    <3> QED
      BY <1>6, <3>1, <3>2, <3>3, <3>4, <3>5, <3>6, <3>7, <3>8, <3>9, <3>10, <3>11, <3>12,
         <3>13, <3>14, <3>15 DEF Next, Work
  <2> QED  BY <1>5, <2>1, <2>2
<1> QED  BY <1>3, <1>4, <1>6

\* The invariant of a patient phone gives the types the property asks for.
LEMMA PatientTyped == ASSUME PatientInv PROVE TypeOK
<1>1. /\ DeviceTyped /\ InTurn /\ ServerTyped /\ QueueFits /\ Shown /\ TokensFit
  BY DEF PatientInv, SessionInv, DeviceInv, FlowsFit
<1>2. RotationOK
  <2>1. \A c \in Call : call[c] \in Calls /\ CallFits(c)
    BY <1>1 DEF ServerTyped, TokensFit, CallsFit
  <2>2. \A c \in Call :
          /\ call[c].kind \in {"none", "refresh", "revoke", "read"}
          /\ call[c].at \in {"idle", "sent", "verified", "retired", "answered"}
          /\ call[c].bearer \in Bearers
          /\ call[c].answer \in {"none", "rejected", "unavailable", "done", "session"}
          /\ call[c].issued \in Bearers
    BY <2>1 DEF Calls, CallFits
  <2> QED  BY <1>1, <2>2 DEF RotationOK, ServerTyped, TokensFit, Rooted
<1>3. \A v \in {mem, disk} : v = None \/ (v.bearer \in Bearers /\ v.key \in 0..MaxKeys)
  <2>1. mem # None => mem.bearer \in Bearers /\ mem.key \in 0..MaxKeys
    BY <1>1 DEF TokensFit, Rooted, DeviceTyped, MaybeVault, Vaults
  <2>2. disk # None => disk.bearer \in Bearers /\ disk.key \in 0..MaxKeys
    <3>1. disk # None => disk \in Vaults /\ Sound(disk)
      BY <1>1, Members DEF TokensFit, SpendableSound
    <3>2. \A v \in Vaults : Sound(v) => v.bearer \in Bearers  BY <1>1, SoundBearers
    <3> QED  BY <3>1, <3>2 DEF Vaults
  <2> QED  BY <2>1, <2>2
<1>4. /\ \A i \in DOMAIN queue : queue[i].kind \in {"write", "clear"}
      /\ \A f \in Flow : flow[f].at \in Stations
  <2>1. \A i \in DOMAIN queue : queue[i] \in Ops  BY <1>1 DEF DeviceTyped
  <2>2. \A f \in Flow : flow[f] \in Flows  BY <1>1 DEF DeviceTyped
  <2> QED  BY <2>1, <2>2 DEF Ops, Flows
<1>5. Cardinality({i \in DOMAIN queue : queue[i].begun}) =< 1
  <2> DEFINE B == {i \in DOMAIN queue : queue[i].begun}
  <2>1. B = {} \/ B = {1}  BY <1>1 DEF InTurn
  <2>2. Cardinality({}) = 0 /\ Cardinality({1}) = 1
    BY FS_EmptySet, FS_Singleton
  <2> QED  BY <2>1, <2>2
<1> QED
  BY <1>1, <1>2, <1>3, <1>4, <1>5 DEF TypeOK, DeviceTyped, Screens, Stations, Shown

\* A phone whose requests are served while it waits for them, and whose
\* repetitions come within the window, is never taken for a thief, and gives
\* its credential up only when that is worth nothing any more
\* (auth-controller.ts, sessions.ts).
THEOREM NeverTakenForAThief == ASSUME Patient PROVE PhoneSpec => []ServedInTime
<1>1. PhoneInit => PatientInv  BY PatientInitially DEF PhoneInit
<1>2. PatientInv /\ [PhoneNext]_everything => PatientInv'
  <2>1. [PhoneNext]_everything => [Next]_vars  BY DEF PhoneNext, everything
  <2> QED  BY <2>1, PatientSteps
<1>3. PatientInv => ServedInTime  BY PatientTyped DEF PatientInv, ServedInTime
<1> QED  BY <1>1, <1>2, <1>3, PTL DEF PhoneSpec

-----------------------------------------------------------------------------
(* The start.                                                              *)
(*                                                                         *)
(* Shaped: what a state says of its request.  Awake: nothing happens in a  *)
(* process before the record was read.  Mirrored: while the store works,   *)
(* the record is of the request the coordinator has in hand.  Apart: while *)
(* it does not, that request was made without one.  Untouched: nothing is  *)
(* known of a request that was never made.  Announced: a success that      *)
(* nobody has claimed was not announced.  Owned: what is over is shown to  *)
(* its owner only.                                                         *)

StartTyped ==
    /\ Start!TypeOK
    /\ suspended \in BOOLEAN /\ hydrated \in BOOLEAN
    /\ felt \in [Request -> Nat]

Shaped ==
    /\ start.phase \in {"idle", "blocked"} => start.of = None
    /\ start.phase \in {"pending", "unresolved", "succeeded"} => start.of # None
    /\ record # None => record.of # None

Awake ==
    /\ Start!online # None \/ suspended => hydrated
    /\ ~hydrated => start.phase = "idle"

Mirrored ==
    hydrated /\ ~suspended /\ start.phase # "blocked" =>
        IF record = None THEN start.of = None ELSE record.of = start.of

Apart ==
    suspended /\ start.of # None =>
        start.of \in uncovered /\ (record # None => record.of # start.of)

Untouched ==
    \A r \in Request : fates[r] = "unused" =>
        start.of # r /\ (record # None => record.of # r) /\ felt[r] = 0

Announced ==
    /\ Start!AnnouncedOnce
    /\ start.of # None /\ ~start.claimed => felt[start.of] = 0
    /\ record # None /\ ~record.claimed => felt[record.of] = 0

Owned ==
    Start!online # None =>
        /\ Start!Terminal(start) => start.owner = Start!online
        /\ start.phase = "pending" /\ start.owner # Start!online => start.quarantined

StartInv ==
    /\ StartTyped /\ Shaped /\ Awake /\ Mirrored /\ Apart /\ Untouched
    /\ Start!NothingForgotten /\ Start!OutcomeIsTrue /\ Announced /\ Owned

\* Nothing is a request or a state that is None.
LEMMA NoneIsNothing ==
    /\ None \notin Request /\ None \notin Session /\ None \notin Start!State
  BY StartConstants DEF Start!StartAssumption

\* What the store keeps of a state is a state of the same request.
LEMMA Recorded ==
    \A m \in Start!State :
        /\ Start!Record(m) \in Start!State /\ Start!Record(m) # None
        /\ Start!Record(m).of = m.of /\ Start!Record(m).owner = m.owner
        /\ Start!Record(m).claimed = m.claimed
        /\ Start!Record(m).phase = IF m.phase = "pending" THEN "unresolved" ELSE m.phase
<1> SUFFICES ASSUME NEW m \in Start!State
             PROVE  /\ Start!Record(m) \in Start!State /\ Start!Record(m) # None
                    /\ Start!Record(m).of = m.of /\ Start!Record(m).owner = m.owner
                    /\ Start!Record(m).claimed = m.claimed
                    /\ Start!Record(m).phase = IF m.phase = "pending" THEN "unresolved"
                                               ELSE m.phase
  OBVIOUS
<1> DEFINE once == [m EXCEPT !.phase = IF @ = "pending" THEN "unresolved" ELSE @]
<1>1. /\ once \in Start!State /\ once.of = m.of /\ once.owner = m.owner
      /\ once.claimed = m.claimed
      /\ once.phase = IF m.phase = "pending" THEN "unresolved" ELSE m.phase
  BY DEF Start!State, Start!Phases
<1>2. Start!Record(m) = [once EXCEPT !.quarantined = FALSE]
  BY DEF Start!Record
<1> HIDE DEF once
<1>3. /\ Start!Record(m) \in Start!State /\ Start!Record(m).of = m.of
      /\ Start!Record(m).owner = m.owner /\ Start!Record(m).claimed = m.claimed
      /\ Start!Record(m).phase = once.phase
  BY <1>1, <1>2 DEF Start!State
<1> QED  BY <1>1, <1>3, NoneIsNothing

\* An idle or blocked coordinator has no request.
LEMMA Blank ==
    /\ Start!Idle \in Start!State /\ Start!Blocked \in Start!State
    /\ Start!Idle.of = None /\ Start!Blocked.of = None
    /\ Start!Idle.phase = "idle" /\ Start!Blocked.phase = "blocked"
<1>1. /\ Start!Idle \in Start!State /\ Start!Idle.of = None
      /\ Start!Idle.phase = "idle"
  BY DEF Start!Idle, Start!State, Start!Phases
<1>2. \A m \in Start!State : /\ [m EXCEPT !.phase = "blocked"] \in Start!State
                             /\ [m EXCEPT !.phase = "blocked"].phase = "blocked"
                             /\ [m EXCEPT !.phase = "blocked"].of = m.of
  BY DEF Start!State, Start!Phases
<1>3. Start!Blocked = [Start!Idle EXCEPT !.phase = "blocked"]  BY DEF Start!Blocked
<1> QED  BY <1>1, <1>2, <1>3

\* When the store refuses, what it has is what it had, and of every request
\* in hand it has the record.
LEMMA ThrowKeeps ==
    ASSUME StartInv, Start!Throws, hydrated' = TRUE,
           UNCHANGED <<suspended, fates, uncovered, felt>>,
           dismissed \subseteq dismissed', dismissed' \subseteq Request,
           auth' \in [phase : Start!AuthPhases, session : Session \cup {None}]
    PROVE  StartInv'
<1>1. /\ start' = Start!Blocked /\ faults' = faults + 1 /\ faults < MaxStartFaults
      /\ UNCHANGED record /\ ~suspended
  BY DEF Start!Throws, Start!Refuses
<1>2. start' \in Start!State /\ start'.of = None /\ start'.phase = "blocked"
  BY <1>1, Blank
<1>3. faults' \in 0..MaxStartFaults
  BY <1>1, StartConstants DEF Start!StartAssumption, StartInv, StartTyped, Start!TypeOK
<1>4. StartTyped'
  BY <1>1, <1>2, <1>3 DEF StartInv, StartTyped, Start!TypeOK
<1>5. \A r \in Request : start.of = r => record # None /\ record.of = r
  BY <1>1, Blank, NoneIsNothing DEF StartInv, Shaped, Awake, Mirrored
<1>6. Shaped' /\ Awake' /\ Mirrored' /\ Apart' /\ Owned'
  BY <1>1, <1>2 DEF StartInv, Shaped, Awake, Mirrored, Apart, Owned, Start!Terminal
<1>7. Untouched'
  BY <1>1, <1>2, NoneIsNothing DEF StartInv, Untouched
<1>8. Start!NothingForgotten'
  BY <1>1, <1>5 DEF StartInv, Start!NothingForgotten
<1>9. Start!OutcomeIsTrue'
  BY <1>1, <1>2 DEF StartInv, Start!OutcomeIsTrue
<1>10. Announced'
  BY <1>1, <1>2 DEF StartInv, Announced, Start!AnnouncedOnce
<1> QED  BY <1>4, <1>6, <1>7, <1>8, <1>9, <1>10 DEF StartInv

\* A step of the request in hand: what was learned of it is written down.
LEMMA TakesOn ==
    ASSUME StartInv, NEW m \in Start!State, Start!Take(m),
           m.of = start.of, m.owner = start.owner,
           start.phase \in {"pending", "succeeded"},
           m.phase \in {"unresolved", "succeeded", "failed"},
           m.phase = "succeeded" => fates[m.of] = "done",
           m.phase = "failed" => fates[m.of] \in {"kept", "refused"},
           start.phase = "pending" /\ Start!Terminal(m) => ~start.quarantined,
           felt' \in [Request -> Nat], start' # m => felt' = felt,
           \A r \in Request : r # m.of => felt'[r] = felt[r],
           felt'[m.of] <= 1, ~m.claimed => felt'[m.of] = 0,
           UNCHANGED <<auth, suspended, hydrated, fates, dismissed, uncovered>>
    PROVE  StartInv'
<1>1. /\ hydrated = TRUE /\ start.of # None /\ m.of \in Request /\ start # None
  <2>1. start \in Start!State /\ hydrated \in BOOLEAN
    BY DEF StartInv, StartTyped, Start!TypeOK
  <2>2. hydrated = TRUE  BY <2>1, Blank DEF StartInv, Awake
  <2>3. start.of # None  BY DEF StartInv, Shaped
  <2>4. m.of \in Request \cup {None}  BY DEF Start!State
  <2> QED  BY <2>1, <2>2, <2>3, <2>4, NoneIsNothing
<1>2. auth \in [phase : Start!AuthPhases, session : Session \cup {None}]
      /\ dismissed \subseteq Request
  BY DEF StartInv, StartTyped, Start!TypeOK
<1>3. CASE Start!Throws
  <2>1. Start!Blocked # m  BY Blank
  <2>2. felt' = felt  BY <1>3, <2>1 DEF Start!Throws
  <2> QED  BY <1>1, <1>2, <1>3, <2>2, ThrowKeeps
<1>4. CASE /\ start' = m /\ record' = (IF suspended THEN record ELSE Start!Record(m))
           /\ UNCHANGED faults
  <2> DEFINE rec == Start!Record(m)
  <2>1. /\ rec \in Start!State /\ rec # None /\ rec.of = m.of /\ rec.claimed = m.claimed
        /\ rec.phase = m.phase
    BY Recorded
  <2>2. record' = (IF suspended THEN record ELSE rec)  BY <1>4
  <2> HIDE DEF rec
  <2>3. StartTyped'
    BY <1>4, <2>1, <2>2 DEF StartInv, StartTyped, Start!TypeOK
  <2>4. Shaped' /\ Awake' /\ Mirrored' /\ Apart'
    BY <1>1, <1>4, <2>1, <2>2 DEF StartInv, Shaped, Awake, Mirrored, Apart, Start!online
  <2>5. Untouched'
    BY <1>1, <1>4, <2>1, <2>2 DEF StartInv, Untouched
  <2>6. Start!NothingForgotten'
    <3>1. suspended \/ record = None \/ record.of = start.of
      BY <1>1 DEF StartInv, Mirrored
    <3> QED  BY <1>4, <2>1, <2>2, <3>1 DEF StartInv, Start!NothingForgotten
  <2>7. Start!OutcomeIsTrue'
    BY <1>4, <2>1, <2>2 DEF StartInv, Start!OutcomeIsTrue
  <2>8. Announced'
    <3>1. Start!AnnouncedOnce'
      BY DEF StartInv, Announced, Start!AnnouncedOnce
    <3>2. start'.of # None /\ ~start'.claimed => felt'[start'.of] = 0
      BY <1>4
    <3>3. record' # None /\ ~record'.claimed => felt'[record'.of] = 0
      <4>1. CASE suspended /\ record # None
        <5>1. record.of # m.of /\ record.of \in Request
          BY <1>1, <4>1 DEF StartInv, Apart, Shaped, StartTyped, Start!TypeOK, Start!State
        <5> QED  BY <2>2, <4>1, <5>1 DEF StartInv, Announced
      <4> QED  BY <2>1, <2>2, <4>1
    <3> QED  BY <3>1, <3>2, <3>3 DEF Announced
  <2>9. Owned'
    BY <1>4 DEF StartInv, Owned, Start!Terminal, Start!online
  <2> QED  BY <2>3, <2>4, <2>5, <2>6, <2>7, <2>8, <2>9 DEF StartInv
<1> QED  BY <1>3, <1>4 DEF Start!Take

\* Forgetting is for what somebody has dealt with.
LEMMA ClearsUp ==
    ASSUME StartInv, Start!Clear, hydrated = TRUE, start.phase # "blocked",
           dismissed' = dismissed \cup Start!Behind(start),
           auth' \in [phase : Start!AuthPhases, session : Session \cup {None}],
           UNCHANGED <<suspended, hydrated, fates, uncovered, felt>>
    PROVE  StartInv'
<1>1. start \in Start!State /\ dismissed \subseteq Request
  BY DEF StartInv, StartTyped, Start!TypeOK
<1>2. dismissed' \subseteq Request /\ dismissed \subseteq dismissed'
  BY <1>1 DEF Start!Behind, Start!State
<1>3. CASE Start!Throws  BY <1>2, <1>3, ThrowKeeps
<1>4. CASE /\ start' = Start!Idle /\ record' = (IF suspended THEN record ELSE None)
           /\ UNCHANGED faults
  <2>1. start.of # None => start.of \in dismissed'  BY <1>4 DEF Start!Behind
  <2>2. StartTyped'
    BY <1>2, <1>4, Blank DEF StartInv, StartTyped, Start!TypeOK
  <2>3. Shaped' /\ Awake' /\ Mirrored' /\ Apart'
    BY <1>4, Blank DEF StartInv, Shaped, Awake, Mirrored, Apart
  <2>4. Untouched'  BY <1>4, Blank, NoneIsNothing DEF StartInv, Untouched
  <2>5. Start!NothingForgotten'
    <3>1. suspended \/ record = None \/ record.of = start.of
      BY DEF StartInv, Mirrored
    <3>2. ASSUME NEW r \in Request, fates[r] \notin {"unused", "kept"},
                 r \notin dismissed' \cup uncovered
          PROVE  record' # None /\ record'.of = r
      <4>1. r # start.of  BY <2>1, <3>2, NoneIsNothing
      <4>2. record # None /\ record.of = r
        BY <1>2, <3>2, <4>1 DEF StartInv, Start!NothingForgotten
      <4> QED  BY <1>4, <3>1, <4>1, <4>2
    <3> QED  BY <3>2 DEF Start!NothingForgotten
  <2>6. Start!OutcomeIsTrue'  BY <1>4, Blank DEF StartInv, Start!OutcomeIsTrue
  <2>7. Announced'  BY <1>4, Blank DEF StartInv, Announced, Start!AnnouncedOnce
  <2>8. Owned'  BY <1>4, Blank DEF StartInv, Owned, Start!Terminal
  <2> QED  BY <2>2, <2>3, <2>4, <2>5, <2>6, <2>7, <2>8 DEF StartInv
<1> QED  BY <1>3, <1>4 DEF Start!Clear

\* What a state says of its request is so.
SaysTrue(m, f) ==
    m.of # None =>
        /\ m.phase = "succeeded" => f[m.of] = "done"
        /\ m.phase = "failed" => f[m.of] \in {"kept", "refused"}

LEMMA Outcomes ==
    /\ Start!OutcomeIsTrue
          <=> SaysTrue(start, fates) /\ (record # None => SaysTrue(record, fates))
    /\ Start!OutcomeIsTrue'
          <=> SaysTrue(start', fates') /\ (record' # None => SaysTrue(record', fates'))
<1>1. Start!OutcomeIsTrue
          <=> SaysTrue(start, fates) /\ (record # None => SaysTrue(record, fates))
  BY DEF Start!OutcomeIsTrue, SaysTrue
<1>2. Start!OutcomeIsTrue'
          <=> SaysTrue(start', fates') /\ (record' # None => SaysTrue(record', fates'))
  BY DEF Start!OutcomeIsTrue, SaysTrue
<1> QED  BY <1>1, <1>2

\* The mark of a state that is put aside changes nothing else of it.
LEMMA PutAside ==
    \A m \in Start!State, q \in BOOLEAN :
        /\ [m EXCEPT !.quarantined = q] \in Start!State
        /\ [m EXCEPT !.quarantined = q].quarantined = q
        /\ [m EXCEPT !.quarantined = q].of = m.of
        /\ [m EXCEPT !.quarantined = q].phase = m.phase
        /\ [m EXCEPT !.quarantined = q].owner = m.owner
        /\ [m EXCEPT !.quarantined = q].claimed = m.claimed
  BY DEF Start!State

\* What is observed puts a pending request of somebody else aside, and its
\* known outcome is forgotten.
LEMMA ReconcileKeeps ==
    ASSUME StartInv, NEW phase1 \in Start!AuthPhases, NEW s \in Session \cup {None},
           Start!Reconcile(start, phase1, s),
           auth' = [phase |-> phase1, session |-> s],
           phase1 = "online" => hydrated,
           dismissed' = dismissed \cup Start!Behind(start),
           UNCHANGED <<suspended, hydrated, fates, uncovered, felt>>
    PROVE  StartInv'
<1>1. auth' \in [phase : Start!AuthPhases, session : Session \cup {None}]  OBVIOUS
<1>2. start \in Start!State /\ dismissed \subseteq Request /\ hydrated \in BOOLEAN
  BY DEF StartInv, StartTyped, Start!TypeOK
<1>3. CASE Start!Terminal(start) /\ Start!Clear
  <2>1. hydrated = TRUE /\ start.phase # "blocked"
    BY <1>2, <1>3 DEF StartInv, Awake, Start!Terminal
  <2> QED  BY <1>1, <1>3, <2>1, ClearsUp
<1>4. CASE /\ ~(Start!Leaves(start, phase1, s) /\ Start!Terminal(start))
           /\ start' = [start EXCEPT !.quarantined =
                 @ \/ (start.phase = "pending" /\ Start!Leaves(start, phase1, s))]
           /\ UNCHANGED <<record, faults>>
  <2> DEFINE q == start.quarantined
                    \/ (start.phase = "pending" /\ Start!Leaves(start, phase1, s))
  <2>1. q \in BOOLEAN /\ start' = [start EXCEPT !.quarantined = q]
    BY <1>2, <1>4 DEF Start!State
  <2>2. start.phase = "pending" /\ Start!Leaves(start, phase1, s) => q  OBVIOUS
  <2> HIDE DEF q
  <2>3. /\ start' \in Start!State /\ start'.of = start.of /\ start'.phase = start.phase
        /\ start'.owner = start.owner /\ start'.claimed = start.claimed
        /\ start'.quarantined = q
    BY <1>2, <2>1, PutAside
  <2>4. dismissed \subseteq dismissed' /\ dismissed' \subseteq Request
    BY <1>2 DEF Start!Behind, Start!State
  <2>5. StartTyped'
    BY <1>1, <1>4, <2>3, <2>4 DEF StartInv, StartTyped, Start!TypeOK
  <2>6. Start!online' # None => phase1 = "online" /\ Start!online' = s
    BY DEF Start!online
  <2>7. Shaped' /\ Awake' /\ Mirrored' /\ Apart' /\ Untouched'
    BY <1>4, <2>3, <2>6 DEF StartInv, Shaped, Awake, Mirrored, Apart, Untouched
  <2>8. Start!NothingForgotten'
    BY <1>4, <2>3, <2>4 DEF StartInv, Start!NothingForgotten
  <2>9. Start!OutcomeIsTrue'  BY <1>4, <2>3, Outcomes DEF StartInv, SaysTrue
  <2>10. Announced'  BY <1>4, <2>3 DEF StartInv, Announced, Start!AnnouncedOnce
  <2>11. Owned'
    BY <1>4, <2>2, <2>3, <2>6 DEF Owned, Start!Terminal, Start!Leaves
  <2> QED  BY <2>5, <2>7, <2>8, <2>9, <2>10, <2>11 DEF StartInv
<1> QED  BY <1>3, <1>4 DEF Start!Reconcile

\* The record that a new process reads stands for the request that the one
\* before it had in hand.
LEMMA HydrateKeeps ==
    ASSUME StartInv, ~hydrated, hydrated' = TRUE, NEW s \in Session \cup {None},
           Start!ReconcileHydrated("online", s) \/ Start!Throws,
           auth' = [phase |-> "online", session |-> s],
           dismissed' = dismissed \cup Start!Behind(Start!Hydrated),
           UNCHANGED <<suspended, fates, uncovered, felt>>
    PROVE  StartInv'
<1> DEFINE h == Start!Hydrated
<1>1. auth' \in [phase : Start!AuthPhases, session : Session \cup {None}]
  BY DEF Start!AuthPhases
<1>2. record \in Start!State \cup {None} /\ dismissed \subseteq Request
      /\ (record # None => record.phase \in {"unresolved", "succeeded", "failed"})
  BY DEF StartInv, StartTyped, Start!TypeOK
<1>3. /\ h \in Start!State
      /\ record = None => h = Start!Idle
      /\ record # None => h = record
  BY <1>2, Blank DEF Start!Hydrated
<1>4. h.phase # "pending" /\ h.phase # "blocked"
  BY <1>2, <1>3, Blank
<1>5. ~suspended /\ start.of = None  BY DEF StartInv, Shaped, Awake
<1> HIDE DEF h
<1>6. dismissed \subseteq dismissed' /\ dismissed' \subseteq Request
      /\ (start' = Start!Idle /\ h.of # None => h.of \in dismissed')
  BY <1>2, <1>3 DEF Start!Behind, Start!State, h
<1>7. CASE Start!Throws  BY <1>1, <1>6, <1>7, ThrowKeeps
<1>8. CASE Start!Clear /\ ~Start!Throws
  <2>1. start' = Start!Idle /\ record' = None /\ UNCHANGED faults
    BY <1>5, <1>8 DEF Start!Clear
  <2>2. StartTyped'
    BY <1>1, <1>6, <2>1, Blank DEF StartInv, StartTyped, Start!TypeOK
  <2>3. Shaped' /\ Awake' /\ Mirrored' /\ Apart'
    BY <2>1, Blank DEF Shaped, Awake, Mirrored, Apart
  <2>4. Untouched'  BY <2>1, Blank, NoneIsNothing DEF StartInv, Untouched
  <2>5. Start!NothingForgotten'
    <3>1. ASSUME NEW r \in Request, fates[r] \notin {"unused", "kept"},
                 r \notin dismissed' \cup uncovered
          PROVE  FALSE
      <4>1. record # None /\ record.of = r
        BY <1>5, <1>6, <3>1, NoneIsNothing DEF StartInv, Start!NothingForgotten
      <4> QED  BY <1>3, <1>6, <2>1, <3>1, <4>1, NoneIsNothing
    <3> QED  BY <3>1 DEF Start!NothingForgotten
  <2>6. Start!OutcomeIsTrue'  BY <2>1, Blank DEF Start!OutcomeIsTrue
  <2>7. Announced'  BY <2>1, Blank DEF StartInv, Announced, Start!AnnouncedOnce
  <2>8. Owned'  BY <2>1, Blank DEF Owned, Start!Terminal
  <2> QED  BY <2>2, <2>3, <2>4, <2>5, <2>6, <2>7, <2>8 DEF StartInv
<1>9. CASE /\ ~(Start!Leaves(h, "online", s) /\ Start!Terminal(h))
           /\ start' = [h EXCEPT !.quarantined =
                 @ \/ (h.phase = "pending" /\ Start!Leaves(h, "online", s))]
           /\ UNCHANGED <<record, faults>>
  <2>1. start' = [h EXCEPT !.quarantined = h.quarantined] /\ h.quarantined \in BOOLEAN
    BY <1>3, <1>4, <1>9 DEF Start!State
  <2>2. /\ start' \in Start!State /\ start'.of = h.of /\ start'.phase = h.phase
        /\ start'.owner = h.owner /\ start'.claimed = h.claimed
    BY <1>3, <2>1, PutAside
  <2>3. StartTyped'
    BY <1>1, <1>6, <1>9, <2>2 DEF StartInv, StartTyped, Start!TypeOK
  <2>4. record = None => h.of = None /\ h.phase = "idle"  BY <1>3, Blank
  <2>5. record # None => h.of = record.of /\ h.phase = record.phase /\ h.owner = record.owner
                         /\ h.claimed = record.claimed
    BY <1>3
  <2>6. Shaped' /\ Awake' /\ Mirrored' /\ Apart' /\ Untouched'
    BY <1>2, <1>5, <1>9, <2>2, <2>4, <2>5, NoneIsNothing
       DEF StartInv, Shaped, Awake, Mirrored, Apart, Untouched
  <2>7. Start!NothingForgotten'
    BY <1>5, <1>6, <1>9, NoneIsNothing DEF StartInv, Start!NothingForgotten
  <2>8. Start!OutcomeIsTrue'
    <3>1. SaysTrue(start', fates')
      <4>1. CASE record = None  BY <2>2, <2>4, <4>1 DEF SaysTrue
      <4>2. CASE record # None
        <5>1. SaysTrue(record, fates)  BY <4>2, Outcomes DEF StartInv
        <5> QED  BY <2>2, <2>5, <4>2, <5>1 DEF SaysTrue
      <4> QED  BY <4>1, <4>2
    <3> QED  BY <1>9, <3>1, Outcomes DEF StartInv
  <2>9. Announced'
    BY <1>9, <2>2, <2>4, <2>5 DEF StartInv, Announced, Start!AnnouncedOnce
  <2>10. Owned'
    BY <1>4, <1>9, <2>2 DEF Owned, Start!Terminal, Start!Leaves, Start!online
  <2> QED  BY <2>3, <2>6, <2>7, <2>8, <2>9, <2>10 DEF StartInv
<1> QED  BY <1>7, <1>8, <1>9 DEF Start!ReconcileHydrated, Start!Reconcile, h

LEMMA ObserveKeeps ==
    ASSUME StartInv, NEW phase1 \in Start!AuthPhases, NEW s \in Session \cup {None},
           Start!Observe(phase1, s)
    PROVE  StartInv'
<1>1. /\ auth' = [phase |-> phase1, session |-> s]
      /\ UNCHANGED <<suspended, fates, uncovered, felt>>
  BY DEF Start!Observe
<1>2. CASE phase1 = "online" /\ ~hydrated
  <2>1. /\ hydrated' = TRUE
        /\ Start!ReconcileHydrated("online", s) \/ Start!Throws
        /\ dismissed' = dismissed \cup Start!Behind(Start!Hydrated)
    BY <1>2 DEF Start!Observe
  <2> QED  BY <1>1, <1>2, <2>1, HydrateKeeps
<1>3. CASE ~(phase1 = "online" /\ ~hydrated)
  <2>1. /\ Start!Reconcile(start, phase1, s)
        /\ dismissed' = dismissed \cup Start!Behind(start)
        /\ UNCHANGED hydrated
    BY <1>3 DEF Start!Observe
  <2> QED  BY <1>1, <1>3, <2>1, ReconcileKeeps
<1> QED  BY <1>2, <1>3

\* A new request is made only where no other is in hand, and is written down
\* before it leaves.
LEMMA SubmitKeeps ==
    ASSUME StartInv, NEW r \in Request, Start!Submit(r)
    PROVE  StartInv'
<1> DEFINE m == [Start!Idle EXCEPT !.phase = "pending", !.of = r, !.owner = Start!online]
           rec == Start!Record(m)
<1>1. PICK fate \in {"kept", "sent"} :
        /\ Start!Take(m)
        /\ fates' = [fates EXCEPT ![r] = IF start' = m THEN fate ELSE "kept"]
  BY DEF Start!Submit
<1>2. /\ Start!online # None /\ Start!Admits /\ fates[r] = "unused"
      /\ uncovered' = IF suspended THEN uncovered \cup {r} ELSE uncovered
      /\ UNCHANGED <<auth, over, suspended, hydrated, dismissed, felt>>
  BY DEF Start!Submit
<1>3. start.phase = "idle" /\ start.of = None
  BY <1>2 DEF Start!Admits, Start!Visible, Start!Terminal, StartInv, Shaped
<1>4. /\ hydrated /\ fates \in [Request -> {"unused", "kept", "sent", "done", "refused"}]
      /\ auth \in [phase : Start!AuthPhases, session : Session \cup {None}]
      /\ dismissed \subseteq Request
  BY <1>2 DEF StartInv, Awake, StartTyped, Start!TypeOK
<1>5. /\ m \in Start!State /\ m.phase = "pending" /\ m.of = r /\ m.owner = Start!online
      /\ ~m.claimed
  <2>1. Start!online \in Session \cup {None}  BY <1>4 DEF Start!online
  <2>2. \A i \in Start!State :
          LET e == [i EXCEPT !.phase = "pending", !.of = r, !.owner = Start!online]
          IN  /\ e \in Start!State /\ e.phase = "pending" /\ e.of = r
              /\ e.owner = Start!online /\ e.claimed = i.claimed
    BY <2>1 DEF Start!State, Start!Phases
  <2>3. ~Start!Idle.claimed  BY DEF Start!Idle
  <2> QED  BY <2>2, <2>3, Blank
<1>6. rec \in Start!State /\ rec # None /\ rec.of = r /\ ~rec.claimed
      /\ rec.phase = "unresolved"
  BY <1>5, Recorded
<1>7. r # None /\ (record # None => record.of # r) /\ felt[r] = 0
  BY <1>2, NoneIsNothing DEF StartInv, Untouched
<1>8. ~suspended => record = None
  BY <1>3, <1>4 DEF StartInv, Mirrored, Shaped
<1>9. \/ start' = m /\ record' = (IF suspended THEN record ELSE rec) /\ UNCHANGED faults
      \/ Start!Throws
  BY <1>1 DEF Start!Take
<1> HIDE DEF m, rec
<1>10. /\ fates'[r] \in {"kept", "sent"}
       /\ \A q \in Request : q # r => fates'[q] = fates[q]
       /\ fates' \in [Request -> {"unused", "kept", "sent", "done", "refused"}]
       /\ Start!Throws => fates'[r] = "kept"
  <2>1. Start!Throws => start' # m  BY <1>5, Blank DEF Start!Throws
  <2> QED  BY <1>1, <1>4, <2>1
<1>11. record # None => record.of \in Request
  BY NoneIsNothing DEF StartInv, Shaped, StartTyped, Start!TypeOK, Start!State
<1>12. record # None => SaysTrue(record, fates')
  BY <1>7, <1>10, <1>11, Outcomes DEF StartInv, SaysTrue
<1>13. CASE start' = m /\ record' = (IF suspended THEN record ELSE rec) /\ UNCHANGED faults
  <2>1. StartTyped'
    BY <1>2, <1>5, <1>6, <1>10, <1>13 DEF StartInv, StartTyped, Start!TypeOK
  <2>2. Shaped' /\ Awake' /\ Mirrored' /\ Apart'
    BY <1>2, <1>4, <1>5, <1>6, <1>7, <1>13
       DEF StartInv, Shaped, Awake, Mirrored, Apart, Start!online
  <2>3. Untouched'
    BY <1>2, <1>5, <1>6, <1>10, <1>13 DEF StartInv, Untouched
  <2>4. Start!NothingForgotten'
    BY <1>2, <1>3, <1>5, <1>8, <1>10, <1>13, NoneIsNothing
       DEF StartInv, Start!NothingForgotten
  <2>5. Start!OutcomeIsTrue'
    <3>1. SaysTrue(m, fates') /\ SaysTrue(rec, fates')  BY <1>5, <1>6 DEF SaysTrue
    <3> QED  BY <1>12, <1>13, <3>1, Outcomes
  <2>6. Announced'
    BY <1>2, <1>5, <1>6, <1>7, <1>13 DEF StartInv, Announced, Start!AnnouncedOnce
  <2>7. Owned'
    BY <1>2, <1>5, <1>13 DEF Owned, Start!Terminal, Start!online
  <2> QED  BY <2>1, <2>2, <2>3, <2>4, <2>5, <2>6, <2>7 DEF StartInv
<1>14. CASE Start!Throws
  <2>1. /\ start' = Start!Blocked /\ faults' = faults + 1 /\ faults < MaxStartFaults
        /\ UNCHANGED record /\ ~suspended
    BY <1>14 DEF Start!Throws, Start!Refuses
  <2>2. start' \in Start!State /\ start'.of = None /\ start'.phase = "blocked"
    BY <2>1, Blank
  <2>3. faults' \in 0..MaxStartFaults
    BY <2>1, StartConstants DEF Start!StartAssumption, StartInv, StartTyped, Start!TypeOK
  <2>4. StartTyped'
    BY <1>2, <1>10, <2>1, <2>2, <2>3 DEF StartInv, StartTyped, Start!TypeOK
  <2>5. Shaped' /\ Awake' /\ Mirrored' /\ Apart' /\ Owned'
    BY <1>2, <1>4, <2>1, <2>2
       DEF StartInv, Shaped, Awake, Mirrored, Apart, Owned, Start!Terminal
  <2>6. Untouched'
    BY <1>2, <1>10, <2>1, <2>2, NoneIsNothing DEF StartInv, Untouched
  <2>7. Start!NothingForgotten'
    BY <1>2, <1>3, <1>10, <1>14, <2>1, NoneIsNothing DEF StartInv, Start!NothingForgotten
  <2>8. Start!OutcomeIsTrue'
    BY <1>12, <2>1, <2>2, Outcomes DEF SaysTrue
  <2>9. Announced'
    BY <1>2, <2>1, <2>2 DEF StartInv, Announced, Start!AnnouncedOnce
  <2> QED  BY <2>4, <2>5, <2>6, <2>7, <2>8, <2>9 DEF StartInv
<1> QED  BY <1>9, <1>13, <1>14

\* The server's word on a request that has left is the first on it.
LEMMA ServeKeeps ==
    ASSUME StartInv, NEW r \in Request, Start!Serve(r)
    PROVE  StartInv'
<1>1. PICK end \in {"done", "refused"} : fates' = [fates EXCEPT ![r] = end]
  BY DEF Start!Serve
<1>2. /\ fates[r] = "sent"
      /\ UNCHANGED <<auth, over, start, suspended, hydrated, record, dismissed,
                     uncovered, felt, faults>>
  BY DEF Start!Serve, Start!phone
<1>3. fates \in [Request -> {"unused", "kept", "sent", "done", "refused"}]
  BY DEF StartInv, StartTyped, Start!TypeOK
<1>4. /\ fates' \in [Request -> {"unused", "kept", "sent", "done", "refused"}]
      /\ fates'[r] \in {"done", "refused"}
      /\ \A q \in Request : q # r => fates'[q] = fates[q]
  BY <1>1, <1>3
<1>5. StartTyped'  BY <1>2, <1>4 DEF StartInv, StartTyped, Start!TypeOK
<1>6. Shaped' /\ Awake' /\ Mirrored' /\ Apart' /\ Owned'
  BY <1>2 DEF StartInv, Shaped, Awake, Mirrored, Apart, Owned, Start!Terminal, Start!online
<1>7. Untouched'  BY <1>2, <1>4 DEF StartInv, Untouched
<1>8. Start!NothingForgotten'
  BY <1>2, <1>4 DEF StartInv, Start!NothingForgotten
<1>9. Start!OutcomeIsTrue'
  <2>1. start.of \in Request \cup {None} /\ (record # None => record.of \in Request \cup {None})
    BY DEF StartInv, StartTyped, Start!TypeOK, Start!State
  <2>2. SaysTrue(start, fates')
    BY <1>2, <1>4, <2>1, Outcomes DEF StartInv, SaysTrue
  <2>3. record # None => SaysTrue(record, fates')
    BY <1>2, <1>4, <2>1, Outcomes DEF StartInv, SaysTrue
  <2> QED  BY <1>2, <2>2, <2>3, Outcomes
<1>10. Announced'  BY <1>2 DEF StartInv, Announced, Start!AnnouncedOnce
<1> QED  BY <1>5, <1>6, <1>7, <1>8, <1>9, <1>10 DEF StartInv

LEMMA DenyKeeps == ASSUME StartInv, Start!Deny PROVE StartInv'
<1> DEFINE m == [Start!Idle EXCEPT !.phase = "failed", !.owner = Start!online]
<1>1. /\ Start!online # None /\ start.phase = "idle" /\ start' = m
      /\ UNCHANGED <<auth, over, suspended, hydrated, record, fates, dismissed,
                     uncovered, felt, faults>>
  BY DEF Start!Deny
<1>2. /\ m \in Start!State /\ m.phase = "failed" /\ m.of = None /\ m.owner = Start!online
  <2>1. Start!online \in Session \cup {None}
    BY DEF Start!online, StartInv, StartTyped, Start!TypeOK
  <2>2. \A i \in Start!State :
          LET e == [i EXCEPT !.phase = "failed", !.owner = Start!online]
          IN  /\ e \in Start!State /\ e.phase = "failed" /\ e.of = i.of
              /\ e.owner = Start!online
    BY <2>1 DEF Start!State, Start!Phases
  <2> QED  BY <2>2, Blank
<1> HIDE DEF m
<1>3. StartTyped'  BY <1>1, <1>2 DEF StartInv, StartTyped, Start!TypeOK
<1>4. start.of = None  BY <1>1 DEF StartInv, Shaped
<1>5. Shaped' /\ Awake' /\ Mirrored' /\ Apart' /\ Untouched' /\ Owned'
  BY <1>1, <1>2, <1>4, NoneIsNothing
     DEF StartInv, Shaped, Awake, Mirrored, Apart, Untouched, Owned, Start!Terminal,
         Start!online
<1>6. Start!NothingForgotten'
  BY <1>1, <1>4, NoneIsNothing DEF StartInv, Start!NothingForgotten
<1>7. Start!OutcomeIsTrue'
  BY <1>1, <1>2, Outcomes DEF StartInv, SaysTrue
<1>8. Announced'  BY <1>1, <1>2 DEF StartInv, Announced, Start!AnnouncedOnce
<1> QED  BY <1>3, <1>5, <1>6, <1>7, <1>8 DEF StartInv

\* The app goes on without a store, or a new process begins.
LEMMA FreshKeeps ==
    ASSUME StartInv, start' = Start!Idle, suspended' \in BOOLEAN, hydrated' \in BOOLEAN,
           \/ start.phase = "blocked" /\ hydrated' = hydrated /\ UNCHANGED auth
           \/ suspended' = FALSE /\ hydrated' = FALSE /\ Start!online' = None,
           suspended' \/ ~hydrated', auth' \in [phase : Start!AuthPhases, session : Session \cup {None}],
           faults' \in 0..MaxStartFaults,
           UNCHANGED <<record, fates, dismissed, uncovered, felt>>
    PROVE  StartInv'
<1>1. start' \in Start!State /\ start'.of = None /\ start'.phase = "idle"
  BY Blank
<1>2. StartTyped'  BY <1>1 DEF StartInv, StartTyped, Start!TypeOK
<1>3. start.phase = "blocked" => hydrated
  BY DEF StartInv, Awake
<1>4. Shaped' /\ Awake' /\ Mirrored' /\ Apart' /\ Owned'
  BY <1>1, <1>3 DEF StartInv, Shaped, Awake, Mirrored, Apart, Owned, Start!Terminal
<1>5. Untouched'  BY <1>1, NoneIsNothing DEF StartInv, Untouched
<1>6. Start!NothingForgotten'
  <2>1. ASSUME NEW r \in Request, start.of = r, r \notin uncovered
        PROVE  record # None /\ record.of = r
    BY <2>1, NoneIsNothing DEF StartInv, Shaped, Awake, Mirrored, Apart, StartTyped
  <2> QED  BY <2>1 DEF StartInv, Start!NothingForgotten
<1>7. Start!OutcomeIsTrue'  BY <1>1, Outcomes DEF StartInv, SaysTrue
<1>8. Announced'  BY <1>1 DEF StartInv, Announced, Start!AnnouncedOnce
<1> QED  BY <1>2, <1>4, <1>5, <1>6, <1>7, <1>8 DEF StartInv

\* What is learned of the request in hand, and what somebody does about it.
LEMMA SettlesKeep ==
    ASSUME StartInv, Start!SettleSuccess \/ Start!SettleFailure \/ Start!SettleUnknown
    PROVE  StartInv'
<1>1. /\ start.phase = "pending" /\ start \in Start!State /\ start.of # None
      /\ start.of \in Request /\ felt \in [Request -> Nat]
      /\ UNCHANGED <<auth, over, suspended, hydrated, fates, uncovered, felt>>
  BY DEF StartInv, StartTyped, Shaped, Start!TypeOK, Start!State, Start!SettleSuccess,
         Start!SettleFailure, Start!SettleUnknown
<1>2. hydrated = TRUE /\ auth \in [phase : Start!AuthPhases, session : Session \cup {None}]
  BY <1>1 DEF StartInv, StartTyped, Awake, Start!TypeOK
<1>3. felt[start.of] <= 1 /\ (~start.claimed => felt[start.of] = 0)
  BY <1>1 DEF StartInv, Announced, Start!AnnouncedOnce
<1>4. CASE Start!Clear /\ dismissed' = dismissed \cup Start!Behind(start)
  BY <1>1, <1>2, <1>4, ClearsUp
<1>5. ASSUME NEW p \in {"succeeded", "failed"}, ~start.quarantined,
             Start!Take([start EXCEPT !.phase = p]), UNCHANGED dismissed,
             p = "succeeded" => fates[start.of] = "done",
             p = "failed" => fates[start.of] \in {"kept", "refused"}
      PROVE  StartInv'
  <2> DEFINE m == [start EXCEPT !.phase = p]
  <2>1. /\ m \in Start!State /\ m.phase = p /\ m.of = start.of /\ m.owner = start.owner
        /\ m.claimed = start.claimed
    BY <1>1 DEF Start!State, Start!Phases
  <2>2. Start!Take(m)  BY <1>5
  <2> HIDE DEF m
  <2> QED  BY <1>1, <1>3, <1>5, <2>1, <2>2, TakesOn
<1>6. CASE Start!SettleSuccess
  BY <1>4, <1>5, <1>6 DEF Start!SettleSuccess
<1>7. CASE Start!SettleFailure
  BY <1>4, <1>5, <1>7 DEF Start!SettleFailure, Start!KnownNotDone
<1>8. CASE Start!SettleUnknown
  <2> DEFINE m == [start EXCEPT !.phase = "unresolved", !.quarantined = FALSE]
  <2>1. /\ m \in Start!State /\ m.phase = "unresolved" /\ m.of = start.of
        /\ m.owner = start.owner /\ m.claimed = start.claimed
    BY <1>1 DEF Start!State, Start!Phases
  <2>2. Start!Take(m) /\ UNCHANGED dismissed  BY <1>8 DEF Start!SettleUnknown
  <2>3. ~Start!Terminal(m)  BY <2>1 DEF Start!Terminal
  <2> HIDE DEF m
  <2> QED  BY <1>1, <1>3, <2>1, <2>2, <2>3, TakesOn
<1> QED  BY <1>6, <1>7, <1>8

LEMMA DismissalsKeep ==
    ASSUME StartInv, Start!Acknowledge \/ Start!AcknowledgeUnresolved
    PROVE  StartInv'
<1>1. /\ Start!Clear /\ dismissed' = dismissed \cup Start!Behind(start)
      /\ UNCHANGED <<auth, over, suspended, hydrated, fates, uncovered, felt>>
      /\ start.phase # "blocked" /\ start.phase # "idle"
  BY DEF Start!Acknowledge, Start!AcknowledgeUnresolved, Start!MayAcknowledge,
         Start!MayDismiss, Start!Terminal
<1>2. hydrated = TRUE /\ auth \in [phase : Start!AuthPhases, session : Session \cup {None}]
  BY <1>1 DEF StartInv, StartTyped, Awake, Start!TypeOK
<1> QED  BY <1>1, <1>2, ClearsUp

LEMMA ClaimKeeps == ASSUME StartInv, Start!ClaimSuccessFeedback PROVE StartInv'
<1> DEFINE m == [start EXCEPT !.claimed = TRUE]
<1>1. /\ start.phase = "succeeded" /\ ~start.claimed /\ start \in Start!State
      /\ start.of # None /\ start.of \in Request /\ felt \in [Request -> Nat]
      /\ UNCHANGED <<auth, over, suspended, hydrated, fates, dismissed, uncovered>>
      /\ Start!Take(m)
      /\ felt' = IF start' = m THEN [felt EXCEPT ![m.of] = @ + 1] ELSE felt
  BY DEF StartInv, StartTyped, Shaped, Start!TypeOK, Start!State, Start!Claim,
         Start!ClaimSuccessFeedback
<1>2. felt[start.of] = 0 /\ fates[start.of] = "done"
  BY <1>1, Outcomes DEF StartInv, Announced, SaysTrue
<1>3. /\ m \in Start!State /\ m.phase = "succeeded" /\ m.of = start.of
      /\ m.owner = start.owner /\ m.claimed
  BY <1>1 DEF Start!State
<1> HIDE DEF m
<1>4. /\ felt' \in [Request -> Nat] /\ felt'[m.of] <= 1
      /\ \A r \in Request : r # m.of => felt'[r] = felt[r]
      /\ start' # m => felt' = felt
  BY <1>1, <1>2, <1>3
<1> QED  BY <1>1, <1>2, <1>3, <1>4, TakesOn

LEMMA LeavingKeeps ==
    ASSUME StartInv, Start!ContinueWithoutRecovery \/ Start!Kill
    PROVE  StartInv'
<1>1. /\ hydrated \in BOOLEAN /\ suspended \in BOOLEAN /\ faults \in 0..MaxStartFaults
      /\ auth \in [phase : Start!AuthPhases, session : Session \cup {None}]
  BY DEF StartInv, StartTyped, Start!TypeOK
<1>2. CASE Start!ContinueWithoutRecovery
  BY <1>1, <1>2, FreshKeeps DEF Start!ContinueWithoutRecovery, Start!MayContinue
<1>3. CASE Start!Kill
  <2>1. /\ faults < MaxStartFaults /\ faults' = faults + 1
        /\ start' = Start!Idle /\ suspended' = FALSE /\ hydrated' = FALSE
        /\ auth' = [auth EXCEPT !.phase = IF @ = "online" THEN "away" ELSE @]
        /\ UNCHANGED <<record, fates, dismissed, uncovered, felt>>
    BY <1>3 DEF Start!Kill
  <2>2. auth' \in [phase : Start!AuthPhases, session : Session \cup {None}]
        /\ auth'.phase # "online"
    BY <1>1, <2>1 DEF Start!AuthPhases
  <2>3. Start!online' = None  BY <2>2 DEF Start!online
  <2>4. faults' \in 0..MaxStartFaults
    BY <1>1, <2>1, StartConstants DEF Start!StartAssumption
  <2> QED  BY <2>1, <2>2, <2>3, <2>4, FreshKeeps
<1> QED  BY <1>2, <1>3

LEMMA StartInitially == ASSUME Start!Init PROVE StartInv
<1>1. StartTyped
  <2>1. auth \in [phase : Start!AuthPhases, session : Session \cup {None}]
    BY DEF Start!Init, Start!AuthPhases
  <2>2. faults \in 0..MaxStartFaults
    BY StartConstants DEF Start!StartAssumption, Start!Init
  <2> QED  BY <2>1, <2>2, Blank DEF Start!Init, StartTyped, Start!TypeOK
<1>2. Shaped /\ Awake /\ Mirrored /\ Apart /\ Untouched /\ Owned
  BY Blank, NoneIsNothing DEF Start!Init, Shaped, Awake, Mirrored, Apart, Untouched, Owned,
     Start!online
<1>3. Start!NothingForgotten  BY DEF Start!Init, Start!NothingForgotten
<1>4. Start!OutcomeIsTrue  BY Blank, Outcomes DEF Start!Init, SaysTrue
<1>5. Announced  BY Blank DEF Start!Init, Announced, Start!AnnouncedOnce
<1> QED  BY <1>1, <1>2, <1>3, <1>4, <1>5 DEF StartInv

LEMMA StartSteps == ASSUME StartInv, [Start!Next]_starting PROVE StartInv'
<1>1. CASE UNCHANGED starting
  <2>1. UNCHANGED <<auth, over, start, suspended, hydrated, record, fates, dismissed,
                    uncovered, felt, faults>>
    BY <1>1 DEF starting
  <2>2. StartTyped'  BY <2>1 DEF StartInv, StartTyped, Start!TypeOK
  <2>3. Shaped' /\ Awake' /\ Mirrored' /\ Apart' /\ Untouched' /\ Announced' /\ Owned'
    BY <2>1 DEF StartInv, Shaped, Awake, Mirrored, Apart, Untouched, Announced, Owned,
                Start!AnnouncedOnce, Start!online, Start!Terminal
  <2>4. Start!NothingForgotten'  BY <2>1 DEF StartInv, Start!NothingForgotten
  <2>5. Start!OutcomeIsTrue'  BY <2>1, Outcomes DEF StartInv
  <2> QED  BY <2>2, <2>3, <2>4, <2>5 DEF StartInv
<1>2. CASE Start!Next
  BY <1>2, ObserveKeeps, SubmitKeeps, ServeKeeps, DenyKeeps, SettlesKeep, DismissalsKeep,
     ClaimKeeps, LeavingKeeps DEF Start!Next
<1> QED  BY <1>1, <1>2

THEOREM StartInductive == PhoneSpec => []StartInv
<1>1. PhoneInit => StartInv  BY StartInitially DEF PhoneInit, Elsewhere
<1>2. StartInv /\ [PhoneNext]_everything => StartInv'
  <2>1. [PhoneNext]_everything => [Start!Next]_starting  BY DEF PhoneNext, everything
  <2> QED  BY <2>1, StartSteps
<1> QED  BY <1>1, <1>2, PTL DEF PhoneSpec

\* A start made with a working store is never forgotten before somebody has
\* dealt with it, what the phone says of it is so, and its success is
\* announced once, through kills, refusals of the keychain and changes of who
\* is signed in.
THEOREM StartsAreKnown == PhoneSpec => []StartsAreTold
<1>1. StartInv => StartsAreTold
  BY DEF StartInv, StartTyped, Announced, StartsAreTold
<1> QED  BY <1>1, StartInductive, PTL

\* Whoever is online sees a start they can leave, or one that ends by itself.
THEOREM NobodyLockedOut == PhoneSpec => []AlwaysAWayOut
<1>1. StartInv => AlwaysAWayOut
  <2> SUFFICES ASSUME StartInv, Start!online # None
               PROVE  /\ Start!Visible = "idle" => start.phase = "idle"
                      /\ \/ start.phase \in {"idle", "pending"}
                         \/ Start!MayAcknowledge \/ Start!MayDismiss \/ Start!MayContinue
    BY DEF AlwaysAWayOut, Start!AlwaysAWayOut
  <2>1. start.phase \in Start!Phases
    BY DEF StartInv, StartTyped, Start!TypeOK, Start!State
  <2>2. Start!Terminal(start) => start.owner = Start!online
    BY DEF StartInv, Owned
  <2>3. Start!Visible = "idle" => start.phase = "idle"
    BY <2>1, <2>2 DEF Start!Visible, Start!Terminal
  <2>4. \/ start.phase \in {"idle", "pending"}
        \/ Start!MayAcknowledge \/ Start!MayDismiss \/ Start!MayContinue
    BY <2>1, <2>2 DEF Start!Phases, Start!Terminal, Start!MayAcknowledge,
       Start!MayDismiss, Start!MayContinue
  <2> QED  BY <2>3, <2>4
<1> QED  BY <1>1, StartInductive, PTL

-----------------------------------------------------------------------------
(* The photo.                                                              *)
(*                                                                         *)
(* Fit: a manifest names what its next call is about, and is only to be    *)
(* cleaned up when the entry is made.  Advancing: the manifest on the      *)
(* phone is never behind the controller's.  Working: the step under way is *)
(* the one the manifest announces.  Seen: what the phone reads of the      *)
(* event stays so.  Unsent: of a draft that is ready no append was ever    *)
(* given up.  Gone: nothing is left of what was discarded unposted that    *)
(* could still post it.                                                    *)

Fit(m, p) ==
    /\ m.stage \in {"uploading", "completing-upload"} => m.intent \in Photo!Epoch
    /\ m.stage = "appending" => m.media \in Photo!Epoch
    /\ m.stage \in Photo!Halted =>
          /\ m.retry \in Photo!Network
          /\ m.retry \in {"upload-bytes", "complete-upload"} => m.intent \in Photo!Epoch
          /\ m.retry = "append-entry" => m.media \in Photo!Epoch
    /\ m.stage = "cleanup-pending" => p # <<>>

Works(m, step) ==
    m.stage = IF step.op = "cleanup" THEN "cleanup-pending"
              ELSE Photo!ActiveStage(step.op)

NoneLate == \A n \in Photo!Epoch : late["append-entry"][n] = 0

PhotoTyped ==
    /\ Photo!TypeOK
    /\ open \in BOOLEAN /\ sound \in BOOLEAN
    /\ late \in [Photo!Calls -> [Photo!Epoch -> Nat]]

Kept ==
    /\ draft # None => Fit(draft, posts)
    /\ manifest # None => Fit(manifest, posts)

Advancing ==
    draft # None /\ draft.stage # "ready" => manifest = None \/ manifest.stage # "ready"

Working ==
    running # None =>
        /\ Works(draft, running)
        /\ running.op = "append-entry" /\ running.state = "ok" => posts # <<>>
        /\ running.op = "cleanup" => running.state = "unsent"

Seen == /\ view.entries # {} => posts # <<>>
        /\ ~view.open => ~open

Unsent ==
    /\ draft # None /\ draft.stage = "ready" => NoneLate
    /\ manifest # None /\ manifest.stage = "ready" => NoneLate

Gone ==
    discarded = "unposted" =>
        draft = None /\ manifest = None /\ posts = <<>> /\ (~open \/ NoneLate)

PhotoInv ==
    /\ PhotoTyped /\ Kept /\ Advancing /\ Working /\ Seen /\ Unsent /\ Gone
    /\ Photo!PostedOnce /\ Photo!RetainedUntilPosted

\* Each call has a stage of its own, but for an upload that is taken up.
LEMMA Stages ==
    /\ Photo!ActiveStage("create-intent") = "creating-intent"
    /\ Photo!ActiveStage("acquire") = "uploading"
    /\ Photo!ActiveStage("upload-bytes") = "uploading"
    /\ Photo!ActiveStage("complete-upload") = "completing-upload"
    /\ Photo!ActiveStage("append-entry") = "appending"
  BY DEF Photo!ActiveStage

\* No manifest and no step is None.
LEMMA NoneIsNoPhoto ==
    None \notin Photo!Network /\ None \notin Photo!Manifest /\ None \notin Photo!Step
  BY PhotoConstants DEF Photo!PhotoAssumption

\* What was under way has an unknown outcome, of the call it was at.
LEMMA RestoredFits ==
    ASSUME NEW m \in Photo!Manifest, NEW p, Fit(m, p)
    PROVE  /\ Photo!Restored(m) \in Photo!Manifest /\ Fit(Photo!Restored(m), p)
           /\ Photo!Restored(m).stage = "ready" <=> m.stage = "ready"
<1>1. CASE m.stage \notin Photo!Active  BY <1>1 DEF Photo!Restored
<1>2. CASE m.stage \in Photo!Active
  <2> DEFINE op == Photo!RetryStageForActive(m.stage)
             new == [m EXCEPT !.stage = "unknown", !.retry = op]
  <2>1. \E x \in Photo!Network : Photo!ActiveStage(x) = m.stage
    BY <1>2, Stages DEF Photo!Active, Photo!Network
  <2>2. op \in Photo!Network /\ Photo!ActiveStage(op) = m.stage
    BY <2>1 DEF Photo!RetryStageForActive
  <2>3. /\ op \in {"upload-bytes", "complete-upload"}
              => m.stage \in {"uploading", "completing-upload"}
        /\ op = "append-entry" => m.stage = "appending"
    BY <2>2, Stages
  <2>4. Photo!Restored(m) = new  BY <1>2 DEF Photo!Restored
  <2> HIDE DEF op
  <2>5. /\ new \in Photo!Manifest /\ new.stage = "unknown" /\ new.retry = op
        /\ new.intent = m.intent /\ new.media = m.media
    BY <2>2 DEF Photo!Manifest, Photo!Halted
  <2> HIDE DEF new
  <2>6. Fit(new, p)  BY <2>2, <2>3, <2>5 DEF Fit
  <2> QED  BY <1>2, <2>4, <2>5, <2>6 DEF Photo!Active
<1> QED  BY <1>1, <1>2

\* What the server does for a call: a reservation is completed once, an entry
\* made once, of a completed reservation, and only while the event is open.
LEMMA Executed ==
    ASSUME PhotoInv, NEW op \in Photo!Calls, NEW n \in Photo!Epoch, NEW ok \in BOOLEAN,
           Photo!Execute(op, n, ok)
    PROVE  /\ intent' \in [Photo!Epoch -> {"none", "pending-upload", "completed", "rejected"}]
           /\ raw' \cup stored' \subseteq Photo!Epoch
           /\ Photo!PostedOnce'
           /\ posts' = posts \/ (posts = <<>> /\ posts' = <<n>> /\ op = "append-entry" /\ open)
           /\ op = "append-entry" /\ ok => posts' # <<>>
<1>1. /\ intent \in [Photo!Epoch -> {"none", "pending-upload", "completed", "rejected"}]
      /\ raw \subseteq Photo!Epoch /\ stored \subseteq Photo!Epoch
      /\ posts \in Seq(Photo!Epoch)
  BY DEF PhotoInv, PhotoTyped, Photo!TypeOK
<1>2. /\ Len(posts) <= 1 /\ \A i \in DOMAIN posts : intent[posts[i]] = "completed"
      /\ \A k \in Photo!Epoch : intent[k] = "completed" => k \in raw /\ k \in stored
  BY DEF PhotoInv, Photo!PostedOnce
<1>3. ASSUME intent' \in [Photo!Epoch -> {"none", "pending-upload", "completed", "rejected"}],
             raw \subseteq raw', stored \subseteq stored', posts' = posts,
             \A k \in Photo!Epoch : intent[k] = "completed" => intent'[k] = "completed",
             \A k \in Photo!Epoch : intent'[k] = "completed" /\ intent[k] # "completed"
                 => k \in raw' /\ k \in stored'
      PROVE  Photo!PostedOnce'
  <2>1. \A i \in DOMAIN posts : posts[i] \in Photo!Epoch  BY <1>1
  <2> QED  BY <1>2, <1>3, <2>1 DEF Photo!PostedOnce
<1>4. CASE op \in {"create-intent", "acquire"}
  <2>1. Photo!CreateIntent(n, ok)  BY <1>4 DEF Photo!Execute
  <2>2. /\ UNCHANGED <<raw, stored, posts>>
        /\ \/ intent' = intent
           \/ /\ intent[n] \in {"none", "pending-upload"}
              /\ intent' = [intent EXCEPT ![n] = "pending-upload"]
    BY <2>1 DEF Photo!CreateIntent, Photo!Grantable
  <2> QED  BY <1>1, <1>3, <1>4, <2>2
<1>5. CASE op = "upload-bytes"
  <2>1. Photo!PutRaw(n, ok)  BY <1>5 DEF Photo!Execute
  <2>2. UNCHANGED <<intent, stored, posts>> /\ raw' \in {raw, raw \cup {n}}
    BY <2>1 DEF Photo!PutRaw
  <2> QED  BY <1>1, <1>3, <1>5, <2>2
<1>6. CASE op = "complete-upload"
  <2>1. Photo!CompleteUpload(n, ok)  BY <1>6 DEF Photo!Execute
  <2>2. /\ UNCHANGED <<raw, posts>> /\ stored' \in {stored, stored \cup {n}}
        /\ \/ intent' = intent
           \/ /\ intent[n] = "pending-upload"
              /\ intent' = [intent EXCEPT ![n] = "rejected"]
           \/ /\ intent[n] = "pending-upload" /\ n \in raw /\ n \in stored'
              /\ intent' = [intent EXCEPT ![n] = "completed"]
    BY <2>1 DEF Photo!CompleteUpload
  <2> QED  BY <1>1, <1>3, <1>6, <2>2
<1>7. CASE op = "append-entry"
  <2>1. Photo!AppendEntry(n, ok)  BY <1>7 DEF Photo!Execute
  <2>2. /\ UNCHANGED <<intent, raw, stored>>
        /\ \/ posts' = posts /\ (ok => posts # <<>>)
           \/ posts = <<>> /\ posts' = <<n>> /\ open /\ intent[n] = "completed"
    BY <2>1 DEF Photo!AppendEntry
  <2>3. CASE posts' = posts /\ (ok => posts # <<>>)
    BY <1>1, <1>3, <1>7, <2>2, <2>3
  <2>4. CASE posts' = <<n>> /\ intent[n] = "completed"
    <3>1. Len(posts') <= 1 /\ DOMAIN posts' = {1} /\ posts'[1] = n /\ posts' # <<>>
      BY <2>4
    <3>2. Photo!PostedOnce'  BY <1>2, <2>2, <2>4, <3>1 DEF Photo!PostedOnce
    <3> QED  BY <1>1, <1>7, <2>2, <3>1, <3>2
  <2> QED  BY <2>2, <2>3, <2>4
<1> QED  BY <1>4, <1>5, <1>6, <1>7 DEF Photo!Calls, Photo!Network

\* A step that is under way is of a draft that is not ready any more.
LEMMA WorkIsStarted ==
    ASSUME PhotoInv, running # None
    PROVE  /\ draft # None /\ draft \in Photo!Manifest /\ draft.stage # "ready"
           /\ running \in Photo!Step /\ Fit(draft, posts) /\ Works(draft, running)
           /\ running.op \in Photo!Calls => Photo!Subject(running.op) \in Photo!Epoch
<1>1. /\ draft # None /\ draft \in Photo!Manifest /\ running \in Photo!Step
      /\ Fit(draft, posts) /\ Works(draft, running)
  BY DEF PhotoInv, PhotoTyped, Photo!TypeOK, Photo!idle, Kept, Working
<1>2. running.op \in Photo!Calls \cup {"cleanup"}  BY <1>1 DEF Photo!Step
<1>3. draft.stage # "ready"
  BY <1>1, <1>2, Stages DEF Works, Photo!Calls, Photo!Network
<1>4. draft.epoch \in Photo!Epoch  BY <1>1 DEF Photo!Manifest
<1>5. ASSUME running.op \in Photo!Calls
      PROVE  Photo!Subject(running.op) \in Photo!Epoch
  <2>1. CASE running.op = "complete-upload"
    <3>1. draft.stage = "completing-upload"  BY <1>1, <2>1, Stages DEF Works
    <3>2. Photo!Subject("complete-upload") = draft.intent  BY DEF Photo!Subject
    <3> QED  BY <1>1, <2>1, <3>1, <3>2 DEF Fit
  <2>2. CASE running.op = "append-entry"
    <3>1. draft.stage = "appending"  BY <1>1, <2>2, Stages DEF Works
    <3>2. Photo!Subject("append-entry") = draft.media  BY DEF Photo!Subject
    <3> QED  BY <1>1, <2>2, <3>1, <3>2 DEF Fit
  <2>3. CASE running.op \notin {"complete-upload", "append-entry"}
    BY <1>4, <2>3 DEF Photo!Subject
  <2> QED  BY <2>1, <2>2, <2>3
<1> QED  BY <1>1, <1>3, <1>5

\* A manifest is written before the step it announces.
LEMMA WriteKeeps ==
    ASSUME PhotoInv, NEW m \in Photo!Manifest, NEW next \in Photo!Step \cup {None},
           NEW n \in Nat, Photo!Write(m, next, n), draft # None,
           Fit(m, posts), m.stage # "ready",
           next # None => Works(m, next) /\ next.state = "unsent",
           late' \in [Photo!Calls -> [Photo!Epoch -> Nat]],
           late' = late \/ draft.stage # "ready",
           UNCHANGED <<file, view, intent, raw, stored, posts, open, sound, expired,
                       discarded>>
    PROVE  PhotoInv'
<1>1. m # None  BY NoneIsNoPhoto
<1>2. /\ draft' \in {draft, m} /\ running' \in {next, None}
      /\ running' # None => draft' = m /\ running' = next
      /\ manifest' \in {draft, m} \/ manifest' = manifest
      /\ manifest' = manifest \/ manifest # None
      /\ manifest' = None => manifest = None
  BY <1>1 DEF Photo!Write
<1>3. /\ draft' = draft \/ manifest' = m
      /\ manifest' = manifest \/ manifest = draft
  BY DEF Photo!Write
<1>4. mishaps' \in 0..MaxMishaps
  <2>1. mishaps \in 0..MaxMishaps /\ MaxMishaps \in Nat
    BY PhotoConstants DEF PhotoInv, PhotoTyped, Photo!TypeOK, Photo!PhotoAssumption
  <2> QED  BY <2>1 DEF Photo!Write, Photo!Fault
<1>5. draft \in Photo!Manifest /\ manifest \in Photo!Manifest \cup {None}
  BY DEF PhotoInv, PhotoTyped, Photo!TypeOK
<1>6. /\ draft' \in Photo!Manifest /\ manifest' \in Photo!Manifest \cup {None}
      /\ draft' # None
  BY <1>1, <1>2, <1>5
<1>7. PhotoTyped'
  BY <1>2, <1>4, <1>6 DEF PhotoInv, PhotoTyped, Photo!TypeOK, Photo!idle
<1>8. Kept'  BY <1>2 DEF PhotoInv, Kept
<1>9. Advancing'
  <2>1. CASE draft' = m  BY <1>1, <1>2, <1>3, <2>1 DEF PhotoInv, Advancing
  <2>2. CASE draft' = draft  BY <1>1, <1>2, <2>2 DEF PhotoInv, Advancing
  <2> QED  BY <1>2, <2>1, <2>2
<1>10. Working'  BY <1>2 DEF Working
<1>11. Seen'  BY DEF PhotoInv, Seen
<1>12. Unsent'
  <2>1. CASE late' = late
    BY <1>2, <2>1 DEF PhotoInv, Unsent, NoneLate
  <2>2. CASE draft.stage # "ready"
    <3>1. draft'.stage # "ready"  BY <1>2, <2>2
    <3>2. manifest' = None \/ manifest'.stage # "ready"
      BY <1>2, <2>2 DEF PhotoInv, Advancing
    <3> QED  BY <3>1, <3>2 DEF Unsent
  <2> QED  BY <2>1, <2>2
<1>13. Gone'  BY DEF PhotoInv, Gone
<1>14. Photo!PostedOnce' /\ Photo!RetainedUntilPosted'
  BY <1>2 DEF PhotoInv, Photo!PostedOnce, Photo!RetainedUntilPosted
<1> QED  BY <1>7, <1>8, <1>9, <1>10, <1>11, <1>12, <1>13, <1>14 DEF PhotoInv

\* A call that was sent may still be served when the phone has given it up.
LEMMA Abandons ==
    ASSUME PhotoInv, Photo!Abandon
    PROVE  /\ late' \in [Photo!Calls -> [Photo!Epoch -> Nat]]
           /\ late' = late \/ running # None
<1>1. late \in [Photo!Calls -> [Photo!Epoch -> Nat]]  BY DEF PhotoInv, PhotoTyped
<1>2. CASE late' = late  BY <1>1, <1>2
<1>3. CASE /\ ~Photo!idle /\ running.state = "sent"
           /\ late' = [late EXCEPT ![running.op][Photo!Subject(running.op)] = @ + 1]
  <2>1. running # None  BY <1>3 DEF Photo!idle
  <2> DEFINE op == running.op
             k == Photo!Subject(op)
             row == [late[op] EXCEPT ![k] = @ + 1]
  <2>2. running \in Photo!Step  BY <2>1, WorkIsStarted
  <2>3. CASE op \in Photo!Calls
    <3>1. late[op] \in [Photo!Epoch -> Nat] /\ k \in Photo!Epoch
      BY <1>1, <2>1, <2>3, WorkIsStarted
    <3>2. late' = [late EXCEPT ![op] = row]  BY <1>3
    <3> HIDE DEF op, k
    <3>3. row \in [Photo!Epoch -> Nat]  BY <3>1
    <3> HIDE DEF row
    <3> QED  BY <1>1, <2>1, <2>3, <3>2, <3>3
  <2>4. CASE op \notin Photo!Calls
    <3> HIDE DEF row
    <3>1. late' = [late EXCEPT ![op] = row]  BY <1>3 DEF row
    <3>2. \A x \in Photo!Calls : late'[x] = late[x]  BY <1>1, <2>4, <3>1
    <3> HIDE DEF op
    <3> QED  BY <1>1, <2>1, <3>1, <3>2
  <2> QED  BY <2>3, <2>4
<1> QED  BY <1>2, <1>3 DEF Photo!Abandon

\* The step under way goes on; the manifest stays what it is.
LEMMA StepKeeps ==
    ASSUME PhotoInv, running' \in Photo!Step, draft # None, Works(draft, running'),
           running'.op = "append-entry" /\ running'.state = "ok" => posts # <<>>,
           running'.op = "cleanup" => running'.state = "unsent",
           mishaps' \in 0..MaxMishaps,
           UNCHANGED <<manifest, draft, file, view, late, intent, raw, stored, posts, open,
                       sound, expired, discarded>>
    PROVE  PhotoInv'
<1>1. PhotoTyped'  BY DEF PhotoInv, PhotoTyped, Photo!TypeOK, Photo!idle
<1>2. Working'  BY DEF Working
<1>3. Kept' /\ Advancing' /\ Seen' /\ Unsent' /\ Gone'
  BY DEF PhotoInv, Kept, Advancing, Seen, Unsent, Gone, NoneLate
<1>4. Photo!PostedOnce' /\ Photo!RetainedUntilPosted'
  BY DEF PhotoInv, Photo!PostedOnce, Photo!RetainedUntilPosted
<1> QED  BY <1>1, <1>2, <1>3, <1>4 DEF PhotoInv

LEMMA CallsGoOn ==
    ASSUME PhotoInv, Photo!Send \/ Photo!Deny \/ Photo!RetryCleanup
    PROVE  PhotoInv'
<1>1. mishaps \in 0..MaxMishaps /\ MaxMishaps \in Nat
  BY PhotoConstants DEF PhotoInv, PhotoTyped, Photo!TypeOK, Photo!PhotoAssumption
<1>2. ASSUME NEW s \in {"sent", "refused"}, running # None, running.op \in Photo!Calls,
             running' = [running EXCEPT !.state = s]
      PROVE  /\ running' \in Photo!Step /\ draft # None /\ Works(draft, running')
             /\ ~(running'.op = "append-entry" /\ running'.state = "ok")
             /\ running'.op # "cleanup"
  <2>1. running \in Photo!Step /\ draft # None /\ Works(draft, running)
    BY <1>2, WorkIsStarted
  <2>2. running' \in Photo!Step /\ running'.op = running.op /\ running'.state = s
    BY <1>2, <2>1 DEF Photo!Step
  <2> QED  BY <1>2, <2>1, <2>2 DEF Works, Photo!Calls, Photo!Network
<1>3. CASE Photo!Send
  <2>1. /\ running # None /\ running.op \in Photo!Calls
        /\ running' = [running EXCEPT !.state = "sent"]
        /\ UNCHANGED <<manifest, draft, file, view, late, intent, raw, stored, posts, open,
                       sound, expired, mishaps, discarded>>
    BY <1>3 DEF Photo!Send, Photo!idle, Photo!server, Photo!world
  <2>2. /\ running' \in Photo!Step /\ draft # None /\ Works(draft, running')
        /\ ~(running'.op = "append-entry" /\ running'.state = "ok")
        /\ running'.op # "cleanup"
    BY <1>2, <2>1
  <2> QED  BY <1>1, <2>1, <2>2, StepKeeps
<1>4. CASE Photo!Deny
  <2>1. /\ running # None /\ running.state = "sent" /\ mishaps + 1 =< MaxMishaps
        /\ mishaps' = mishaps + 1
        /\ running' = [running EXCEPT !.state = "refused"]
        /\ UNCHANGED <<manifest, draft, file, view, late, intent, raw, stored, posts, open,
                       sound, expired, discarded>>
    BY <1>4 DEF Photo!Deny, Photo!Fault, Photo!idle, Photo!server, Photo!world
  <2>2. running.op \in Photo!Calls
    BY <2>1, WorkIsStarted DEF PhotoInv, Working, Photo!Step
  <2>3. /\ running' \in Photo!Step /\ draft # None /\ Works(draft, running')
        /\ ~(running'.op = "append-entry" /\ running'.state = "ok")
        /\ running'.op # "cleanup"
    BY <1>2, <2>1, <2>2
  <2>4. mishaps' \in 0..MaxMishaps  BY <1>1, <2>1
  <2> QED  BY <2>1, <2>3, <2>4, StepKeeps
<1>5. CASE Photo!RetryCleanup
  <2>1. /\ draft # None /\ draft.stage = "cleanup-pending"
        /\ running' = Photo!At("cleanup")
        /\ UNCHANGED <<manifest, draft, file, view, late, intent, raw, stored, posts, open,
                       sound, expired, mishaps, discarded>>
    BY <1>5 DEF Photo!RetryCleanup, Photo!AtRest, Photo!server, Photo!world
  <2>2. /\ running' \in Photo!Step /\ running'.op = "cleanup" /\ running'.state = "unsent"
    BY <2>1 DEF Photo!At, Photo!Step
  <2>3. Works(draft, running')  BY <2>1, <2>2 DEF Works
  <2> QED  BY <1>1, <2>1, <2>2, <2>3, StepKeeps
<1> QED  BY <1>3, <1>4, <1>5

\* What the server does keeps what the phone relies on: an entry stays, and
\* none is made of what is gone.
LEMMA ServerKeepsPhoto ==
    ASSUME PhotoInv, NEW op \in Photo!Calls, NEW n \in Photo!Epoch, NEW ok \in BOOLEAN,
           Photo!Execute(op, n, ok),
           running' = running
             \/ /\ running # None /\ running.op = op
                /\ running' = [running EXCEPT !.state = IF ok THEN "ok" ELSE "refused"],
           \/ late' = late /\ running # None
           \/ /\ late[op][n] > 0
              /\ late' = [late EXCEPT ![op][n] = @ - 1],
           UNCHANGED <<manifest, draft, file, view, open, sound, expired, redacted,
                       mishaps, discarded>>
    PROVE  PhotoInv'
<1>1. /\ intent' \in [Photo!Epoch -> {"none", "pending-upload", "completed", "rejected"}]
      /\ raw' \cup stored' \subseteq Photo!Epoch
      /\ Photo!PostedOnce'
      /\ posts' = posts \/ (posts = <<>> /\ posts' = <<n>> /\ op = "append-entry" /\ open)
      /\ op = "append-entry" /\ ok => posts' # <<>>
  BY Executed
<1>2. posts # <<>> => posts' # <<>>  BY <1>1
<1>3. late \in [Photo!Calls -> [Photo!Epoch -> Nat]] /\ posts' \in Seq(Photo!Epoch)
  <2>1. /\ late \in [Photo!Calls -> [Photo!Epoch -> Nat]] /\ posts \in Seq(Photo!Epoch)
    BY DEF PhotoInv, PhotoTyped, Photo!TypeOK
  <2>2. <<n>> \in Seq(Photo!Epoch)  OBVIOUS
  <2> QED  BY <1>1, <2>1, <2>2
<1>4. /\ late' \in [Photo!Calls -> [Photo!Epoch -> Nat]]
      /\ NoneLate => NoneLate'
  <2>1. CASE late' = late  BY <1>3, <2>1 DEF NoneLate
  <2>2. CASE late[op][n] > 0 /\ late' = [late EXCEPT ![op][n] = @ - 1]
    <3> DEFINE row == [late[op] EXCEPT ![n] = @ - 1]
    <3>1. row \in [Photo!Epoch -> Nat]  BY <1>3, <2>2
    <3>2. late' = [late EXCEPT ![op] = row]  BY <2>2
    <3> HIDE DEF row
    <3>3. late' \in [Photo!Calls -> [Photo!Epoch -> Nat]]  BY <1>3, <3>1, <3>2
    <3>4. op = "append-entry" => ~NoneLate  BY <2>2 DEF NoneLate
    <3>5. op # "append-entry" => late'["append-entry"] = late["append-entry"]
      BY <1>3, <3>2 DEF Photo!Calls, Photo!Network
    <3> QED  BY <3>3, <3>4, <3>5 DEF NoneLate
  <2> QED  BY <2>1, <2>2
<1>5. /\ running' \in Photo!Step \cup {None}
      /\ running' # None => running # None
      /\ running' # None => Works(draft, running')
      /\ running' # None /\ running'.op = "append-entry" /\ running'.state = "ok"
            => posts' # <<>>
      /\ running' # None /\ running'.op = "cleanup" => running'.state = "unsent"
  <2>1. CASE running' = running
    BY <1>2, <2>1 DEF PhotoInv, PhotoTyped, Photo!TypeOK, Working
  <2>2. CASE /\ running # None /\ running.op = op
             /\ running' = [running EXCEPT !.state = IF ok THEN "ok" ELSE "refused"]
    <3>1. running \in Photo!Step /\ Works(draft, running)  BY <2>2, WorkIsStarted
    <3>2. /\ running' \in Photo!Step /\ running'.op = op
          /\ running'.state = IF ok THEN "ok" ELSE "refused"
      BY <2>2, <3>1 DEF Photo!Step
    <3>3. op # "cleanup"  BY DEF Photo!Calls, Photo!Network
    <3> QED  BY <1>1, <2>2, <3>1, <3>2, <3>3 DEF Works
  <2> QED  BY <2>1, <2>2
<1>6. PhotoTyped'
  BY <1>1, <1>3, <1>4, <1>5 DEF PhotoInv, PhotoTyped, Photo!TypeOK, Photo!idle
<1>7. Kept'  BY <1>2 DEF PhotoInv, Kept, Fit
<1>8. Advancing' /\ Unsent'  BY <1>4 DEF PhotoInv, Advancing, Unsent
<1>9. Working'  BY <1>5 DEF Working
<1>10. Seen'  BY <1>2 DEF PhotoInv, Seen
<1>11. Gone'
  <2> SUFFICES ASSUME discarded = "unposted"
               PROVE  posts' = <<>> /\ (~open \/ NoneLate')
    BY DEF PhotoInv, Gone
  <2>1. draft = None /\ posts = <<>> /\ (~open \/ NoneLate)  BY DEF PhotoInv, Gone
  <2>2. running = None  BY <2>1, WorkIsStarted
  <2>3. op = "append-entry" => ~NoneLate  BY <2>2 DEF NoneLate
  <2> QED  BY <1>1, <1>4, <2>1, <2>3
<1>12. Photo!RetainedUntilPosted'  BY <1>2 DEF PhotoInv, Photo!RetainedUntilPosted
<1> QED  BY <1>1, <1>6, <1>7, <1>8, <1>9, <1>10, <1>11, <1>12 DEF PhotoInv

LEMMA ServesKeep ==
    ASSUME PhotoInv, \/ Photo!Serve
                     \/ \E op \in Photo!Calls, n \in Photo!Epoch : Photo!ServeLate(op, n)
    PROVE  PhotoInv'
<1>1. CASE Photo!Serve
  <2>1. /\ running # None /\ running.state = "sent"
        /\ UNCHANGED <<manifest, draft, file, view, late, open, sound, expired, redacted,
                       mishaps, discarded>>
    BY <1>1 DEF Photo!Serve, Photo!idle, Photo!world
  <2>2. running.op \in Photo!Calls
    BY <2>1, WorkIsStarted DEF PhotoInv, Working, Photo!Step
  <2>3. Photo!Subject(running.op) \in Photo!Epoch  BY <2>1, <2>2, WorkIsStarted
  <2>4. PICK ok \in BOOLEAN :
          /\ Photo!Execute(running.op, Photo!Subject(running.op), ok)
          /\ running' = [running EXCEPT !.state = IF ok THEN "ok" ELSE "refused"]
    BY <1>1 DEF Photo!Serve
  <2> QED  BY <2>1, <2>2, <2>3, <2>4, ServerKeepsPhoto
<1>2. ASSUME NEW op \in Photo!Calls, NEW n \in Photo!Epoch, Photo!ServeLate(op, n)
      PROVE  PhotoInv'
  <2>1. /\ late[op][n] > 0 /\ late' = [late EXCEPT ![op][n] = @ - 1]
        /\ UNCHANGED <<manifest, draft, file, running, view, open, sound, expired, redacted,
                       mishaps, discarded>>
    BY <1>2 DEF Photo!ServeLate, Photo!phone, Photo!world
  <2>2. PICK ok \in BOOLEAN : Photo!Execute(op, n, ok)
    BY <1>2 DEF Photo!ServeLate
  <2> QED  BY <2>1, <2>2, ServerKeepsPhoto
<1> QED  BY <1>1, <1>2

\* The manifest that announces a call is of that call.
LEMMA BeginsACall ==
    ASSUME PhotoInv, NEW m \in Photo!Manifest, NEW op \in Photo!Calls, Photo!Begin(m, op),
           draft # None,
           op \in {"acquire", "upload-bytes", "complete-upload"} => m.intent \in Photo!Epoch,
           op = "append-entry" => m.media \in Photo!Epoch,
           UNCHANGED <<late, file, view, intent, raw, stored, posts, open, sound, expired,
                       discarded>>
    PROVE  PhotoInv'
<1> DEFINE stage == Photo!ActiveStage(op)
           in    == IF op = "create-intent" THEN Photo!NoId ELSE m.intent
           med   == IF op = "append-entry" THEN m.media ELSE Photo!NoId
           half  == [m EXCEPT !.stage = stage, !.retry = None]
           new   == [half EXCEPT !.intent = in, !.media = med]
           next  == Photo!At(op)
<1>1. /\ stage \in Photo!Active /\ stage # "ready" /\ stage # "cleanup-pending"
      /\ stage \notin Photo!Halted
      /\ stage \in {"uploading", "completing-upload"}
            => op \in {"acquire", "upload-bytes", "complete-upload"}
      /\ stage = "appending" => op = "append-entry"
  BY Stages DEF Photo!Calls, Photo!Network, Photo!Active, Photo!Halted
<1>2. in \in {Photo!NoId} \cup Photo!Epoch /\ med \in {Photo!NoId} \cup Photo!Epoch
  BY DEF Photo!Manifest
<1>3. Photo!Write(new, next, 0)
  BY DEF Photo!Begin
<1>4. next \in Photo!Step /\ next.op = op /\ next.state = "unsent"
  BY DEF Photo!At, Photo!Step
<1>5. op # "create-intent" => in = m.intent  OBVIOUS
<1>6. op = "append-entry" => med = m.media  OBVIOUS
<1> HIDE DEF stage, in, med, next
<1>7. half \in Photo!Manifest /\ half.stage = stage
  BY <1>1 DEF Photo!Manifest
<1> HIDE DEF half
<1>8. /\ new \in Photo!Manifest /\ new.stage = stage /\ new.intent = in /\ new.media = med
  BY <1>2, <1>7 DEF Photo!Manifest
<1> HIDE DEF new
<1>9. Fit(new, posts)
  BY <1>1, <1>5, <1>6, <1>8 DEF Fit
<1>10. op # "cleanup"  BY DEF Photo!Calls, Photo!Network
<1>11. Works(new, next)  BY <1>4, <1>8, <1>10 DEF Works, stage
<1>12. late \in [Photo!Calls -> [Photo!Epoch -> Nat]]  BY DEF PhotoInv, PhotoTyped
<1> QED  BY <1>1, <1>3, <1>4, <1>8, <1>9, <1>11, <1>12, WriteKeeps

\* A call whose outcome is not a success is the one to be repeated.
LEMMA HaltKeeps ==
    ASSUME PhotoInv, NEW outcome \in Photo!Halted, NEW n \in Nat, Photo!Halt(outcome, n),
           running # None, running.op \in Photo!Calls,
           late' \in [Photo!Calls -> [Photo!Epoch -> Nat]],
           UNCHANGED <<file, view, intent, raw, stored, posts, open, sound, expired,
                       discarded>>
    PROVE  PhotoInv'
<1> DEFINE op  == Photo!RetryStage(running.op)
           new == [draft EXCEPT !.stage = outcome, !.retry = op]
<1>1. /\ draft # None /\ draft \in Photo!Manifest /\ draft.stage # "ready"
      /\ Fit(draft, posts) /\ draft.stage = Photo!ActiveStage(running.op)
  <2>1. running.op # "cleanup"  BY DEF Photo!Calls, Photo!Network
  <2> QED  BY <2>1, WorkIsStarted DEF Works
<1>2. /\ op \in Photo!Network
      /\ op \in {"upload-bytes", "complete-upload"} => draft.intent \in Photo!Epoch
      /\ op = "append-entry" => draft.media \in Photo!Epoch
  BY <1>1, Stages DEF Photo!RetryStage, Photo!Calls, Photo!Network, Fit
<1>3. Photo!Write(new, None, n)  BY DEF Photo!Halt
<1> HIDE DEF op
<1>4. /\ new \in Photo!Manifest /\ new.stage = outcome /\ new.retry = op
      /\ new.intent = draft.intent /\ new.media = draft.media
  BY <1>1, <1>2 DEF Photo!Manifest, Photo!Halted
<1> HIDE DEF new
<1>5. Fit(new, posts) /\ new.stage # "ready"
  BY <1>2, <1>4 DEF Fit, Photo!Halted
<1> QED  BY <1>1, <1>3, <1>4, <1>5, WriteKeeps

\* Only of an entry that is made is the draft cleaned up.
LEMMA ToCleanupKeeps ==
    ASSUME PhotoInv, Photo!ToCleanup, draft # None, posts # <<>>,
           UNCHANGED <<late, file, view, intent, raw, stored, posts, open, sound, expired,
                       discarded>>
    PROVE  PhotoInv'
<1> DEFINE new  == [draft EXCEPT !.stage = "cleanup-pending", !.retry = None]
           next == Photo!At("cleanup")
<1>1. Photo!Write(new, next, 0)  BY DEF Photo!ToCleanup
<1>2. next \in Photo!Step /\ next.op = "cleanup" /\ next.state = "unsent"
  BY DEF Photo!At, Photo!Step
<1>3. draft \in Photo!Manifest  BY DEF PhotoInv, PhotoTyped, Photo!TypeOK
<1>4. new \in Photo!Manifest /\ new.stage = "cleanup-pending"
  BY <1>3 DEF Photo!Manifest
<1> HIDE DEF new, next
<1>5. Fit(new, posts) /\ Works(new, next)  BY <1>2, <1>4 DEF Fit, Works, Photo!Halted
<1>6. late \in [Photo!Calls -> [Photo!Epoch -> Nat]]  BY DEF PhotoInv, PhotoTyped
<1> QED  BY <1>1, <1>2, <1>4, <1>5, <1>6, WriteKeeps

LEMMA ProceedKeeps == ASSUME PhotoInv, Photo!Proceed PROVE PhotoInv'
<1>1. /\ running # None /\ running.state = "ok"
      /\ UNCHANGED <<file, view, late, intent, raw, stored, posts, open, sound, expired,
                     discarded>>
  BY DEF Photo!Proceed, Photo!idle, Photo!server, Photo!world
<1>2. /\ draft # None /\ draft \in Photo!Manifest /\ draft.stage # "ready"
      /\ Fit(draft, posts) /\ Works(draft, running) /\ running \in Photo!Step
  BY <1>1, WorkIsStarted
<1>3. running.op \in Photo!Calls
  BY <1>1, <1>2 DEF PhotoInv, Working, Photo!Step
<1>4. late \in [Photo!Calls -> [Photo!Epoch -> Nat]] /\ mishaps \in 0..MaxMishaps
  BY DEF PhotoInv, PhotoTyped, Photo!TypeOK
<1>5. \A op \in Photo!Calls : Photo!At(op) \in Photo!Step /\ Photo!At(op).op = op
                              /\ Photo!At(op).state = "unsent"
  BY DEF Photo!At, Photo!Step
<1>6. draft.epoch \in Photo!Epoch  BY <1>2 DEF Photo!Manifest
<1>7. CASE running.op = "create-intent"
  <2> DEFINE new == [draft EXCEPT !.stage = "uploading", !.intent = draft.epoch]
  <2>1. Photo!Write(new, Photo!At("upload-bytes"), 0)
    BY <1>1, <1>7 DEF Photo!Proceed
  <2>2. new \in Photo!Manifest /\ new.stage = "uploading" /\ new.intent = draft.epoch
    BY <1>2, <1>6 DEF Photo!Manifest, Photo!Active
  <2> HIDE DEF new
  <2>3. Fit(new, posts)  BY <1>6, <2>2 DEF Fit, Photo!Halted
  <2>4. "upload-bytes" \in Photo!Calls  BY DEF Photo!Calls, Photo!Network
  <2>5. Works(new, Photo!At("upload-bytes"))  BY <1>5, <2>2, <2>4, Stages DEF Works
  <2> QED  BY <1>1, <1>2, <1>4, <1>5, <2>1, <2>2, <2>3, <2>4, <2>5, WriteKeeps
<1>8. CASE running.op = "acquire"
  <2>1. running' = Photo!At("upload-bytes") /\ UNCHANGED <<manifest, draft, mishaps>>
    BY <1>1, <1>8 DEF Photo!Proceed
  <2>2. "upload-bytes" \in Photo!Calls  BY DEF Photo!Calls, Photo!Network
  <2>3. draft.stage = "uploading"  BY <1>2, <1>8, Stages DEF Works
  <2>4. Works(draft, running')  BY <1>5, <2>1, <2>2, <2>3, Stages DEF Works
  <2> QED  BY <1>1, <1>2, <1>4, <1>5, <2>1, <2>2, <2>4, StepKeeps
<1>9. CASE running.op = "upload-bytes"
  <2> DEFINE new == [draft EXCEPT !.stage = "completing-upload"]
  <2>1. Photo!Write(new, Photo!At("complete-upload"), 0)
    BY <1>1, <1>9 DEF Photo!Proceed
  <2>2. draft.intent \in Photo!Epoch  BY <1>2, <1>9, Stages DEF Works, Fit
  <2>3. new \in Photo!Manifest /\ new.stage = "completing-upload" /\ new.intent = draft.intent
    BY <1>2 DEF Photo!Manifest, Photo!Active
  <2> HIDE DEF new
  <2>4. Fit(new, posts)  BY <2>2, <2>3 DEF Fit, Photo!Halted
  <2>5. "complete-upload" \in Photo!Calls  BY DEF Photo!Calls, Photo!Network
  <2>6. Works(new, Photo!At("complete-upload"))  BY <1>5, <2>3, <2>5, Stages DEF Works
  <2> QED  BY <1>1, <1>2, <1>4, <1>5, <2>1, <2>3, <2>4, <2>5, <2>6, WriteKeeps
<1>10. CASE running.op = "complete-upload"
  <2> DEFINE new == [draft EXCEPT !.stage = "appending", !.media = draft.intent]
  <2>1. Photo!Write(new, Photo!At("append-entry"), 0)
    BY <1>1, <1>10 DEF Photo!Proceed
  <2>2. draft.intent \in Photo!Epoch  BY <1>2, <1>10, Stages DEF Works, Fit
  <2>3. new \in Photo!Manifest /\ new.stage = "appending" /\ new.media = draft.intent
    BY <1>2, <2>2 DEF Photo!Manifest, Photo!Active
  <2> HIDE DEF new
  <2>4. Fit(new, posts)  BY <2>2, <2>3 DEF Fit, Photo!Halted
  <2>5. "append-entry" \in Photo!Calls  BY DEF Photo!Calls, Photo!Network
  <2>6. Works(new, Photo!At("append-entry"))  BY <1>5, <2>3, <2>5, Stages DEF Works
  <2> QED  BY <1>1, <1>2, <1>4, <1>5, <2>1, <2>3, <2>4, <2>5, <2>6, WriteKeeps
<1>11. CASE running.op = "append-entry"
  <2>1. Photo!ToCleanup  BY <1>1, <1>11 DEF Photo!Proceed
  <2>2. posts # <<>>  BY <1>1, <1>11 DEF PhotoInv, Working
  <2> QED  BY <1>1, <1>2, <2>1, <2>2, ToCleanupKeeps
<1> QED  BY <1>3, <1>7, <1>8, <1>9, <1>10, <1>11 DEF Photo!Calls, Photo!Network

LEMMA EndsKeep == ASSUME PhotoInv, Photo!Refused \/ Photo!GiveUp PROVE PhotoInv'
<1>1. late \in [Photo!Calls -> [Photo!Epoch -> Nat]]  BY DEF PhotoInv, PhotoTyped
<1>2. CASE Photo!Refused
  <2>1. /\ running # None /\ running.state = "refused" /\ Photo!Halt("failed", 0)
        /\ UNCHANGED <<file, view, late, intent, raw, stored, posts, open, sound, expired,
                       discarded>>
    BY <1>2 DEF Photo!Refused, Photo!idle, Photo!server, Photo!world
  <2>2. running.op \in Photo!Calls
    BY <2>1, WorkIsStarted DEF PhotoInv, Working, Photo!Step
  <2>3. "failed" \in Photo!Halted  BY DEF Photo!Halted
  <2> QED  BY <1>1, <2>1, <2>2, <2>3, HaltKeeps
<1>3. CASE Photo!GiveUp
  <2>1. /\ running # None /\ running.op \in Photo!Calls /\ Photo!Halt("unknown", 1)
        /\ Photo!Abandon
        /\ UNCHANGED <<file, view, intent, raw, stored, posts, open, sound, expired,
                       discarded>>
    BY <1>3 DEF Photo!GiveUp, Photo!idle, Photo!server, Photo!world
  <2>2. late' \in [Photo!Calls -> [Photo!Epoch -> Nat]]  BY <2>1, Abandons
  <2>3. "unknown" \in Photo!Halted  BY DEF Photo!Halted
  <2> QED  BY <2>1, <2>2, <2>3, HaltKeeps
<1> QED  BY <1>2, <1>3

\* The object may be stored although the completion fails.
LEMMA FailureKeeps == ASSUME PhotoInv, Photo!CompleteFails PROVE PhotoInv'
<1>1. /\ running # None /\ running.op = "complete-upload"
      /\ stored' = stored \cup {draft.intent}
      /\ UNCHANGED <<manifest, draft, file, running, view, late, intent, raw, posts, open,
                     sound, expired, redacted, mishaps, discarded>>
  BY DEF Photo!CompleteFails, Photo!idle, Photo!phone, Photo!world
<1>2. draft.intent \in Photo!Epoch
  <2>1. running.op \in Photo!Calls  BY <1>1 DEF Photo!Calls, Photo!Network
  <2>2. Photo!Subject(running.op) = draft.intent  BY <1>1 DEF Photo!Subject
  <2> QED  BY <1>1, <2>1, <2>2, WorkIsStarted
<1>3. PhotoTyped'
  BY <1>1, <1>2 DEF PhotoInv, PhotoTyped, Photo!TypeOK, Photo!idle
<1>4. Photo!PostedOnce' /\ Photo!RetainedUntilPosted'
  BY <1>1 DEF PhotoInv, Photo!PostedOnce, Photo!RetainedUntilPosted
<1>5. Kept' /\ Advancing' /\ Working' /\ Seen' /\ Unsent' /\ Gone'
  BY <1>1 DEF PhotoInv, Kept, Advancing, Working, Seen, Unsent, Gone, NoneLate
<1> QED  BY <1>3, <1>4, <1>5 DEF PhotoInv

\* The controller forgets its manifest, the phone its copies, of a draft that
\* is posted or that the person discards; or the controller only starts again.
LEMMA ForgettingKeeps ==
    ASSUME PhotoInv, draft # None, running' = None, draft' \in {draft, None},
           manifest' \in {manifest, None}, file' \in {file, FALSE},
           mishaps' \in 0..MaxMishaps,
           discarded' \in {discarded, "tried", "posted", "unposted"},
           late' \in [Photo!Calls -> [Photo!Epoch -> Nat]],
           late' = late \/ draft.stage # "ready",
           (manifest' = manifest /\ file' = file) \/ posts # <<>> \/ discarded' # "no",
           discarded' = "no" => discarded = "no",
           discarded' = "unposted" =>
               /\ draft' = None /\ manifest' = None /\ posts = <<>>
               /\ ~open \/ NoneLate',
           UNCHANGED <<view, intent, raw, stored, posts, open, sound, expired>>
    PROVE  PhotoInv'
<1>1. PhotoTyped'
  BY DEF PhotoInv, PhotoTyped, Photo!TypeOK, Photo!idle
<1>2. Kept' /\ Working' /\ Seen'  BY DEF PhotoInv, Kept, Working, Seen
<1>3. Advancing'  BY DEF PhotoInv, Advancing
<1>4. Unsent'
  <2>1. CASE late' = late  BY <2>1 DEF PhotoInv, Unsent, NoneLate
  <2>2. CASE draft.stage # "ready"
    <3>1. manifest = None \/ manifest.stage # "ready"
      BY <2>2 DEF PhotoInv, Advancing
    <3> QED  BY <2>2, <3>1 DEF Unsent
  <2> QED  BY <2>1, <2>2
<1>5. Gone'  BY DEF Gone
<1>6. Photo!PostedOnce' /\ Photo!RetainedUntilPosted'
  BY DEF PhotoInv, Photo!PostedOnce, Photo!RetainedUntilPosted
<1> QED  BY <1>1, <1>2, <1>3, <1>4, <1>5, <1>6 DEF PhotoInv

LEMMA LeavesKeep ==
    ASSUME PhotoInv, Photo!Cleanup \/ Photo!Leave \/ Photo!Kill PROVE PhotoInv'
<1>1. /\ late \in [Photo!Calls -> [Photo!Epoch -> Nat]]
      /\ mishaps \in 0..MaxMishaps /\ MaxMishaps \in Nat
      /\ file \in BOOLEAN
  BY PhotoConstants DEF PhotoInv, PhotoTyped, Photo!TypeOK, Photo!PhotoAssumption
<1>2. draft # None => discarded # "unposted"  BY DEF PhotoInv, Gone
<1>3. CASE Photo!Cleanup
  <2>1. /\ running # None /\ running.op = "cleanup" /\ running' = None
        /\ file' \in {file, FALSE} /\ manifest' \in {manifest, None}
        /\ draft' \in {draft, None}
        /\ UNCHANGED <<view, late, intent, raw, stored, posts, open, sound, expired,
                       discarded>>
    BY <1>3 DEF Photo!Cleanup, Photo!idle, Photo!server, Photo!world
  <2>2. mishaps' \in 0..MaxMishaps
    <3>1. \/ mishaps' = mishaps
          \/ mishaps + 1 =< MaxMishaps /\ mishaps' = mishaps + 1
      BY <1>3 DEF Photo!Cleanup, Photo!Fault
    <3>2. mishaps \in 0..MaxMishaps /\ MaxMishaps \in Nat  BY <1>1
    <3> QED  BY <3>1, <3>2
  <2>3. draft # None /\ Fit(draft, posts) /\ Works(draft, running)
    BY <2>1, WorkIsStarted
  <2>4. posts # <<>>  BY <2>1, <2>3 DEF Works, Fit
  <2> QED  BY <1>1, <1>2, <2>1, <2>2, <2>3, <2>4, ForgettingKeeps
<1>4. CASE Photo!Leave
  <2>1. /\ running = None /\ draft # None /\ draft' = None
        /\ UNCHANGED <<manifest, file, running, view, late, intent, raw, stored, posts, open,
                       sound, expired, mishaps, discarded>>
    BY <1>4 DEF Photo!Leave, Photo!idle, Photo!server, Photo!world
  <2> QED  BY <1>1, <1>2, <2>1, ForgettingKeeps
<1>5. CASE Photo!Kill
  <2>1. /\ draft # None /\ draft' = None /\ running' = None /\ Photo!Abandon
        /\ mishaps + 1 =< MaxMishaps /\ mishaps' = mishaps + 1
        /\ UNCHANGED <<manifest, file, view, intent, raw, stored, posts, open, sound,
                       expired, discarded>>
    BY <1>5 DEF Photo!Kill, Photo!Fault, Photo!server, Photo!world
  <2>2. mishaps' \in 0..MaxMishaps  BY <1>1, <2>1
  <2>3. /\ late' \in [Photo!Calls -> [Photo!Epoch -> Nat]]
        /\ late' = late \/ draft.stage # "ready"
    BY <2>1, Abandons, WorkIsStarted
  <2> QED  BY <1>1, <1>2, <2>1, <2>2, <2>3, ForgettingKeeps
<1> QED  BY <1>3, <1>4, <1>5

\* Nothing is left to be sent of what the person may discard.
LEMMA DiscardKeeps == ASSUME PhotoInv, Photo!Discard PROVE PhotoInv'
<1>1. /\ running = None /\ draft # None /\ Photo!MayDiscard /\ file' = FALSE
      /\ UNCHANGED <<running, view, late, intent, raw, stored, posts, open, sound, expired>>
  BY DEF Photo!Discard, Photo!idle, Photo!server, Photo!world
<1>2. /\ late \in [Photo!Calls -> [Photo!Epoch -> Nat]]
      /\ mishaps \in 0..MaxMishaps /\ MaxMishaps \in Nat
  BY PhotoConstants DEF PhotoInv, PhotoTyped, Photo!TypeOK, Photo!PhotoAssumption
<1>3. ~open \/ NoneLate
  BY <1>1 DEF PhotoInv, Seen, Unsent, Photo!MayDiscard
<1>4. NoneLate => NoneLate'  BY <1>1 DEF NoneLate
<1>5. /\ draft' \in {draft, None} /\ manifest' \in {manifest, None}
      /\ mishaps' \in 0..MaxMishaps
  BY <1>2 DEF Photo!Discard, Photo!Fault
<1>6. \/ discarded' = "tried" \/ discarded' = "posted"
      \/ discarded' = "unposted" /\ draft' = None /\ manifest' = None /\ posts = <<>>
  BY DEF Photo!Discard
<1> QED  BY <1>1, <1>2, <1>3, <1>4, <1>5, <1>6, ForgettingKeeps

\* What the person asks for begins with a call that the manifest is fit for.
LEMMA RequestsKeep ==
    ASSUME PhotoInv, Photo!Submit \/ Photo!Reconcile \/ Photo!Retry PROVE PhotoInv'
<1>1. draft # None => draft \in Photo!Manifest /\ Fit(draft, posts)
  BY DEF PhotoInv, PhotoTyped, Photo!TypeOK, Kept
<1>2. CASE Photo!Submit
  <2>1. /\ draft # None /\ Photo!Begin(draft, "create-intent")
        /\ UNCHANGED <<late, file, view, intent, raw, stored, posts, open, sound, expired,
                       discarded>>
    BY <1>2 DEF Photo!Submit, Photo!AtRest, Photo!server, Photo!world
  <2>2. "create-intent" \in Photo!Calls  BY DEF Photo!Calls, Photo!Network
  <2> QED  BY <1>1, <2>1, <2>2, BeginsACall
<1>3. CASE Photo!Reconcile
  <2>1. /\ draft # None /\ draft.media \in view.entries /\ Photo!ToCleanup
        /\ UNCHANGED <<late, file, view, intent, raw, stored, posts, open, sound, expired,
                       discarded>>
    BY <1>3 DEF Photo!Reconcile, Photo!AtRest, Photo!Matched, Photo!server, Photo!world
  <2>2. posts # <<>>  BY <2>1 DEF PhotoInv, Seen
  <2> QED  BY <2>1, <2>2, ToCleanupKeeps
<1>4. CASE Photo!Retry
  <2>1. /\ draft # None /\ draft.stage \in Photo!Halted
        /\ UNCHANGED <<late, file, view, intent, raw, stored, posts, open, sound, expired,
                       discarded>>
    BY <1>4 DEF Photo!Retry, Photo!AtRest, Photo!server, Photo!world
  <2>2. CASE Photo!Fresh(draft)
    <3> DEFINE m == [draft EXCEPT !.epoch = @ + 1]
    <3>1. draft.epoch < MaxEpochs /\ Photo!Begin(m, "create-intent")
      BY <1>4, <2>2 DEF Photo!Retry
    <3>2. draft.epoch + 1 \in Photo!Epoch
      <4>1. draft.epoch \in 1..MaxEpochs /\ MaxEpochs \in Nat
        BY <1>1, <2>1, PhotoConstants DEF Photo!Manifest, Photo!Epoch, Photo!PhotoAssumption
      <4> QED  BY <3>1, <4>1 DEF Photo!Epoch
    <3>3. m \in Photo!Manifest  BY <1>1, <2>1, <3>2 DEF Photo!Manifest
    <3>4. "create-intent" \in Photo!Calls  BY DEF Photo!Calls, Photo!Network
    <3> HIDE DEF m
    <3> QED  BY <2>1, <3>1, <3>3, <3>4, BeginsACall
  <2>3. CASE ~Photo!Fresh(draft)
    <3> DEFINE op == IF draft.retry = "upload-bytes" THEN "acquire" ELSE draft.retry
    <3>1. Photo!Begin(draft, op)  BY <1>4, <2>3 DEF Photo!Retry
    <3>2. /\ op \in Photo!Calls
          /\ op \in {"acquire", "upload-bytes", "complete-upload"}
                => draft.intent \in Photo!Epoch
          /\ op = "append-entry" => draft.media \in Photo!Epoch
      BY <1>1, <2>1 DEF Fit, Photo!Calls, Photo!Network
    <3> HIDE DEF op
    <3> QED  BY <1>1, <2>1, <3>1, <3>2, BeginsACall
  <2> QED  BY <2>2, <2>3
<1> QED  BY <1>2, <1>3, <1>4

LEMMA RestoreKeeps == ASSUME PhotoInv, Photo!Restore PROVE PhotoInv'
<1> DEFINE new == Photo!Restored(manifest)
<1>1. /\ draft = None /\ manifest # None
      /\ manifest' \in {manifest, new}
      /\ draft' = None \/ (draft' = new /\ manifest' = new)
      /\ UNCHANGED <<file, running, view, late, intent, raw, stored, posts, open, sound,
                     expired, discarded>>
  BY DEF Photo!Restore, Photo!server, Photo!world
<1>2. /\ mishaps \in 0..MaxMishaps /\ MaxMishaps \in Nat
      /\ manifest \in Photo!Manifest /\ Fit(manifest, posts)
  BY <1>1, PhotoConstants
  DEF PhotoInv, PhotoTyped, Photo!TypeOK, Photo!PhotoAssumption, Kept
<1>3. mishaps' \in 0..MaxMishaps
  <2>1. mishaps' = mishaps \/ (mishaps + 1 =< MaxMishaps /\ mishaps' = mishaps + 1)
    BY DEF Photo!Restore, Photo!Fault
  <2> QED  BY <1>2, <2>1
<1>4. /\ new \in Photo!Manifest /\ new # None /\ Fit(new, posts)
      /\ new.stage = "ready" <=> manifest.stage = "ready"
  <2>1. /\ new \in Photo!Manifest /\ Fit(new, posts)
        /\ new.stage = "ready" <=> manifest.stage = "ready"
    BY <1>2, RestoredFits
  <2> QED  BY <2>1, NoneIsNoPhoto
<1>5. running = None  BY <1>1, WorkIsStarted
<1> HIDE DEF new
<1>6. PhotoTyped'
  BY <1>1, <1>2, <1>3, <1>4, <1>5 DEF PhotoInv, PhotoTyped, Photo!TypeOK, Photo!idle
<1>7. Kept'  BY <1>1, <1>2, <1>4 DEF Kept
<1>8. Advancing' /\ Working' /\ Seen'
  BY <1>1, <1>4, <1>5 DEF PhotoInv, Advancing, Working, Seen
<1>9. Unsent'  BY <1>1, <1>4 DEF PhotoInv, Unsent, NoneLate
<1>10. Gone'  BY <1>1 DEF PhotoInv, Gone
<1>11. Photo!PostedOnce' /\ Photo!RetainedUntilPosted'
  BY <1>1, <1>4 DEF PhotoInv, Photo!PostedOnce, Photo!RetainedUntilPosted
<1> QED  BY <1>6, <1>7, <1>8, <1>9, <1>10, <1>11 DEF PhotoInv

\* An event that is closed stays so, and an entry stays made.
LEMMA WorldKeeps == ASSUME PhotoInv, Photo!Sync \/ Photo!World PROVE PhotoInv'
<1>1. CASE Photo!Sync
  <2>1. /\ view' = [open |-> open,
                    entries |-> IF redacted THEN {} ELSE {posts[i] : i \in DOMAIN posts}]
        /\ UNCHANGED <<manifest, draft, file, running, late, intent, raw, stored, posts, open,
                       sound, expired, mishaps, discarded>>
    BY <1>1 DEF Photo!Sync, Photo!server, Photo!world
  <2>2. open \in BOOLEAN /\ posts \in Seq(Photo!Epoch)
    BY DEF PhotoInv, PhotoTyped, Photo!TypeOK
  <2>3. /\ {posts[i] : i \in DOMAIN posts} \subseteq Photo!Epoch
        /\ {posts[i] : i \in DOMAIN posts} # {} => posts # <<>>
    BY <2>2
  <2>4. view' \in [open : BOOLEAN, entries : SUBSET Photo!Epoch]  BY <2>1, <2>2, <2>3
  <2>5. (view'.entries # {} => posts # <<>>) /\ (~view'.open => ~open)
    BY <2>1, <2>3
  <2>6. PhotoTyped'
    BY <2>1, <2>4 DEF PhotoInv, PhotoTyped, Photo!TypeOK, Photo!idle
  <2>7. Seen'  BY <2>1, <2>5 DEF Seen
  <2>8. Kept' /\ Advancing' /\ Working' /\ Unsent' /\ Gone'
    BY <2>1 DEF PhotoInv, Kept, Advancing, Working, Unsent, Gone, NoneLate
  <2>9. Photo!PostedOnce' /\ Photo!RetainedUntilPosted'
    BY <2>1 DEF PhotoInv, Photo!PostedOnce, Photo!RetainedUntilPosted
  <2> QED  BY <2>6, <2>7, <2>8, <2>9 DEF PhotoInv
<1>2. CASE Photo!World
  <2>1. /\ open' \in {open, FALSE}
        /\ expired' = expired \/ \E n \in Photo!Epoch : expired' = expired \cup {n}
        /\ UNCHANGED <<manifest, draft, file, running, view, late, intent, raw, stored, posts,
                       sound, mishaps, discarded>>
    BY <1>2 DEF Photo!World, Photo!phone, Photo!server
  <2>2. open' \in BOOLEAN /\ (~open => ~open') /\ expired' \subseteq Photo!Epoch
    <3>1. open \in BOOLEAN /\ expired \subseteq Photo!Epoch
      BY DEF PhotoInv, PhotoTyped, Photo!TypeOK
    <3>2. expired' \subseteq Photo!Epoch  BY <2>1, <3>1
    <3>3. open' = open \/ open' = FALSE  BY <2>1
    <3>4. open' \in BOOLEAN  BY <3>1, <3>3
    <3>5. ASSUME open' = open PROVE ~open => ~open'  BY <3>5
    <3>6. ASSUME open' = FALSE PROVE ~open => ~open'  BY <3>6
    <3> QED  BY <3>2, <3>3, <3>4, <3>5, <3>6
  <2>3. PhotoTyped'
    BY <2>1, <2>2 DEF PhotoInv, PhotoTyped, Photo!TypeOK, Photo!idle
  <2>4. Kept' /\ Advancing' /\ Working' /\ Seen' /\ Unsent' /\ Gone'
    BY <2>1, <2>2 DEF PhotoInv, Kept, Advancing, Working, Seen, Unsent, Gone, NoneLate
  <2>5. Photo!PostedOnce' /\ Photo!RetainedUntilPosted'
    BY <2>1 DEF PhotoInv, Photo!PostedOnce, Photo!RetainedUntilPosted
  <2> QED  BY <2>3, <2>4, <2>5 DEF PhotoInv
<1> QED  BY <1>1, <1>2

LEMMA PhotoInitially == ASSUME Photo!Init PROVE PhotoInv
<1>1. 1 \in Photo!Epoch /\ 0 \in 0..MaxMishaps
  BY PhotoConstants DEF Photo!PhotoAssumption, Photo!Epoch
<1>2. Photo!First \in Photo!Manifest /\ Photo!First.stage = "ready" /\ Photo!First # None
  BY <1>1, NoneIsNoPhoto DEF Photo!First, Photo!Manifest
<1>3. Fit(Photo!First, <<>>)  BY <1>2 DEF Fit, Photo!Halted
<1>4. late \in [Photo!Calls -> [Photo!Epoch -> Nat]] /\ NoneLate
  BY DEF Photo!Init, NoneLate, Photo!Calls, Photo!Network
<1>5. view \in [open : BOOLEAN, entries : SUBSET Photo!Epoch] /\ Seen
  BY DEF Photo!Init, Seen
<1>6. <<>> \in Seq(Photo!Epoch) /\ Len(<<>>) = 0 /\ DOMAIN <<>> = {}
  OBVIOUS
<1>7. PhotoTyped
  BY <1>1, <1>2, <1>4, <1>5, <1>6 DEF Photo!Init, PhotoTyped, Photo!TypeOK, Photo!idle
<1>8. Kept /\ Advancing /\ Working /\ Unsent /\ Gone
  BY <1>2, <1>3, <1>4 DEF Photo!Init, Kept, Advancing, Working, Unsent, Gone
<1>9. Photo!PostedOnce /\ Photo!RetainedUntilPosted
  BY <1>2, <1>6 DEF Photo!Init, Photo!PostedOnce, Photo!RetainedUntilPosted
<1> QED  BY <1>5, <1>7, <1>8, <1>9 DEF PhotoInv

LEMMA PhotoSteps == ASSUME PhotoInv, [Photo!Next]_posting PROVE PhotoInv'
<1>1. CASE UNCHANGED posting
  <2>1. UNCHANGED <<manifest, draft, file, running, view, late, open, sound, intent, expired,
                    raw, stored, posts, redacted, mishaps, discarded>>
    BY <1>1 DEF posting
  <2>2. PhotoTyped'  BY <2>1 DEF PhotoInv, PhotoTyped, Photo!TypeOK, Photo!idle
  <2>3. Kept' /\ Advancing' /\ Working' /\ Seen' /\ Unsent' /\ Gone'
    BY <2>1 DEF PhotoInv, Kept, Advancing, Working, Seen, Unsent, Gone, NoneLate
  <2>4. Photo!PostedOnce' /\ Photo!RetainedUntilPosted'
    BY <2>1 DEF PhotoInv, Photo!PostedOnce, Photo!RetainedUntilPosted
  <2> QED  BY <2>2, <2>3, <2>4 DEF PhotoInv
<1>2. CASE Photo!Next
  BY <1>2, CallsGoOn, ServesKeep, FailureKeeps, ProceedKeeps, EndsKeep, LeavesKeep,
     RequestsKeep, DiscardKeeps, RestoreKeeps, WorldKeeps
  DEF Photo!Next
<1> QED  BY <1>1, <1>2

\* The invariant of the photo (photo-draft.ts, lib/media).
THEOREM PhotoInductive == PhoneSpec => []PhotoInv
<1>1. PhoneInit => PhotoInv  BY PhotoInitially DEF PhoneInit, Elsewhere
<1>2. PhotoInv /\ [PhoneNext]_everything => PhotoInv'
  <2>1. [PhoneNext]_everything => [Photo!Next]_posting
    BY DEF PhoneNext, everything
  <2> QED  BY <2>1, PhotoSteps
<1> QED  BY <1>1, <1>2, PTL DEF PhoneSpec

\* However the calls of a draft are cut off, repeated, refused and served late,
\* and whenever the app is killed: it becomes at most one entry, of an image
\* that is checked and stored; the phone forgets it only when it is posted or
\* discarded; and what was discarded unposted is never posted.
THEOREM PhotosAreSafe == PhoneSpec => []PhotosPostOnce
<1>1. PhotoInv => PhotosPostOnce
  BY DEF PhotoInv, PhotoTyped, Gone, PhotosPostOnce, Photo!PhotosPostOnce,
     Photo!DiscardIsFinal
<1> QED  BY <1>1, PhotoInductive, PTL
=============================================================================
