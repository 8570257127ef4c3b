---------------------------- MODULE DeliveryTruth ----------------------------
(***************************************************************************)
(* The rules by which delivery facts about one attempt are recorded        *)
(* (packages/server/app/api/internal/delivery-state/runtime.ts and         *)
(* packages/contracts/src/notification.ts).  No state: an attempt's        *)
(* evidence is the sequence of its facts, and Reply says what the store    *)
(* does with one more.                                                     *)
(***************************************************************************)
EXTENDS Naturals, Sequences

States == {"attempted", "provider-accepted", "delivered", "failed",
           "expired", "unknown"}

\* TERMINAL_DELIVERY_TRUTH_STATES.
Terminal == {"delivered", "failed", "expired"}

\* allowedDeliveryTransitions, for attempts.
Allowed ==
    ({"attempted"} \X {"provider-accepted", "delivered", "failed", "expired", "unknown"})
        \cup ({"provider-accepted"} \X {"delivered", "failed", "expired", "unknown"})
        \cup ({"unknown"} \X {"provider-accepted", "delivered", "failed"})
        \cup {<<"expired", "delivered">>}

\* Null stands for a provider or a provider reference that is null.
Null == "null"

\* What a fact says: its state, who says so about which provider message, and
\* the reason or proof that tells two facts of one state apart.
Fact(state, provider, ref, detail) ==
    [state |-> state, provider |-> provider, ref |-> ref, detail |-> detail]

Attempted == Fact("attempted", Null, Null, Null)

Latest(chain) == chain[Len(chain)]

SameLineage(f, g) == f.provider = g.provider /\ f.ref = g.ref

\* Variant: any proof of delivery overrides expiry.
DispositionAnyDelivery(latest, f) ==
    IF \/ latest.state \notin Terminal
       \/ latest.state = "expired" /\ f.state = "delivered"
    THEN "open"
    ELSE IF SameLineage(latest, f) THEN "subsumes" ELSE "conflicts"

\* strongerEvidenceDisposition: whether the latest fact already says more than
\* the offered one, contradicts it, or leaves it to the transition rules.
Disposition(latest, f) ==
    IF f.state = "unknown" /\ f.ref = Null
    THEN IF latest.state \notin Terminal \cup {"provider-accepted"} THEN "open"
         ELSE IF f.provider \in {Null, latest.provider} THEN "subsumes" ELSE "conflicts"
    ELSE IF \/ latest.state \notin Terminal
            \/ SameLineage(latest, f) /\ latest.state = "expired" /\ f.state = "delivered"
         THEN "open"
         ELSE IF SameLineage(latest, f) THEN "subsumes" ELSE "conflicts"

\* loadMatchingEvidence.
Retained(chain, f) == \E i \in DOMAIN chain : chain[i] = f

\* recordAttemptEvidence: append the fact, acknowledge it without appending
\* ("kept"), or refuse it with 409.
Reply(chain, f) ==
    CASE chain = <<>> -> IF f.state = "attempted" THEN "append" ELSE "refuse"
      [] chain # <<>> /\ f.state = "attempted" -> "kept"
      [] chain # <<>> /\ f.state # "attempted" /\ Latest(chain) = f -> "kept"
      [] OTHER ->
           CASE Disposition(Latest(chain), f) = "subsumes"  -> "kept"
             [] Disposition(Latest(chain), f) = "conflicts" -> "refuse"
             [] OTHER -> IF Retained(chain, f) THEN "kept"
                         ELSE IF <<Latest(chain).state, f.state>> \in Allowed
                              THEN "append" ELSE "refuse"

Recorded(chain, f) ==
    IF Reply(chain, f) = "append" THEN Append(chain, f) ELSE chain
=============================================================================
