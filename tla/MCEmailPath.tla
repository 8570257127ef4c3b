---------------------------- MODULE MCEmailPath ----------------------------
(* A small instance of EmailPath for TLC, with a send ledger that answers. *)
EXTENDS EmailPath, TLC

CONSTANTS w1, w2, b1, b2, b3, m1, m2, m3, m4

\* Batch b1 was handed over twice; nobody can read b3.
CarriesTwice == m1 :> b1 @@ m2 :> b1 @@ m3 :> b2 @@ m4 :> b3

\* Everything any writer could say, of two messages and two providers.
Ses(state, ref, detail) == Fact(state, "ses", ref, detail)
OfferedFacts ==
    {Attempted, Ses("provider-accepted", "one", Null),
     Ses("provider-accepted", "two", Null), Ses("delivered", "one", "proof"),
     Ses("delivered", "one", "later proof"), Ses("expired", "one", "TTL"),
     Ses("failed", "one", "BOUNCE"), Ses("delivered", "two", "proof"),
     Ses("unknown", "one", "CARRIER_FILTERING"), Ses("failed", Null, "REJECTED"),
     Ses("unknown", Null, "AMBIGUOUS"), Fact("unknown", "mock", Null, "AMBIGUOUS")}

WorkerSymmetry == Permutations({w1, w2})
=============================================================================
