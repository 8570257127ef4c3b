------------------------ MODULE MCRosterPublication ------------------------
(* Model values of RosterPublication for TLC. *)
EXTENDS RosterPublication, TLC

CONSTANTS ann, ben, cid, office, club, c1, c2

\* Everybody, too few, nobody.
ListsThatOccur == {{ann, ben, cid}, {ben}, {}}

\* Publications are interchangeable.
Alike == Permutations({c1, c2})
=============================================================================
