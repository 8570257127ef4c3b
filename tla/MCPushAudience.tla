--------------------------- MODULE MCPushAudience ---------------------------
(* Instances of PushAudience for TLC: four worlds, each with the people,     *)
(* faults and bounds that its questions need.                                *)
EXTENDS PushAudience, TLC

CONSTANTS ann, ben, i1, i2, t1, t2, t3

World(people, tokens, disturbances, registrations, signIns) ==
    [people |-> people, installs |-> {i1, i2}, tokens |-> tokens,
     providers |-> {"expo"}, selected |-> "expo", pageSize |-> 5,
     disturbances |-> disturbances, maxRegistrations |-> registrations,
     maxEnrolments |-> signIns, lastBatch |-> 1]

\* A phone that changes hands.
HandingOver == World(<<ann, ben>>, {t1, t2}, {"hand over", "sign out"}, 3, 3)

\* Two devices of one person, signed out and reinstalled, two batches.
Reinstalling ==
    [World(<<ann>>, {t1, t2, t3}, {"sign out", "uninstall"}, 3, 2) EXCEPT !.lastBatch = 2]

\* A cutover to APNs with Expo as the fallback, late requests.
Pairing ==
    [World(<<ann, ben>>, {t1, t2}, {"uninstall", "move", "late"}, 8, 3) EXCEPT
        !.providers = {"expo", "apns"}, !.selected = "apns"]

\* Pages of one device each, while registrations come and go.
Paging ==
    [World(<<ann>>, {t1, t2, t3}, {"sign out", "renew", "rebuild"}, 3, 2) EXCEPT
        !.pageSize = 1]

Worlds == {HandingOver, Reinstalling, Pairing, Paging}

\* Tokens are interchangeable within a world.
Alike == Permutations({t1, t2, t3})
=============================================================================
