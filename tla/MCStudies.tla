------------------------------- MODULE MCStudies -------------------------------
(***************************************************************************)
(* Three Gameweeks of three clubs, for TLC.  Fixture 2 may be postponed    *)
(* past the deadline of Gameweek 3, with its label or beyond the fixture   *)
(* of that week; fixture 4 is a second match of Gameweek 2, played last.   *)
(***************************************************************************)
EXTENDS Studies

Match(g, h, a, t) == [gw |-> g, home |-> h, away |-> a, at |-> t]
MCFixtures == <<Match(1, 1, 2, 1), Match(2, 1, 2, 4), Match(3, 1, 2, 7), Match(2, 2, 3, 9)>>
MCLater == <<{}, {5, 8}, {}, {}>>
MCTeams == 1 .. 3
MCClub == [p1 |-> 1, p2 |-> 2, p3 |-> 2, p4 |-> 3, p5 |-> 1]
MCMovers == {"p2"}
MCTransferDays == {3}
MCStudyDays == {9, 11}

Match90(bps) == [starts |-> 1, minutes |-> 90, bps |-> bps, points |-> 2]
Cameo == [starts |-> 0, minutes |-> 20, bps |-> 1, points |-> 1]
Unused == [starts |-> 0, minutes |-> 0, bps |-> 0, points |-> 0]
MCOutcomes == [p1 |-> {Match90(9), Match90(-2), Unused}, p2 |-> {Match90(5)},
               p3 |-> {Cameo}, p5 |-> {Cameo}, p4 |-> {Match90(3)}]

MCSettings == {[from |-> 2, to |-> 3, short |-> 1, defcon |-> 2, min |-> 1]}
===============================================================================
