---- MODULE MCDecisionStack ----
EXTENDS DecisionStack

\* Nineteen players, one to four more of each position than a squad needs.
MCPlayers == 1 .. 19
MCPositionOf ==
  [p \in MCPlayers |-> CASE p \in {1, 2, 16} -> "GK"
                         [] p \in (3 .. 7) \cup {17} -> "DEF"
                         [] p \in (8 .. 12) \cup {19} -> "MID"
                         [] OTHER -> "FWD"]
MCEnabler == [q \in {"GK", "DEF", "MID", "FWD"} |-> 5]

\* Four players of one club; in the second release 3 joins the club of 14, 16 and 18.
Clubs1 == [p \in MCPlayers |-> IF p < 13 THEN p % 6 ELSE 7 + (p % 2)]
Clubs2 == [Clubs1 EXCEPT ![3] = 7]

\* Strong midfielders in one week, strong defenders in another, when two goalkeepers are
\* expected to lose points.
Xp1 == [p \in MCPlayers |-> ((p * 7) % 17) + (IF p \in (8 .. 12) THEN 9 ELSE 0)]
Xp2 == [p \in MCPlayers |-> IF p \in {7, 17} THEN 0 ELSE IF p \in {1, 2} THEN -p
                             ELSE (((p * 5) + 2) % 19) + 1 + (IF p \in (3 .. 6) THEN 6 ELSE 0)]
Price1 == [p \in MCPlayers |-> 4 + ((p * 3) % 4)]
\* In the second release all cost the same but a forward and a midfielder.
Price2 == [p \in MCPlayers |-> CASE p = 15 -> 7 [] p = 19 -> 9 [] OTHER -> 5]

Market1 == [price |-> Price1, club |-> Clubs1, xp |-> <<Xp1, Xp2>>,
            onSale |-> <<MCPlayers, MCPlayers>>]
Market2 == [price |-> Price2, club |-> Clubs2, xp |-> <<Xp2, Xp1>>,
            onSale |-> <<MCPlayers \ {4}, MCPlayers \ {16}>>]
\* A release with fifteen players who can be bought in every week: one squad.
Market3 == [Market1 EXCEPT !.onSale = <<MCPlayers \ {16, 17}, MCPlayers \ {18, 19}>>]
MCMarkets == {Market1, Market2, Market3}

Ruling(locked, excluded, budget, beam, planned) ==
  [locked |-> locked, excluded |-> excluded, budget |-> budget, beam |-> beam,
   lens |-> 6, planned |-> planned, shortlist |-> 3, transferBeam |-> 2,
   transferLens |-> 2, returned |-> 2]
MCRules == {Ruling({}, {}, 80, 1, FALSE), Ruling({}, {}, 80, 500, FALSE),
            Ruling({17, 14}, {1}, 84, 20, TRUE)}

Option(forced, protected, excluded, lens, pairs, beam) ==
  [forced |-> forced, protected |-> protected, excluded |-> excluded, lens |-> lens,
   pairs |-> pairs, shortlist |-> 3, beam |-> beam]
MCOptions == {Option({}, {}, {}, 1, FALSE, 500), Option({2}, {8}, {16}, 2, TRUE, 1)}
MCWildcardRules == {[rules |-> Ruling({}, {}, 0, 40, FALSE), roll |-> 1]}
====
