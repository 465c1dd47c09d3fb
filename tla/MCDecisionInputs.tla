---------------------------- MODULE MCDecisionInputs ----------------------------
(* DecisionInputs with seventeen players, two snapshots and a three-week horizon. *)
EXTENDS DecisionInputs

Everyone == 1 .. 17
MCPos == [p \in Everyone |-> CASE p \in {1, 15, 16} -> "GK"
                               [] p \in (2 .. 5) \cup {12} -> "DEF"
                               [] p \in (6 .. 9) \cup {13} -> "MID"
                               [] OTHER -> "FWD"]

Row(p, price, club, tradable) ==
  [code |-> p + 100, name |-> p, pos |-> MCPos[p], club |-> club, price |-> price,
   tradable |-> tradable]

\* In the first snapshot 13 and 17 may not be sold.  In the second 2 is cheaper, 3 has
\* moved to a club that then has four, 9 may not be sold and Gameweek 1 is put off.
First == [at |-> 0, deadline |-> <<1, 3, 4>>,
          rows |-> [p \in Everyone |-> Row(p, 50, p % 8, p \notin {13, 17})]]
Second == [at |-> 1, deadline |-> <<2, 3, 4>>,
           rows |-> [p \in Everyone |-> Row(p, IF p = 2 THEN 49 ELSE 50,
                                            IF p \in {3, 8} THEN 1 ELSE p % 8, p # 9)]]
MCSnapshots == {First, Second}

Fresh == [c \in Chips |-> "available"]
Pick(order, captain, vice, file) ==
  [entry |-> 1, gw |-> 1, order |-> order, captain |-> captain, vice |-> vice, file |-> file,
   bank |-> 5, free |-> 1, unlimited |-> FALSE, chips |-> Fresh]
Own == [i \in Slots |-> i]
\* The slots 1 .. 11 are a 1-4-4-2 of 1 .. 11; 12 .. 15 are the bench.
File(order, file) ==
  Pick(order, 10, 11, file) @@ [bought |-> [i \in Slots |-> 45], sold |-> [i \in Slots |-> 50]]

MCSquadFiles == {File(Own, "kept"), [File(Own, "benched") EXCEPT !.vice = 12],
                 [File([Own EXCEPT ![15] = 16], "played")
                    EXCEPT !.chips["wildcard"] = "active", !.unlimited = TRUE, !.free = None]}
MCPicks == {Pick(Own, 10, 11, "api")}

Them == [v \in 1 .. 17 |-> [code |-> v + 100, name |-> v]]
MCVaastavFiles == {Them, [v \in {1, 2} |-> [code |-> 103 - v, name |-> IF v = 1 THEN 1 ELSE 9]],
                   1 :> [code |-> 1, name |-> 1]}

Played(player, fixture, minutes) ==
  [player |-> player, fixture |-> fixture, gw |-> fixture, minutes |-> minutes,
   starts |-> IF minutes > 45 THEN 1 ELSE 0]
Two == [p \in {1, 2} |-> [code |-> p + 100, minutes |-> 100 - 10 * p]]
MCHistoryFiles ==
  {[players |-> Two, rows |-> <<Played(1, 1, 60), Played(1, 3, 30), Played(1, 1, 60)>>],
   [players |-> Two, rows |-> <<Played(1, 1, 90), Played(1, 1, 60)>>],
   [players |-> Two, rows |-> <<Played(2, 2, 80), Played(1, 1, 60)>>],
   [players |-> [Two EXCEPT ![2].code = 101], rows |-> <<Played(2, 2, 80), Played(1, 1, 90)>>],
   [players |-> [Two EXCEPT ![1].minutes = 91], rows |-> <<Played(1, 1, 91)>>]}
MCWindows == {[long |-> 3, short |-> 1, defcon |-> 2], [long |-> 2, short |-> 2, defcon |-> 1]}

Evidence(p, name, class, sample, stats, observed) ==
  [player |-> p, code |-> p + 100, name |-> name, pos |-> MCPos[p], class |-> class,
   sample |-> sample, stats |-> stats, observed |-> observed]
MCEvidenceFiles ==
  {{Evidence(1, 1, "academy_youth", 90, "some", 1), Evidence(2, 2, "role_only", None, "none", 0)},
   {Evidence(1, 9, "senior_comparable", 90, "all", 0)}}

\* None yet; of version 1 and of version 2, without the later tables; of version 14.
MCDatabases ==
  {[tables |-> {}, versions |-> {}, strict |-> {}, open |-> {}],
   [tables |-> {"snapshots"}, versions |-> {1}, strict |-> Range(StrengthColumns), open |-> {}],
   [tables |-> {"snapshots"}, versions |-> {1, 2}, strict |-> Range(StrengthColumns),
    open |-> {}],
   [tables |-> Range(Tables) \ {"squads"}, versions |-> {2, 14}, strict |-> {},
    open |-> {"overrides"}]}

Fixture(p, fixture, xp) ==
  [code |-> p + 100, fixture |-> fixture, xp |-> xp, variance |-> xp, plays |-> 9, flags |-> {}]
\* 14 is not projected in Gameweek 3; 16 plays twice in the others, and one uncertainty of
\* his is not known.
Fixtures(gw) ==
  {Fixture(p, 1, p % 7) : p \in IF gw = 3 THEN Everyone \ {14} ELSE Everyone}
    \cup IF gw = 3 THEN {} ELSE {[Fixture(16, 2, 3) EXCEPT !.variance = None]}
Ask(gw, source, asOf) ==
  [gw |-> gw, source |-> source, asOf |-> asOf, version |-> "v1", rows |-> Fixtures(gw)]
MCModelAsks == {Ask(gw, First, 1) : gw \in GWs} \cup {Ask(1, Second, 1)}

===============================================================================
