-------------------------------- MODULE Lineups --------------------------------
(***************************************************************************)
(* The team of one Gameweek: recommend_lineup of decision/lineup.py, the   *)
(* substitutions of decision/autosub.py and the what-if of                 *)
(* decision/role_scenario_sensitivity.py.                                  *)
(*                                                                         *)
(* A squad fills the slots 1 .. 15 (squad_position); `pos' tells the       *)
(* position of every slot and `xp' the expected points of the player in    *)
(* it, in whole numbers.                                                   *)
(***************************************************************************)
EXTENDS Integers, FiniteSetsExt, SequencesExt

Positions == {"GK", "DEF", "MID", "FWD"}
PositionCounts == [q \in Positions |-> CASE q = "GK" -> 2 [] q = "FWD" -> 3 [] OTHER -> 5]
Slots == 1 .. 15

At(pos, S, q) == {i \in S : pos[i] = q}
Points(xp, S) == SumFunctionOnSet(xp, S)

\* Higher points first, then the lower slot.
Ahead(xp, i, j) == xp[i] > xp[j] \/ (xp[i] = xp[j] /\ i < j)
FirstOf(xp, S, k) == {i \in S : Cardinality({j \in S : Ahead(xp, j, i)}) < k}
Ranked(xp, S) ==
  [k \in 1 .. Cardinality(S) |->
     CHOOSE i \in S : Cardinality({j \in S : Ahead(xp, j, i)}) = k - 1]
InSlotOrder(S) == Ranked([i \in Slots |-> 0], S)

-----------------------------------------------------------------------------
(* The lineup. *)

IsLegalStartingXI(pos, S) ==
  /\ Cardinality(At(pos, S, "GK")) = 1
  /\ Cardinality(At(pos, S, "DEF")) >= 3
  /\ Cardinality(At(pos, S, "FWD")) >= 1

\* How many of each position a formation has, with d defenders and f forwards.
Formation(d, f) ==
  [q \in Positions |-> CASE q = "GK" -> 1 [] q = "DEF" -> d [] q = "FWD" -> f
                         [] OTHER -> 10 - d - f]

\* Mutant of Formations: five midfielders are never tried.
FormationsOfFour ==
  {f \in {Formation(d, n) : d \in 3 .. 5, n \in 1 .. 3} : f["MID"] \in 2 .. 4}

Formations ==
  {f \in {Formation(d, n) : d \in 3 .. 5, n \in 1 .. 3} : f["MID"] \in 2 .. 5}

Eleven(pos, xp, f) == UNION {FirstOf(xp, At(pos, Slots, q), f[q]) : q \in Positions}

\* Of two elevens with the same points the one whose slots come first.
Earlier(S, T) == \E i \in S \ T : \A j \in T \ S : i < j

\* Of elevens with their points the best.
Strongest(scored) ==
  (CHOOSE s \in scored :
     \A t \in scored \ {s} : s[1] > t[1] \/ (s[1] = t[1] /\ Earlier(s[2], t[2])))[2]

\* The best eleven of a formation each, and of those the one with the most points.
Starters(pos, xp) ==
  Strongest({<<Points(xp, S), S>> : S \in {Eleven(pos, xp, f) : f \in Formations}})

Lineup(pos, xp, S, best) ==
  [starters |-> S,
   captain |-> best[1],
   vice |-> best[2],
   benchKeeper |-> CHOOSE i \in At(pos, Slots \ S, "GK") : TRUE,
   bench |-> Ranked(xp, (Slots \ S) \ At(pos, Slots \ S, "GK")),
   total |-> Points(xp, S) + xp[best[1]]]

Led(pos, xp, S) == Lineup(pos, xp, S, Ranked(xp, S))
RecommendLineup(pos, xp) == Led(pos, xp, Starters(pos, xp))

-----------------------------------------------------------------------------
(* Substitutions. *)

\* The slots on the field after one starter's turn, and who came on for whom.
Substitute(pos, bench, blanks, team, starter) ==
  LET fits == {k \in DOMAIN bench :
                 /\ bench[k] \notin DOMAIN team.used
                 /\ IsLegalStartingXI(pos, (team.field \ {starter}) \cup {bench[k]})}
      k == CHOOSE i \in fits : \A j \in fits : i <= j
  IN IF starter \notin blanks \/ fits = {} THEN team
     ELSE [field |-> (team.field \ {starter}) \cup {bench[k]},
           used |-> [on \in DOMAIN team.used \cup {bench[k]} |->
                       IF on = bench[k] THEN starter ELSE team.used[on]]]

\* Mutant of Turn: every substitution is judged by the eleven that kicked off.
TurnFromKickOff(pos, lineup, blanks, team, starter) ==
  LET t == Substitute(pos, lineup.bench, blanks, [team EXCEPT !.field = lineup.starters], starter)
  IN [field |-> (team.field \ Range(t.used)) \cup DOMAIN t.used, used |-> t.used]

Turn(pos, lineup, blanks, team, starter) ==
  Substitute(pos, lineup.bench, blanks, team, starter)

\* Blanking starters in the order of their slots, each by the first on the bench who
\* leaves a legal eleven.
ResolveSubstitutions(pos, lineup, blanks) ==
  FoldLeft(LAMBDA team, starter : Turn(pos, lineup, blanks, team, starter),
           [field |-> lineup.starters, used |-> <<>>],
           InSlotOrder(lineup.starters))

\* What the bench is worth when these starters blank: whoever comes on counts in full,
\* the goalkeeper on his own.
BenchPoints(pos, lineup, xp, blanks) ==
  Points(xp, DOMAIN ResolveSubstitutions(pos, lineup, blanks).used)
    + IF At(pos, blanks, "GK") # {} THEN xp[lineup.benchKeeper] ELSE 0

-----------------------------------------------------------------------------
(* What if a player with an uncertain role does not play? *)

Without(xp, i) == [xp EXCEPT ![i] = 0]

Difference(before, after) ==
  [changed |-> after.starters # before.starters, captain |-> after.captain # before.captain]

RoleScenario(pos, xp, i) ==
  Difference(RecommendLineup(pos, xp), RecommendLineup(pos, Without(xp, i)))

-----------------------------------------------------------------------------
(* References. *)

\* Every eleven the rules allow.
LegalElevens(pos) ==
  {G \cup F : G \in {{i} : i \in At(pos, Slots, "GK")},
              F \in {H \in kSubset(10, Slots \ At(pos, Slots, "GK")) :
                       /\ Cardinality(At(pos, H, "DEF")) >= 3
                       /\ Cardinality(At(pos, H, "FWD")) >= 1}}

\* Every way to bring players on so that the team stays legal.
Replacements(pos, lineup, blanks) ==
  LET outfield == blanks \ At(pos, blanks, "GK") IN
    {swap \in [on : SUBSET Range(lineup.bench), off : SUBSET outfield] :
       /\ Cardinality(swap.on) = Cardinality(swap.off)
       /\ IsLegalStartingXI(pos, (lineup.starters \ swap.off) \cup swap.on)}

===============================================================================
