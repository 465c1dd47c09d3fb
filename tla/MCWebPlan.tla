-------------------------------- MODULE MCWebPlan --------------------------------
(* WebPlan with squads of a defender and a forward. *)
EXTENDS WebPlan

MCPlayers == {"d1", "d2", "d3", "f1", "f2"}
MCPositionOf == [p \in MCPlayers |-> IF p \in {"d1", "d2", "d3"} THEN "DEF" ELSE "FWD"]
MCQuota == [DEF |-> 1, FWD |-> 1]

\* d2 and f2 play for the same club.
MCClubOf == [d1 |-> "c1", d2 |-> "c2", d3 |-> "c3", f1 |-> "c4", f2 |-> "c2"]

\* d1 becomes cheaper, d2 dearer, and d3 disappears.
MCPrice == <<[d1 |-> 5, d2 |-> 4, d3 |-> 5, f1 |-> 6, f2 |-> 6],
             [d1 |-> 4, d2 |-> 5, f1 |-> 6, f2 |-> 6]>>
MCOnSale == <<{"d1", "d2", "d3", "f2"}, {"d1", "d2", "f1", "f2"}>>
MCFirstGameweek == <<1, 2>>
MCEntries == {[gameweek |-> 1, players |-> {"d2", "f1"}, bank |-> 1]}

\* The demo squad with a Wildcard and a staged move; and a squad bought cheaply, with a
\* submitted XI and a move that waits.
DemoPlan ==
  [squad |-> {"d1", "f1"}, bank |-> 0, free |-> 1, selling |-> NoPrices,
   setup |-> NoSetup, pending |-> <<>>, chip |-> NoChip, used |-> {}]
MCSavedPlans ==
  {[DemoPlan EXCEPT !.pending = <<[out |-> "d1", in |-> "d3"]>>, !.chip = "wildcard"],
   [DemoPlan EXCEPT !.squad = {"d2", "f1"}, !.bank = 1, !.selling = [d2 |-> 4, f1 |-> 6],
                    !.setup = [gameweek |-> 1, players |-> {"d2", "f1"}],
                    !.pending = <<[out |-> "d2", in |-> "d1"]>>]}

===============================================================================
