---------------------------- MODULE MCEvidenceStore ----------------------------
(* EvidenceStore with one player, two Gameweeks and a deadline that may move. *)
EXTENDS EvidenceStore

CONSTANTS p, team

MCTeamOf == [q \in Players |-> team]
MCWorkbook == [q \in Players |-> "regular"]

MCPayload(due, current, status, joined, event) ==
  [deadline |-> [g \in GWs |-> IF g = 1 THEN 0 ELSE due], current |-> current,
   roster |-> [q \in Players |-> status], joined |-> [q \in Players |-> joined],
   event |-> [g \in GWs |-> IF g = 1 THEN event ELSE "open"]]

\* Before the season; after Gameweek 1, provisional; then final, with the deadline of
\* Gameweek 2 put off.
MCPayloads ==
  {MCPayload(1, 0, "doubtful", -1, "open"),
   MCPayload(1, 1, "injured", 0, "finished"),
   MCPayload(2, 1, "fit", 0, "final")}

MCLivePayloads == {[q \in Players |-> k] : k \in {"absent", "start"}}

MCOverrideAsks ==
  {[player |-> p, gw |-> 2, observed |-> 0, until |-> None, eligible |-> "unset", chance |-> "some"],
   [player |-> p, gw |-> 2, observed |-> 1, until |-> None, eligible |-> "no", chance |-> "none"]}

MCScenarioAsks ==
  {[player |-> p, gw |-> 2, observed |-> 1, until |-> None],
   [player |-> p, gw |-> 1, observed |-> 0, until |-> 0]}

MCNotes ==
  {[kind |-> "role", subject |-> p, observed |-> t, from |-> t \div 2, until |-> None, date |-> 0] : t \in {0, 2}}

===============================================================================
