\* Reviewers, captures and runs around two deadlines, in any order.
SPECIFICATION EvidenceSpec
CONSTANTS
  p = p
  team = team
  None = None
  Players = {p}
  LastGW = 2
  MaxTime = 2
  MaxOfficial = 3
  MaxReviewed = 2
  MaxModelRuns = 3
  TeamOf <- MCTeamOf
  Workbook <- MCWorkbook
  Payloads <- MCPayloads
  LivePayloads <- MCLivePayloads
  OverrideAsks <- MCOverrideAsks
  ScenarioAsks <- MCScenarioAsks
  Notes <- MCNotes
INVARIANTS EvidenceIsCausal RefreshFlagsHonest
CHECK_DEADLOCK FALSE
