SPECIFICATION Spec
CONSTANTS
  Players <- MCPlayers
  PositionNames = {"DEF", "FWD"}
  PositionOf <- MCPositionOf
  Quota <- MCQuota
  Clubs = {"c1", "c2", "c3", "c4"}
  ClubOf <- MCClubOf
  ClubLimit = 1
  FreeLimit = 2
  Chips = {"wildcard", "free_hit"}
  LastRelease = 2
  Price <- MCPrice
  OnSale <- MCOnSale
  FirstGameweek <- MCFirstGameweek
  DefaultSquad = {"d1", "f1"}
  Banks = {1}
  Frees = {2}
  Entries <- MCEntries
  SavedPlans <- MCSavedPlans
  SquadSize = 2
  MaxInputs = 3
  MaxInFlight = 2
  MaxPending = 2
INVARIANTS
  PlanIsCoherent
PROPERTIES
  ReloadKeepsPlan
  CommitBalances
  CommitIsPaid
CHECK_DEADLOCK FALSE
