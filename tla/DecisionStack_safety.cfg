SPECIFICATION Spec
CONSTANTS
  Players <- MCPlayers
  PositionOf <- MCPositionOf
  HitCost = 4
  TerminalValue = 1
  Enabler <- MCEnabler
  PremiumMargin = 2
  WildcardLens = 1
  WildcardShortlist = 2
  SpendBand = 1
  MinimumPopulation = 2
  TargetPopulation = 2
  RankWindow = 0
  Markets <- MCMarkets
  Rules <- MCRules
  Options <- MCOptions
  WildcardRules <- MCWildcardRules
  Budgets = {77, 78, 79}
  Anchors = {78, 79}
  FreeTransfers = {0, 5}
  MaxReleases = 2
  MaxDraws = 3
  MaxBlanks = 2
INVARIANTS LineupIsBest SubsAreFair PlansAreSound PlanningPays SearchIsSound WildcardIsWorthwhile BenchmarkIsFair
PROPERTY MoneyIsKept
CHECK_DEADLOCK FALSE
