SPECIFICATION Spec
CONSTANTS
  Attempts = {a1}
  Nothing = Nothing
  Requests = {q1, q2}
  Horizons = {"GW1-3", "GW2-4"}
  AllowedHealth = {"shadow", "production"}
SYMMETRY Symmetry
INVARIANTS
  FreshDecisions
  RatingsAreSound
CHECK_DEADLOCK FALSE
