\* A release killed while it writes its current rates, and a script that uses them.
SPECIFICATION Spec
CONSTANTS
  Target = 2
  HorizonLength = 2
  Due <- MCDue
  Books = {"opta", "fbref"}
  None = None
  MaxReleases = 1
  MaxScripts = 2
  MaxNotes = 1
INVARIANT RateRunIsComplete
CHECK_DEADLOCK FALSE
