\* The horizon the app shows, after other scripts.
SPECIFICATION Spec
CONSTANTS
  Target = 2
  HorizonLength = 2
  Due <- MCDue
  Books = {"opta", "fbref"}
  None = None
  MaxReleases = 1
  MaxScripts = 2
  MaxNotes = 1
INVARIANT HorizonUnmixed
CHECK_DEADLOCK FALSE
