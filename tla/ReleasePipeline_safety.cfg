\* One release, with any scripts between its commits.
SPECIFICATION Spec
CONSTANTS
  Target = 2
  HorizonLength = 2
  Due <- MCDue
  Books = {"opta", "fbref"}
  None = None
  MaxReleases = 1
  MaxScripts = 2
  MaxNotes = 1
INVARIANTS ModelsAreCausal ReleaseIsOneLineage
PROPERTY HealthIsStable
CHECK_DEADLOCK FALSE
