SPECIFICATION Spec
CONSTANTS
  None = None
  Fixtures <- MCFixtures
  Teams <- MCTeams
  FirstClub <- MCClub
  Movers <- MCMovers
  NewClub = 3
  TransferDays <- MCTransferDays
  StudyDays <- MCStudyDays
  Outcomes <- MCOutcomes
  Later <- MCLater
  Buffer = 1
  Delay = 2
  MaxTime = 11
  Settings <- MCSettings
  MaxStudies = 4
INVARIANTS
  StudiesAreCausal
  RerunsAgree
  EveryRowIsAccounted
  PoliciesShareTheSample
  BaselinesAgree
CHECK_DEADLOCK FALSE
