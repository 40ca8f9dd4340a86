SPECIFICATION MCSpec
CONSTANTS
  Run = {r1, r2}
  Response = {q1, q2}
  MaxReminderCount = 3
  MaxFaults = 1
  MaxActive = 2
CHECK_DEADLOCK FALSE
INVARIANTS
  TypeOK
  RemindersAreBounded
  LatestCodeWasMailed
  ConsentMatchesApproval
  SerialOneOutcome
PROPERTIES
  SignatoryIsSettled
