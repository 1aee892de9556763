\* Two submissions, two goroutines at a time, two validations a cooldown apart.
CONSTANTS
  r1 = r1
  r2 = r2
  first = first
  second = second
  HasForm = TRUE
  Entries = {}
  MaxAttempts = 2
  Deliveries = {first, second}
  Login <- TwoLogins
  Requests = {r1, r2}
  Budget = 3
  Guard = 1
  LookupBudget = 2
  ResultBudget = 2
  Cooldown = 4
  ClockBound = 7
  FormBound = 1
  CrashBound = 1

SYMMETRY Slots

\* The clock ends.
CHECK_DEADLOCK FALSE

SPECIFICATION Spec

INVARIANTS
  CardIsCurrent
  SuccessIsBound

PROPERTIES
  ResultIsFinal
  LatestValidationBinds
  LookupsSpaced
