\* An entered event, forms that Lark forgets, a submission of either form and a
\* malformed one, under fairness.
CONSTANTS
  r1 = r1
  r2 = r2
  first = first
  second = second
  Login <- OneMalformed
  HasForm = FALSE
  Entries = {e1}
  MaxAttempts = 2
  Deliveries = {first, second}
  Requests = {r1}
  Budget = 3
  Guard = 1
  LookupBudget = 2
  ResultBudget = 2
  Cooldown = 4
  ClockBound = 3
  FormBound = 2
  CrashBound = 1

\* The clock ends.
CHECK_DEADLOCK FALSE

SPECIFICATION LiveSpec

PROPERTIES
  OneForm
  CallbacksEnd
  FormDelivered
