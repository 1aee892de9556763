\* Five histories in one chat and two in two: events in any order.
CONSTANTS
  Deliveries = {1, 2, 3, 4}
  Histories <- AllHistories
  MaxAttempts = 2
  DisturbanceBound = 1

\* Nothing is left to do once every delivery is settled.
CHECK_DEADLOCK FALSE

SPECIFICATION Spec

INVARIANTS
  TypeOK
  WorkflowCardShowsState
  ReactionShowsState
  NewestWins


  
