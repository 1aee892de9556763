\* A pipeline whose update Lark rejects once; no lost answers, no crashes.
CONSTANTS
  Deliveries = {1, 2}
  Histories <- PipelineEnds
  MaxAttempts = 2
  DisturbanceBound = 0

\* Nothing is left to do once every delivery is settled.
CHECK_DEADLOCK FALSE

SPECIFICATION Spec

INVARIANTS
  CardShowsState
