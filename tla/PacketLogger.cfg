SPECIFICATION Spec
CONSTANTS
  MaxRuns = 2
  MaxLines = 3
INVARIANTS FileIsPrefix FlushedSurvives LossMeansFailure
CHECK_DEADLOCK FALSE
