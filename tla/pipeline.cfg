CONSTANTS
  Scripts <- MCScripts
  MaxOps = 2
  MaxNotes = 1
SPECIFICATION Spec
INVARIANTS
  TypeOK
  AllOrNothing
  OutcomeTruthful
  PipelineResultsOwn
  QueryResultOwn
  PipelineCompletes
  NoStrandedNotification
  AnswerIsComing
CHECK_DEADLOCK FALSE
