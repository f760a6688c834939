SPECIFICATION Spec
CONSTANTS
  Callers = {c1, c2}
  Ids = {i1, i2, i3}
  Bodies = {b1}
  MaxAppendRetries = 2
INVARIANTS
  TypeOK
  StoreConsistent
  AnswersInLog
  ExhaustedOnlyByContention
PROPERTY
  ImplementsAppendOnlyLog
