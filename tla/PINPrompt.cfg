SPECIFICATION Spec
CONSTANTS
  Validators = {v1, v2}
  Timeout = 2
INVARIANTS
  TypeOK
  ResultFaithful
  AcceptedIsKept
PROPERTIES
  TimeoutAfterInactivity
  PromptEnds
\* The prompt is over when its window is closed and its goroutines have ended.
CHECK_DEADLOCK FALSE
