\* A 429 asks for a pause that is longer than the limiter's window.
CONSTANTS
  Task = {c1, c2}
  Window <- OneWindow
  Kind <- OneKind
  Duration <- OneTick
  Phase <- OnePhase
  Version = {0}
  Limit <- OneRule
  Job <- OneJob
  InfoWeight = 1
  MaxRetries = 1
  MaxBackoff = 0
  RetryAfter = 3
  MaxTime = 4
SPECIFICATION PacingSpec
CHECK_DEADLOCK FALSE
INVARIANT HaltsTheClass
