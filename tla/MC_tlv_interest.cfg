CONSTANTS
  AnswerStale = 4
  MaxEntries = 1
SPECIFICATION MSpec
INVARIANT RoundTrip
CHECK_DEADLOCK FALSE
