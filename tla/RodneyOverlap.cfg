\* What flush_queue() is documented to see to: one piece at a time.
SPECIFICATION RodneySpec
CONSTANTS
  Size = 3
  FirstMax = 2
  NextMax = 2
  MaxQueries = 2
  MaxLines = 2
  MaxTime = 2
INVARIANT OnePieceAtATime
CHECK_DEADLOCK FALSE
