\* Two users whose names agree in their first eight characters, with room
\* for both in the table.
SPECIFICATION UserSpec
CONSTANTS
  Sessions <- Namesakes
  HashSize = 2
  MaxSessions = 2
  MaxTime = 2
INVARIANT FirstEight
