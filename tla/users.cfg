\* Up to two entries of two users, a table of one, three seconds.
SPECIFICATION UserSpec
CONSTANTS
  Sessions <- TwoUsers
  HashSize = 1
  MaxSessions = 2
  MaxTime = 3
INVARIANTS UniqExact CacheCoherent
