CONSTANTS
  Sids = {1, 2, 3}
  Requests = {setup, q1, q2}
  Setup = setup
  Watched = {q1}
  Slots = {1, 2, 3, 4}
  MaxLost = 1
  None = None
SPECIFICATION FairSpec
INVARIANTS OneLivePerLogin OrphansWereLost
PROPERTIES SessionKept ExpiredWhenDead RequestsEnd
CHECK_DEADLOCK FALSE
