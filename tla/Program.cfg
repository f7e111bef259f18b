SPECIFICATION FairSpec
CONSTANTS
  t1 = t1
  t2 = t2
  Nobody = Nobody
  Threads = {t1, t2}
  Holders = {t1, t2}
  Writers = {t1, t2}
  Fallible = {t2}
  Renamers = {t2}
  MaxRounds = 2
  StartTime = 3
  MaxTime = 6
  MaxTroubles = 1
INVARIANTS TypeOK NoUseAfterDestroy CountExact FollowsRotation RetriesOpen
PROPERTIES OwnerReturns
CHECK_DEADLOCK FALSE
