CONSTANTS
  m_threadCount = 3
  Own = {11, 12}
SPECIFICATION FairSpec
INVARIANT ThreadTypeOK IdsAreReal NoUseAfterFree ReclaimedOnce
PROPERTY OwnerReturns
CHECK_DEADLOCK FALSE
