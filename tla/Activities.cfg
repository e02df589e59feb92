SPECIFICATION ActivitiesFairSpec
CONSTANTS
  Nothing = Nothing
  Ids = {i1, i2}
  Browsers = {b1, b2}
  Legacy = {b1}
  Forms = {b1}
  MaxEditions = 2
  MaxOpens = 2
  MaxCalls = 2
  MaxLosses = 1
INVARIANT ListsAreSound
PROPERTIES
  OnlyUnseenIsLost
  FormFollowsCache
CHECK_DEADLOCK FALSE
