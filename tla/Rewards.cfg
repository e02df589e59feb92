SPECIFICATION RewardsFairSpec
CONSTANTS
  c1 = c1
  c2 = c2
  c3 = c3
  dragon = dragon
  Nothing = Nothing
  LastDay = 1
  MaxChecks = 2
  Lists <- MCLists
  Characters <- MCCharacters
  Tickets <- MCTickets
  Rosters <- MCRosters
  ClearFiles <- MCClearFiles
  Directories <- MCDirectories
INVARIANT RewardsAreSound
PROPERTIES
  GrantsAreWhole
  DayIsFetched
