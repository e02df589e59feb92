SPECIFICATION FairSpec
CONSTANTS
  None = None
  MaxChanges = 2
  MaxReads = 3
  MaxFaults = 1
INVARIANT PagesAreSound
PROPERTIES
  NeverGoesBack
  ViewConverges
