SPECIFICATION Spec
CONSTANTS
  a = a
  c = c
  t1 = t1
  t2 = t2
  b1 = b1
  b2 = b2
  x = x
  y = y
  z = z
  Users <- MCUsers
  Root = a
  Tokens <- MCTokens
  Browsers <- MCBrowsers
  Tabs <- MCTabs
  BrowserOf <- MCBrowserOf
  None = None
  Changes <- MCChanges
  TTL = 1
  MaxTime = 1
  MaxGrants = 1
SYMMETRY Symmetric
CONSTRAINT FewPages
INVARIANTS
  AccountsAreSound
  SessionsAreCurrent
  ScreensAreHonest
