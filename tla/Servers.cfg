SPECIFICATION FairSpec
CONSTANTS
  s1 = s1
  s2 = s2
  e1 = e1
  e2 = e2
  None = None
  Servers = {s1}
  Legacy = {s1}
  Edits = {e1, e2}
  Own = {e1}
  Capacity = 2
  MaxChanges = 2
INVARIANTS
  TypeOK
PROPERTIES
  NamesGoForward
  CatalogueReachesPage
