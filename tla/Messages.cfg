CONSTANTS
  Texts = {hello}
  Targets = {t1, t2}
  First = t1
  Rates = {r1}
  Nil = Nil
  MaxSends = 2
  MaxEdits = 1
SPECIFICATION MessagesFairSpec
INVARIANT MessagesAreHonest
PROPERTIES NothingGoesBack SendingEnds
