SPECIFICATION Spec
CONSTANTS
  t1 = t1
  t2 = t2
  c1 = c1
  c2 = c2
  Tokens = {t1, t2}
  Calls = {c1, c2}
  RequestTTL = 1
  ConfirmedTTL = 2
  MaxTime = 6
SYMMETRY Symmetry
INVARIANT TypeOK
INVARIANT WindowIsEarned
INVARIANT TokenUsedOnce
INVARIANT SentUnderWindow
