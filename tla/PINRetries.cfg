SPECIFICATION MCSpec
CONSTANTS
  Nonces  = {n1, n2, n3}
  Tickets = {k1, k2, k3}
  Tokens  = {t1, t2, t3}
  Handlers = {h1}
  PINs = {p1, p2}
  None = None
  NonceTTL = 5
  SessionTTL = 5
  MaxSessions = 1
  PinLockoutBase = 1
  PinLockoutMax = 1
  MaxTTYIterations = 10
  MaxTime = 2
  MaxSerial = 1
SYMMETRY IdSymmetry
INVARIANT RetryLimit
