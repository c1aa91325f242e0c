SPECIFICATION MCSpec
CONSTANTS
  Nonces  = {n1, n2}
  Tickets = {k1, k2}
  Tokens  = {t1, t2}
  Handlers = {h1, h2}
  PINs = {p1, p2}
  None = None
  NonceTTL = 1
  SessionTTL = 1
  MaxSessions = 1
  PinLockoutBase = 1
  PinLockoutMax = 1
  MaxTTYIterations = 3
  MaxTime = 2
  MaxSerial = 2
SYMMETRY IdSymmetry
INVARIANTS
  ClientTypeOK
  CacheFaithful
  WrongPINsCostTickets
