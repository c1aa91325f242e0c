SPECIFICATION MCFairSpec
CONSTANTS
  Nonces  = {n1, n2}
  Tickets = {k1}
  Tokens  = {t1, t2}
  Handlers = {h1, h2}
  PINs = {p1, p2}
  None = None
  NonceTTL = 1
  SessionTTL = 1
  MaxSessions = 2
  PinLockoutBase = 1
  PinLockoutMax = 1
  MaxTime = 1
  MaxSerial = 2
PROPERTIES
  StaleSessionsEnd
