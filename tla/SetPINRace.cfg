SPECIFICATION MCSpec
CONSTANTS
  Nonces  = {n1}
  Tickets = {k1}
  Tokens  = {t1}
  Handlers = {h1, h2}
  PINs = {p1, p2}
  None = None
  NonceTTL = 1
  SessionTTL = 1
  MaxSessions = 1
  PinLockoutBase = 1
  PinLockoutMax = 2
  MaxTime = 1
  MaxSerial = 3
PROPERTY PINChangeAuthorised
