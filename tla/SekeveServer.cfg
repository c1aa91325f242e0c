SPECIFICATION MCSpec
CONSTANTS
  Nonces  = {n1, n2}
  Tickets = {k1, k2}
  Tokens  = {t1, t2}
  Handlers = {h1, h2}
  PINs = {p1, p2}
  None = None
  NonceTTL = 1
  SessionTTL = 1
  MaxSessions = 2
  PinLockoutBase = 1
  PinLockoutMax = 2
  MaxTime = 3
  MaxSerial = 3
SYMMETRY IdSymmetry
INVARIANTS
  ServerTypeOK
  CredentialsSpent
  SingleUse
  SessionsVouched
  NoOrphanSessions
  PinGate
  GrantsVouched
  GuessesBounded
PROPERTIES
  PINChangeChecked
  LockoutOnlyReset
  AuthSpec
