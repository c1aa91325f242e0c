SPECIFICATION MCSpec
CONSTANTS
  EntryIds = {e1, e2}
  Types = {unspecified, login, note}
  Unspecified = unspecified
  Payloads = {p1}
  Secrets = {s1, s2}
  Keys = {g1}
  Clients = {c1, c2}
  None = none
  MaxTime = 1
SYMMETRY StoreSymmetry
INVARIANTS
  TypeOK
  IndexExact
PROPERTIES
  VaultSpec
