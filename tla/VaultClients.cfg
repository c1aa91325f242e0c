SPECIFICATION Spec
CONSTANTS
  e1 = e1
  e2 = e2
  NoId = NoId
  Ids = {e1, e2}
  Blank = ""
  Texts    <- MCTexts
  Host     <- MCHost
  Contains <- MCContains
  Commands = {c1}
  Imported <- MCImported
  Sites = {"host"}
  Usernames = {"host"}
  Names = {"host"}
  Queries = {"host"}
  Refs     <- MCRefs
  MaxFlight = 1
INVARIANTS
  EntriesWhole
  SecretsBelong
  SoleMatch
PROPERTY NoReturn
