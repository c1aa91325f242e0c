SPECIFICATION MCSpec
CONSTANTS
  Login = login
  note = note
  Types = {login, note}
  All = all
  Ids = {1, 2, 3}
  TypeOf <- MCTypeOf
  NameOf <- MCNameOf
  Chars = {"a", "b", "-"}
  Letters = {"a", "b"}
  MaxResults = 2
  Loads = {l1}
  Tasks = {t1}
  Queries <- MCQueries
  MaxIdle = 1
INVARIANTS
  OmniboxTypeOK
  OneView
  TabsAgree
  RingFresh
  RowsTell
  RowsSettle
CHECK_DEADLOCK FALSE
