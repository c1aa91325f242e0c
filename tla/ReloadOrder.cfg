SPECIFICATION Spec
CONSTANTS
  Login = login
  note = note
  Types = {login, note}
  All = all
  Ids = {1, 2, 3}
  TypeOf <- MCTypeOf
  NameOf <- MCNameOf
  Chars = {"a", "b", "-"}
  Letters = {"a", "b"}
  MaxResults = 2
  Loads = {l1, l2}
  Tasks = {t1}
  Queries <- MCQueries
  MaxIdle = 1
PROPERTIES
  ListedStay
CHECK_DEADLOCK FALSE
