------------------------------- MODULE MCImport -------------------------------
\* Import of a small export: two logins with keys of their own, one whose key is
\* the first's only because of the colons, a note that the vault already has, a
\* card and an item without a name.
EXTENDS Import

login(site, username) == [type |-> "login", name |-> <<"x">>, site |-> site, username |-> username]
other(type, name) == [type |-> type, name |-> name]

MCExport ==
  << login(<<"h", ":", "a">>, <<"b">>),
     login(<<"h">>, <<"a", ":", "b">>),
     login(<<"h">>, <<"c">>),
     other("note", <<"n">>),
     other("card", <<"v">>),
     other("note", <<>>) >>

MCOthers    == <<MapToEnvelope(Export[4]), MapToEnvelope(Export[3])>>
MCExisting  == {1}
MCRemovable == {<<0, 1>>}
=============================================================================
