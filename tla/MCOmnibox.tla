----------------------------- MODULE MCOmnibox ------------------------------
\* Omnibox for TLC: two logins around a note, and goroutines without a name. The
\* words "ab" and "b" match every name; "ab" is one of them, and the best match.
EXTENDS Omnibox
CONSTANT note
MCTypeOf  == <<Login, note, Login>>
MCNameOf  == << <<"a", "a", "b">>, <<"a", "-", "b">>, <<"a", "b">> >>
MCQueries == {<<>>, << <<"a", "b">>, <<>>, <<"b">> >>}

\* One login and the note are stored at first, so that a list of two is there to filter.
MCInit == Init /\ vault = {1, 2}
MCSpec == MCInit /\ [][Next]_vars
=============================================================================
