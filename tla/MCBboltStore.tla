---------------------------- MODULE MCBboltStore ----------------------------
\* BboltStore with a bounded clock.
EXTENDS BboltStore, TLC

CONSTANT MaxTime

Bounded == now' <= MaxTime
MCSpec  == Init /\ [][Next /\ Bounded]_vars

StoreSymmetry ==
  Permutations(EntryIds) \cup Permutations(Clients) \cup Permutations(Types \ {Unspecified})
=============================================================================
