---------------------------- MODULE MCSekeveServer ----------------------------
\* SekeveServer on small instances.
EXTENDS SekeveServer, TLC

CONSTANTS
  MaxTime,     \* bound: the clock stops here
  MaxSerial    \* bound: PINs ever stored

Bounded == now' <= MaxTime /\ pinSerial' <= MaxSerial

MCSpec     == Init /\ [][Next /\ Bounded]_vars
MCFairSpec == MCSpec /\ Fairness

IdSymmetry ==
  Permutations(Nonces) \cup Permutations(Tickets) \cup Permutations(Tokens)
    \cup Permutations(Handlers) \cup Permutations(PINs)
=============================================================================
