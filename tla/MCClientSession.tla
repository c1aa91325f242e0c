--------------------------- MODULE MCClientSession ---------------------------
\* ClientSession with a bounded clock and a bounded number of PIN changes.
EXTENDS ClientSession, TLC

CONSTANTS MaxTime, MaxSerial

Bounded == now' <= MaxTime /\ pinSerial' <= MaxSerial

MCSpec == ClientInit /\ [][ClientNext /\ Bounded]_allVars

IdSymmetry ==
  Permutations(Nonces) \cup Permutations(Tickets) \cup Permutations(Tokens)
    \cup Permutations(Handlers) \cup Permutations(PINs)
=============================================================================
