----------------------------- MODULE MCEventOutbox -----------------------------
EXTENDS EventOutbox, TLC

Symmetry == Permutations(Events) \cup Permutations(Consumers)

================================================================================
