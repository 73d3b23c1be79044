---------------------------- MODULE MCReviewThreads ----------------------------
EXTENDS ReviewThreads, TLC

Symmetry == Permutations(Handlers) \cup Permutations(Suggestions)

================================================================================
