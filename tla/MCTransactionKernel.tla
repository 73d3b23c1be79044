-------------------------- MODULE MCTransactionKernel --------------------------
EXTENDS KernelRefinement, TLC

VARIABLE span   \* what a behaviour looks at: a "short" or a "long" history

Symmetry == Permutations(Handlers) \cup Permutations(Edits) \cup Permutations(Undos)

Busy  == {h \in Handlers : pc[h] # "idle"}
Known == {t \in TxIds : Committed(t)} \cup {req[h].tx : h \in Busy}

\* A short history ends at version 4 and knows one undo; all its requests race.
ShortStep ==
    /\ Next
    /\ \A v \in Versions : v > 4 => blobs'[v] = NoBlob
    /\ Cardinality((Known \cap Undos)') <= 1

\* A long one goes up to the largest version with one request at a time.
LongStep ==
    \/ \E h \in Handlers : Busy \subseteq {h} /\ Step(h)
    \/ Restart
    \/ RestartWithBlobGc

MCInit == Init /\ span \in {"short", "long"}

MCNext ==
    /\ UNCHANGED span
    /\ \/ span = "short" /\ ShortStep
       \/ span = "long" /\ LongStep

MCSpec == MCInit /\ [][MCNext]_<<vars, span>>

================================================================================
