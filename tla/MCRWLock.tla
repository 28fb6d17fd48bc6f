------------------------------- MODULE MCRWLock -------------------------------
EXTENDS RWLock, TLC

\* Writers that never claim priority, at once, and after one reader.
AnyPriority == {-1, 0, 1}

\* Threads of one kind are interchangeable.
ThreadSymmetry == Permutations(Readers) \cup Permutations(Writers)
=============================================================================
