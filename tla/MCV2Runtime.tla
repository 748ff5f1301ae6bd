----------------------------- MODULE MCV2Runtime -----------------------------
EXTENDS V2Runtime, TLC

\* Goroutines are interchangeable, and so are invocation ids.
Symmetry == Permutations(Callers) \cup Permutations(Writers) \cup Permutations(Invocations)
=============================================================================
