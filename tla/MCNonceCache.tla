---------------------------- MODULE MCNonceCache ----------------------------
EXTENDS NonceCache, TLC

\* Nonces are interchangeable: hash is chosen for all of them alike.
Symmetry == Permutations(Nonces)
=============================================================================
