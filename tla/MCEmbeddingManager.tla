-------------------------- MODULE MCEmbeddingManager --------------------------
EXTENDS EmbeddingManager, TLC

CONSTANTS c1, c2, e1, s1, p1, p2

Symmetry == Permutations(Caller) \cup Permutations(Proc)
================================================================================
