---------------------------- MODULE MCTokenBucket ----------------------------
EXTENDS TokenBucket, TLC

\* The callers are interchangeable, and no checked property names one.
CallerSymmetry == Permutations(Callers)
=============================================================================
