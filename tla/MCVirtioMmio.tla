---------------------------- MODULE MCVirtioMmio ----------------------------
EXTENDS VirtioMmio, TLC

\* Queues and plans are interchangeable, and no property names one.
Symmetry == Permutations(Queues) \cup Permutations(Plans)
=============================================================================
