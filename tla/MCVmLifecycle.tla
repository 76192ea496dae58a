--------------------------- MODULE MCVmLifecycle ---------------------------
EXTENDS VmLifecycle

\* Five units: on either side of both thresholds, and onto them.
MCChunks == {[idle |-> 5 - b, busy |-> b] : b \in {0, 1, 3, 4}}
=============================================================================
