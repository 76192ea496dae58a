---------------------------- MODULE MCVirtQueue ----------------------------
EXTENDS VirtQueue
=============================================================================
