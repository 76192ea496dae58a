---------------------------- MODULE MCRootfsOpen ----------------------------
EXTENDS RootfsOpen
=============================================================================
