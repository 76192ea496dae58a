---------------------------- MODULE MCSectorFile ----------------------------
EXTENDS SectorFile
=============================================================================
