-------------------------- MODULE MCScalingMonitor --------------------------
EXTENDS ScalingMonitor
=============================================================================
