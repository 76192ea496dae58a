----------------------------- MODULE MCVcpuLoop -----------------------------
EXTENDS VcpuLoop
=============================================================================
