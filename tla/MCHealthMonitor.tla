--------------------------- MODULE MCHealthMonitor ---------------------------
EXTENDS HealthMonitor
=============================================================================
