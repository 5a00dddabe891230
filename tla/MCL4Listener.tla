---------------------------- MODULE MCL4Listener ----------------------------
EXTENDS L4Listener
=============================================================================
