---------------------------- MODULE MCEventHub ----------------------------
EXTENDS EventHub, TLC
=============================================================================
