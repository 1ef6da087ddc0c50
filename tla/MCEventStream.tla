---------------------------- MODULE MCEventStream ----------------------------
EXTENDS EventStream
=============================================================================
