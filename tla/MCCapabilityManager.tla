------------------------ MODULE MCCapabilityManager ------------------------
EXTENDS CapabilityManager
=============================================================================
