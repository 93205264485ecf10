------------------------- MODULE MCHardwareInstances -------------------------
\* HardwareInstances for TLC: the instances are numbered, so nothing is symmetric.
EXTENDS HardwareInstances
=============================================================================
