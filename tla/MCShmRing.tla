------------------------------ MODULE MCShmRing ------------------------------
\* ShmRing for TLC.
EXTENDS ShmRing

=============================================================================
