---------------------------- MODULE MCMirrorStreams ----------------------------
(* Small instances of MirrorStreams. *)
EXTENDS MirrorStreams, TLC
CONSTANTS j1, j2, n1
=============================================================================
