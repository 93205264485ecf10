---------------------------- MODULE MCFrameCapture ----------------------------
(* Small instances of FrameCapture. *)
EXTENDS FrameCapture, TLC
CONSTANTS s1, s2, L, R

TwoStreams == <<s1, s2>>
BothCameras == s1 :> {L, R} @@ s2 :> {L, R}
OneCamera == s1 :> {L} @@ s2 :> {L}
MixedCameras == s1 :> {L, R} @@ s2 :> {L}
=============================================================================
