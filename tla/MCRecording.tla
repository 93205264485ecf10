------------------------------- MODULE MCRecording -------------------------------
(* Small instances of Recording. *)
EXTENDS Recording, TLC
CONSTANTS r1, r2

Long == r1 :> 3
LongAndEmpty == r1 :> 3 @@ r2 :> 0
TwoAndEmpty == r1 :> 2 @@ r2 :> 0
=============================================================================
