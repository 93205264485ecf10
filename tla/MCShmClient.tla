------------------------------ MODULE MCShmClient ------------------------------
(* Small instances of ShmClient. *)
EXTENDS ShmClient, TLC
CONSTANTS p1, p2, f1, g1, g2, b1, b2, b3, b4

OnePipeSegment == p1 :> g1
SharedSegment == p1 :> g1 @@ p2 :> g1
PipeAndRefSize == p1 :> 1 @@ f1 :> 1
TwoPipesSize == p1 :> 1 @@ p2 :> 1
OneSize == p1 :> 1
OwnSizes == p1 :> 1 @@ f1 :> 2

BufferSymmetry == Permutations(Buffers)
=============================================================================
