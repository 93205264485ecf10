---------------------------- MODULE MCCameraRegistry ----------------------------
(* Bounded instances of CameraRegistry for TLC. *)
EXTENDS CameraRegistry, TLC

CONSTANTS c1, c2, left, right

(* A session that wants both cameras, and a window that wants one of them. *)
PairAndOne == (c1 :> {left, right}) @@ (c2 :> {left})

(* Two sessions that want any of the cameras. *)
AskForAll == [c \in Clients |-> Serials]
ClientSymmetry == Permutations(Clients)
=================================================================================
