-------------------------- MODULE MCResourceSession --------------------------
(* Bounded instances of ResourceSession for TLC. *)
EXTENDS ResourceSession, TLC

(* Windows are interchangeable: no definition tells one from another. *)
WindowSymmetry == Permutations(Windows)
==============================================================================
