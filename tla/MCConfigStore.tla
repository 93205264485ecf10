------------------------------ MODULE MCConfigStore ------------------------------
(* Small instances of ConfigStore. *)
EXTENDS ConfigStore, TLC
CONSTANTS a, b, w1, w2, p

OneEach == a :> w1 @@ b :> w2 @@ p :> p
WithProcess == a :> w1 @@ p :> p
Twice == a :> w1 @@ b :> w1 @@ p :> p
=============================================================================
