------------------------------ MODULE MCSessionWire ------------------------------
(* Small instances of SessionWire. *)
EXTENDS SessionWire, TLC
CONSTANTS v1, v2, v3, w1, w2

OneEach == v1 :> w1 @@ v2 :> w2
TwoInOne == v1 :> w1 @@ v2 :> w1
TwoAndOne == v1 :> w1 @@ v2 :> w1 @@ v3 :> w2
=============================================================================
