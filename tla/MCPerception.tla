----------------------------- MODULE MCPerception -----------------------------
(* Two almonds two thresholds and a half apart, and a cashew close to one. *)
EXTENDS Perception, TLC

CONSTANTS a1, a2, c1

ASSUME InstanceIsApart == WellApart

ThreeNuts == {a1, a2, c1}
Classes3 == (a1 :> "almond" @@ a2 :> "almond" @@ c1 :> "cashew")
Places == (a1 :> 0 @@ a2 :> 50 @@ c1 :> 10)
Jitters == (a1 :> {-10, 10} @@ a2 :> {0} @@ c1 :> {0})

Files == << [kind |-> "absent"],
            [kind |-> "yaml",
             data |-> [per_class_distance_threshold_px |-> [almond |-> 20, cashew |-> NotANumber]]] >>

(* Pixels of a box: mostly holes, none measured, all measured, and one so  *)
(* deep that it comes out below the table.                                 *)
MinusFive == -5
Rows == { << 0, 0, 301 >>, << 0, 2000 >>, << 300, 302, 420 >>, << 420 >> }
=============================================================================
