----------------------------- MODULE MCSelection -----------------------------
(* One to three nuts of two classes around a target in the middle of the   *)
(* workspace, at its edge, and just below its ceiling.                     *)
EXTENDS Selection, TLC

CONSTANTS almond, cashew, peanut

ASSUME InstanceRounds == RoundingIsSmall

Order == { almond, cashew }

Workspace == [x |-> [min |-> 2000, max |-> 7000], y |-> [min |-> -3000, max |-> 3000],
              z |-> [min |-> 400, max |-> 800]]

OneAndAHalf == [num |-> 3, den |-> 2]

Zeros == [c \in Order |-> 0]
Defaults == [x |-> Zeros, y |-> Zeros, z |-> [Zeros EXCEPT ![cashew] = -10]]

File(data) == [kind |-> "yaml", data |-> data]
SomeFiles ==
  { << [kind |-> "absent"], [kind |-> "broken"], File([z |-> (almond :> -20 @@ cashew :> NotANumber)]) >>,
    << [kind |-> "broken"] >> }

Nut(c, x, y, z, size, conf, valid, yaw) ==
  [class_name |-> c, x |-> x, y |-> y, z |-> z, width |-> size, height |-> 2,
   short |-> 10 * size, long |-> 18 * size, confidence |-> conf, transform_valid |-> valid,
   yaw |-> yaw]

Yaws == { <<5, 0>>, <<3, 4>> }

Targets ==
  { Nut(almond, x, 0, z, 15, 90, TRUE, yaw) : x \in {2100, 4500}, z \in {500, 790}, yaw \in Yaws }

(* Where a neighbour lies, seen from the target.                           *)
Steps == { <<200, 0>>, <<0, -250>>, <<-210, 280>>, <<0, 0>>, <<450, 0>>, <<0, 250>> }

Kinds ==
  { [c |-> almond, size |-> 15, conf |-> 40, valid |-> TRUE],
    [c |-> cashew, size |-> 80, conf |-> 90, valid |-> TRUE],
    [c |-> peanut, size |-> 0, conf |-> 90, valid |-> TRUE],
    [c |-> almond, size |-> 20, conf |-> 39, valid |-> TRUE],
    [c |-> almond, size |-> 20, conf |-> 90, valid |-> FALSE] }

Others(t, kinds) ==
  { Nut(k.c, t.x + s[1], t.y + s[2], t.z, k.size, k.conf, k.valid, <<5, 0>>) :
      s \in Steps, k \in kinds }

Common == { k \in Kinds : k.size = 15 \/ ~k.valid }
Middle == { t \in Targets : t.x = 4500 /\ t.z = 500 }

(* Every distance from a nut that may be chosen is a whole number.         *)
Whole(scene) ==
  \A i \in { ChooseTarget(scene, c) : c \in Order } \ {0}, j \in DOMAIN scene :
    Distance(scene[i], scene[j]) * Distance(scene[i], scene[j]) = SquareDistance(scene[i], scene[j])

Low == Nut(almond, 4500, 100, 20, 20, 90, TRUE, <<5, 0>>)

Pairs == UNION { UNION { { << t, a >>, << a, t >> } : a \in Others(t, Kinds) } : t \in Targets }
Triples == UNION { { << a, t, b >> : a \in Others(t, Kinds), b \in Others(t, Common) } : t \in Middle }

SomeScenes == { << >>, << Low >> } \cup { scene \in Pairs \cup Triples : Whole(scene) }

(* Three nuts of ordinary size.                                            *)
NutScenes ==
  { scene \in Triples : Whole(scene) /\ \A i \in DOMAIN scene : scene[i].width = 15 }
=============================================================================
