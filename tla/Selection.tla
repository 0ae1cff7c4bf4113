------------------------------ MODULE Selection ------------------------------
(***************************************************************************)
(* What task_manager_node makes of one detection: the nut to pick          *)
(* (target_selector), the push that frees it from its neighbour            *)
(* (cluster_policy), the counts of a verification, and the goal it sends.  *)
(*                                                                         *)
(* Lengths are whole tenths of a millimetre and confidences per cent.  A   *)
(* yaw is the pair of its cosine and sine in fifths; the scenes keep every *)
(* distance from the target whole, so that all of the geometry is exact.   *)
(***************************************************************************)
EXTENDS Integers, FiniteSets, ConfigFiles

CONSTANTS
  Priority,      (* class_priority, as a set                               *)
  Scenes,        (* the detections one detect_once may return              *)
  OffsetFiles,   (* what the candidates for pick_offsets.yaml may hold     *)
  DefaultOffsets,(* DEFAULT_OFFSETS_MM                                     *)
  Box,           (* workspace_*_mm, [x, y, z |-> [min, max]]               *)
  Conf_gate, Min_depth,
  Cluster_dist_threshold, Candidate_offset, Push_z_offset,
  Push_scale,    (* [num, den]                                             *)
  Pre_grasp_margin, Pre_grasp_min, Pre_grasp_max

IsDetection(d) ==
  /\ {d.x, d.y, d.z, d.width, d.height, d.short, d.long, d.confidence} \subseteq Int
  /\ {d.yaw[1], d.yaw[2]} \subseteq Int /\ d.transform_valid \in BOOLEAN

ASSUME SelectionAssumption ==
  /\ {Conf_gate, Min_depth, Pre_grasp_min, Pre_grasp_max} \subseteq Nat /\ Pre_grasp_margin \in Int
  /\ {Candidate_offset, Push_scale.num, Push_scale.den} \subseteq Nat \ {0}
  /\ {Box.x.min, Box.x.max, Box.y.min, Box.y.max} \subseteq Int
  /\ \A scene \in Scenes :
       /\ Len(scene) \in Nat /\ DOMAIN scene = 1 .. Len(scene)
       /\ \A i \in DOMAIN scene : IsDetection(scene[i])

VARIABLES
  files, objects, target_class,
  pushes_left,   (* _cluster_push_counts is below its cap                  *)
  counts,        (* _count_detected_objects                                *)
  goal           (* the goal of this iteration                             *)

selection_vars == << files, objects, target_class, pushes_left, counts, goal >>

-----------------------------------------------------------------------------
(* WorkspaceBox.contains.                                                  *)
Within(v, range) == range.min <= v /\ v <= range.max
Contains(x, y, z) == Within(x, Box.x) /\ Within(y, Box.y) /\ Within(z, Box.z)

Passes(d) ==
  /\ d.transform_valid /\ d.confidence >= Conf_gate
  /\ d.z > Min_depth /\ Contains(d.x, d.y, d.z)

(* choose_target: the largest, then the most confident; sort is stable, so *)
(* the first of equals.  The result is an index, 0 for None.               *)
Area(d) == d.width * d.height

Better(scene, i, j) ==
  LET a == scene[i] b == scene[j]
  IN  \/ Area(a) > Area(b)
      \/ Area(a) = Area(b) /\ a.confidence > b.confidence
      \/ Area(a) = Area(b) /\ a.confidence = b.confidence /\ i <= j

ChooseTarget(scene, cls) ==
  LET candidates == { i \in DOMAIN scene : scene[i].class_name = cls /\ Passes(scene[i]) }
  IN  IF candidates = {} THEN 0
      ELSE CHOOSE i \in candidates : \A j \in candidates : Better(scene, i, j)

(* _count_detected_objects spells the same gates out once more.            *)
CountsWeak(scene) ==   (* mutant: the depth and workspace gates are missing *)
  [c \in Priority |-> Cardinality({ i \in DOMAIN scene :
     scene[i].class_name = c /\ scene[i].transform_valid /\ scene[i].confidence >= Conf_gate })]

CountDetected(scene) ==
  [c \in Priority |->
     Cardinality({ i \in DOMAIN scene :
       /\ scene[i].class_name = c
       /\ ~ (scene[i].confidence < Conf_gate) /\ scene[i].transform_valid
       /\ ~ (scene[i].z <= Min_depth)
       /\ Contains(scene[i].x, scene[i].y, scene[i].z) })]

-----------------------------------------------------------------------------
(* cluster_policy.                                                         *)
FilterAll(scene, t) == DOMAIN scene \ {t} (* mutant *)
FilterValid(scene, t) == { i \in DOMAIN scene \ {t} : Passes(scene[i]) }

Greater(a, b) == IF a >= b THEN a ELSE b
Absolute(n) == IF n < 0 THEN -n ELSE n

SquareDistance(a, b) == (a.x - b.x) * (a.x - b.x) + (a.y - b.y) * (a.y - b.y)

(* hypot, rounded down: between the larger side and the sum of both.       *)
Distance(a, b) ==
  LET dx == Absolute(a.x - b.x) dy == Absolute(a.y - b.y) sq == SquareDistance(a, b)
  IN  CHOOSE r \in Greater(dx, dy) .. dx + dy : r * r <= sq /\ (r + 1) * (r + 1) > sq

(* _closest_neighbor: a strict comparison keeps the first of equals.       *)
ClosestNeighbor(scene, valid, t) ==
  CHOOSE i \in valid : \A j \in valid :
    LET di == SquareDistance(scene[i], scene[t]) dj == SquareDistance(scene[j], scene[t])
    IN  di < dj \/ (di = dj /\ i <= j)

ShortAxis(d) == Greater(10, d.short)
LongAxis(d) == Greater(ShortAxis(d), d.long)

(* _projected_half_extent, times ten: along (dx, dy), not normalised.      *)
HalfExtent10(d, dx, dy) ==
  Absolute(LongAxis(d) * (d.yaw[1] * dx + d.yaw[2] * dy))
  + Absolute(ShortAxis(d) * (d.yaw[1] * dy - d.yaw[2] * dx))

(* gap >= threshold, with both sides times ten and the distance.           *)
Apart(t, n) ==
  LET dx == n.x - t.x dy == n.y - t.y dist == Distance(t, n)
  IN  10 * dist * dist - HalfExtent10(t, dx, dy) - HalfExtent10(n, dx, dy)
        >= 10 * dist * Cluster_dist_threshold

InOrientedBox(p, d) ==
  LET dx == p.x - d.x dy == p.y - d.y
  IN  /\ 2 * Absolute(d.yaw[1] * dx + d.yaw[2] * dy) <= 5 * LongAxis(d)
      /\ 2 * Absolute(d.yaw[1] * dy - d.yaw[2] * dx) <= 5 * ShortAxis(d)

HitsOtherBox(scene, valid, p) == \E i \in valid : InOrientedBox(p, scene[i])

(* cand_a and cand_b: beside the target, across the line to the neighbour. *)
CandidateAlong(t, n, side) ==   (* mutant: on the line instead of across it *)
  [x |-> t.x + side * (((n.x - t.x) * Candidate_offset) \div Distance(t, n)),
   y |-> t.y + side * (((n.y - t.y) * Candidate_offset) \div Distance(t, n))]

Candidate(t, n, side) ==
  [x |-> t.x + side * (((t.y - n.y) * Candidate_offset) \div Distance(t, n)),
   y |-> t.y + side * (((n.x - t.x) * Candidate_offset) \div Distance(t, n))]

SelectCandidate(a, b, blocked_a, blocked_b) ==
  CASE ~blocked_a /\ blocked_b   -> {a}
    [] blocked_a /\ ~blocked_b   -> {b}
    [] ~blocked_a /\ ~blocked_b  -> {IF a.y >= b.y THEN a ELSE b}
    [] OTHER                     -> {}

PushEnd(t, entry) ==
  [x |-> t.x - ((Push_scale.num * (entry.x - t.x)) \div Push_scale.den),
   y |-> t.y - ((Push_scale.num * (entry.y - t.y)) \div Push_scale.den)]

(* choose_cluster_plan: the set of plans, empty for None.                  *)
ClusterPlans(scene, i, z_offset) ==
  LET t == scene[i]
      valid == FilterValid(scene, i)
      n == scene[ClosestNeighbor(scene, valid, i)]
      a == Candidate(t, n, 1)
      b == Candidate(t, n, -1)
      z == t.z + z_offset
  IN  IF valid = {} \/ Distance(t, n) = 0 \/ Apart(t, n) THEN {}
      ELSE { [entry |-> e, end |-> PushEnd(t, e), z |-> z, neighbor |-> n] :
               e \in { p \in SelectCandidate(a, b, HitsOtherBox(scene, valid, a),
                                                   HitsOtherBox(scene, valid, b)) :
                         /\ Contains(p.x, p.y, z)
                         /\ Contains(PushEnd(t, p).x, PushEnd(t, p).y, z) } }

-----------------------------------------------------------------------------
(* load_pick_offsets; a class no table knows gets 0.                       *)
Offsets(axis) == Table(files, axis, DefaultOffsets[axis])
Offset(axis, c) == IF c \in DOMAIN Offsets(axis) THEN Offsets(axis)[c] ELSE 0

(* The width of _send_pick_goal, 0 when there is no pre-position.          *)
WidthUnclamped(d) == d.short + Pre_grasp_margin (* mutant *)
PreGraspWidth(d) ==
  LET opening == d.short + Pre_grasp_margin
  IN  IF d.short > 0 /\ Pre_grasp_margin >= 0
        THEN Greater(Pre_grasp_min, IF opening <= Pre_grasp_max THEN opening ELSE Pre_grasp_max)
        ELSE 0

SelectionInit ==
  /\ files \in OffsetFiles /\ objects \in Scenes /\ target_class \in Priority
  /\ pushes_left \in BOOLEAN
  /\ counts = [c \in Priority |-> 0]
  /\ goal = [kind |-> "none"]

(* _detect_counts_from_home, on the same scene.                            *)
Count ==
  /\ counts' = CountDetected(objects)
  /\ UNCHANGED << files, objects, target_class, pushes_left, goal >>

Candidates == ChooseTarget(objects, target_class)

PushPlans ==
  IF Candidates # 0 /\ pushes_left
    THEN ClusterPlans(objects, Candidates, Offset("z", target_class) + Push_z_offset)
    ELSE {}

Miss ==
  /\ goal.kind = "none" /\ Candidates = 0
  /\ goal' = [kind |-> "miss"]
  /\ UNCHANGED << files, objects, target_class, pushes_left, counts >>

(* _send_cluster_push_goal: closed fingers, from the entry to the end.     *)
SendPush ==
  /\ goal.kind = "none"
  /\ \E plan \in PushPlans :
       goal' = [kind |-> "push", target |-> Candidates, plan |-> plan, width |-> 0]
  /\ UNCHANGED << files, objects, target_class, pushes_left, counts >>

(* _send_pick_goal.                                                        *)
SendPick ==
  /\ goal.kind = "none" /\ Candidates # 0 /\ PushPlans = {}
  /\ LET d == objects[Candidates]
     IN goal' = [kind |-> "pick", target |-> Candidates, width |-> PreGraspWidth(d),
                 x |-> d.x + Offset("x", target_class), y |-> d.y + Offset("y", target_class),
                 z |-> d.z + Offset("z", target_class)]
  /\ UNCHANGED << files, objects, target_class, pushes_left, counts >>

SelectionNext == Count \/ Miss \/ SendPush \/ SendPick

SelectionSpec == SelectionInit /\ [][SelectionNext]_selection_vars

-----------------------------------------------------------------------------
(* "the verification numbers agree with the nuts that can be picked": the  *)
(* worker meets a miss exactly when the count of the class is zero         *)
(* (_count_detected_objects and choose_target state the gates twice).      *)
PickableIffCounted ==
  (CountDetected(objects)[target_class] = 0) <=> (ChooseTarget(objects, target_class) = 0)

(* "invalid detections must not affect the push": whichever detections the *)
(* gates reject are left out, the nut that is chosen and the plan are the  *)
(* same (_filter_valid, choose_target).                                    *)
RejectsDoNotMatter ==
  \A dropped \in SUBSET { i \in DOMAIN objects : ~Passes(objects[i]) } :
    LET rest == [i \in DOMAIN objects \ dropped |-> objects[i]]
        t == ChooseTarget(objects, target_class)
    IN  /\ ChooseTarget(rest, target_class) = t
        /\ t # 0 => ClusterPlans(rest, t, Push_z_offset) = ClusterPlans(objects, t, Push_z_offset)

(* Rounding to tenths of a millimetre turns a push by less than its length *)
(* makes up for: reach is that length in steps of 1 / den, as little as it *)
(* can be, and span what a push goes past at most.                         *)
RoundingIsSmall ==
  LET reach == Push_scale.num * (Candidate_offset - 2) - 2 * Push_scale.den
      span == (Box.x.max - Box.x.min) + (Box.y.max - Box.y.min)
  IN  reach > 0 /\ reach * reach > 4 * Push_scale.den * (Push_scale.den + Push_scale.num) * span

(* A push enters clear of every nut that counts, stays inside the          *)
(* workspace, and leaves the target farther from its neighbour             *)
(* (choose_cluster_plan).                                                  *)
PushFrees ==
  goal.kind = "push" =>
    LET p == goal.plan t == objects[goal.target]
    IN  /\ \A i \in DOMAIN objects \ {goal.target} :
             Passes(objects[i]) => ~InOrientedBox(p.entry, objects[i])
        /\ Contains(p.entry.x, p.entry.y, p.z) /\ Contains(p.end.x, p.end.y, p.z)
        /\ SquareDistance(p.end, p.neighbor) > SquareDistance(t, p.neighbor)

(* A pick is for a nut of the wanted class, and the fingers open wider     *)
(* than it as far as the gripper goes, or are not pre-positioned at all    *)
(* (_send_pick_goal).                                                      *)
GraspFits ==
  goal.kind = "pick" =>
    LET d == objects[goal.target]
    IN  /\ d.class_name = target_class /\ Passes(d)
        /\ goal.width = 0 \/ (Pre_grasp_min <= goal.width /\ goal.width <= Pre_grasp_max
                              /\ (goal.width > d.short \/ goal.width = Pre_grasp_max))
=============================================================================
