------------------------------ MODULE Perception ------------------------------
(***************************************************************************)
(* perception_transform_node: one detect_once call against a camera whose  *)
(* frames arrive late, a robot that may move, and the fusion of the frames *)
(* it collects.  The subscriptions run on other threads of the executor    *)
(* than the handler, so a frame may arrive between any two of its steps.   *)
(*                                                                         *)
(* Time is counted in frame periods.  A frame on its way is as old as the  *)
(* ticks since its exposure, `after` when its stamp lies after the trigger *)
(* of the call in progress, and `fresh` while the scene in front of the    *)
(* camera is the one it was exposed to.                                    *)
(***************************************************************************)
EXTENDS Integers, SequencesExt, ConfigFiles

CONSTANTS
  Nuts,           (* the nuts in view                                      *)
  Class, Place,   (* their classes and places along a line of pixels       *)
  Jitter,         (* how far off a detection of each nut may be            *)
  Faint,          (* the nuts the network may miss in a frame              *)
  ThresholdFiles, Fallback_px,
  Num_capture_frames, Capture_timeout, Window,
  ColourLag,      (* the later exposures a colour frame may arrive after   *)
  DepthLag,       (* and a depth frame, unless the depth stream stalls     *)
  DepthMayStall,
  PixelRows,      (* the depths that may lie inside a box; 0 is a hole     *)
  Min_depth_camera, Max_depth_camera,
  CameraHeight, Depth_offset, Min_depth_base

ASSUME PerceptionAssumption ==
  /\ Num_capture_frames \in Nat \ {0} /\ Capture_timeout \in Nat \ {0}
  /\ {Window, ColourLag, DepthLag} \subseteq Nat /\ DepthMayStall \in BOOLEAN
  /\ {Min_depth_camera, Max_depth_camera} \subseteq Nat \ {0} /\ Min_depth_camera <= Max_depth_camera
  /\ Min_depth_base \in Nat /\ {CameraHeight, Depth_offset} \subseteq Int
  /\ PixelRows \subseteq Seq(Nat)

NoFrame == [none |-> TRUE, after |-> FALSE, fresh |-> FALSE]
Cached(f) == [none |-> FALSE, after |-> f.after, fresh |-> f.fresh]

VARIABLES
  colour_wire, depth_wire,      (* frames on their way                     *)
  latest_color, latest_depth,   (* the cached messages                     *)
  intrinsics,                   (* camera_info has come                    *)
  phase,       (* of the handler: idle, capture, depth, tcp, transform     *)
  waited,      (* ticks since the trigger                                  *)
  moved,       (* the scene changed since the trigger                      *)
  last_processed,               (* latest_color is the last one inferred *)
  collected,
  buffer,      (* _buffer of the aggregator: when, and what was detected   *)
  depth,       (* the depth frame taken                                    *)
  response     (* of the last call                                         *)

wires  == << colour_wire, depth_wire >>
caches == << latest_color, latest_depth, intrinsics >>
call   == << phase, waited, moved, last_processed, collected, buffer, depth, response >>
vars   == << wires, caches, call >>

NoResponse == [success |-> FALSE, objects |-> {}]

Init ==
  /\ colour_wire = << >> /\ depth_wire = << >>
  /\ latest_color = NoFrame /\ latest_depth = NoFrame /\ intrinsics = FALSE
  /\ phase = "idle" /\ waited = 0 /\ moved = FALSE
  /\ last_processed = FALSE /\ collected = 0 /\ buffer = << >>
  /\ depth = NoFrame /\ response = NoResponse

-----------------------------------------------------------------------------
(* DetectionAggregator.  A detection is [class, x].                        *)
Threshold(c) ==
  Table(ThresholdFiles, "per_class_distance_threshold_px", [n \in Range(Class) |-> Fallback_px])[c]

(* _prune, when an entry of age 0 is added: the old ones leave from the    *)
(* left.                                                                   *)
Prune(entries) ==
  SubSeq(entries, Min({ i \in DOMAIN entries : entries[i].age <= Window }), Len(entries))

Absolute(n) == IF n < 0 THEN -n ELSE n

(* The distance to the mean of a cluster, times its size.                  *)
Spread(d, cluster) ==
  Absolute(d.x * Len(cluster) - SumFunction([i \in DOMAIN cluster |-> cluster[i].x]))

JoinsAny(d, cluster) ==   (* mutant: the classes are not kept apart        *)
  Spread(d, cluster) <= Threshold(d.class) * Len(cluster)
Joins(d, cluster) ==
  d.class = cluster[1].class /\ Spread(d, cluster) <= Threshold(d.class) * Len(cluster)

(* fuse: each detection joins the first cluster that takes it, or opens one.*)
Place1(clusters, d) ==
  LET fits == { i \in DOMAIN clusters : Joins(d, clusters[i]) }
  IN  IF fits = {} THEN Append(clusters, << d >>)
      ELSE [clusters EXCEPT ![Min(fits)] = Append(@, d)]

(* The k-th value in ascending order, and the median, doubled.             *)
Below(xs, v) == Cardinality({ i \in DOMAIN xs : xs[i] < v })
Upto(xs, v) == Cardinality({ i \in DOMAIN xs : xs[i] <= v })

Nth(xs, k) == CHOOSE v \in Range(xs) : Below(xs, v) < k /\ k <= Upto(xs, v)

Median2(xs) ==
  LET n == Cardinality(DOMAIN xs)
  IN  Nth(xs, (n + 1) \div 2) + Nth(xs, n \div 2 + 1)

FuseOne(cluster) ==
  [class |-> cluster[1].class, x2 |-> Median2([i \in DOMAIN cluster |-> cluster[i].x])]

(* The clusters after i detections, as the only member of a set.           *)
ClustersOf(flat) ==
  LET upto[i \in 0 .. Len(flat)] ==
        IF i = 0 THEN { << >> } ELSE { Place1(before, flat[i]) : before \in upto[i - 1] }
  IN  upto[Len(flat)]

Fuse(entries) ==
  LET flat == FlattenSeq([i \in DOMAIN entries |-> entries[i].found])
  IN  UNION { { FuseOne(cluster) : cluster \in Range(clusters) } : clusters \in ClustersOf(flat) }

-----------------------------------------------------------------------------
(* median_inside_obb, of the pixels the inset box covers, doubled.         *)
InRangeAll(row) == row (* mutant: holes count as pixels                    *)
InRange(row) ==
  Restrict(row, { i \in DOMAIN row : Min_depth_camera <= row[i] /\ row[i] <= Max_depth_camera })

Measured(row) == DOMAIN InRange(row) # {}

(* The height over the table, doubled: corrected, and kept off the table.  *)
BaseZ2(row) ==
  LET z2 == 2 * CameraHeight - Median2(InRange(row)) + 2 * Depth_offset
  IN  IF z2 >= 2 * Min_depth_base THEN z2 ELSE 2 * Min_depth_base

Object(d, row) ==
  [class |-> d.class, x2 |-> d.x2, transform_valid |-> Measured(row),
   z2 |-> IF Measured(row) THEN BaseZ2(row) ELSE 0]

-----------------------------------------------------------------------------
(* The camera, the robot and the subscriptions.                            *)
Older(frames) == [i \in DOMAIN frames |-> [frames[i] EXCEPT !.age = @ + 1]]
NewFrame == [age |-> 0, after |-> phase = "capture", fresh |-> TRUE]

OnTime(wire, lag) == \A i \in DOMAIN wire : wire[i].age < lag

(* A frame period passes and the next pair of images is exposed.  Either   *)
(* may be dropped on the way, a depth image only when the stream stalls.   *)
Tick ==
  /\ OnTime(colour_wire, ColourLag) /\ OnTime(depth_wire, DepthLag)
  /\ colour_wire' \in { Older(colour_wire), Append(Older(colour_wire), NewFrame) }
  /\ depth_wire' \in { Append(Older(depth_wire), [NewFrame EXCEPT !.after = FALSE]) }
                     \cup IF DepthMayStall THEN { Older(depth_wire) } ELSE {}
  /\ IF phase = "capture" /\ waited <= Capture_timeout
     THEN waited' = waited + 1 /\ buffer' = Older(buffer)
     ELSE UNCHANGED << waited, buffer >>
  /\ UNCHANGED << caches, phase, moved, last_processed, collected, depth, response >>

(* The robot moves, or a nut is taken: what was exposed before is stale.   *)
Stale(frames) == [i \in DOMAIN frames |-> [frames[i] EXCEPT !.fresh = FALSE]]

SceneChanges ==
  /\ moved' = (moved \/ phase # "idle")
  /\ colour_wire' = Stale(colour_wire) /\ depth_wire' = Stale(depth_wire)
  /\ latest_color' = [latest_color EXCEPT !.fresh = FALSE]
  /\ latest_depth' = [latest_depth EXCEPT !.fresh = FALSE]
  /\ depth' = [depth EXCEPT !.fresh = FALSE]
  /\ buffer' = Stale(buffer)
  /\ UNCHANGED << intrinsics, phase, waited, last_processed, collected, response >>

OnColor ==
  /\ colour_wire # << >>
  /\ latest_color' = Cached(Head(colour_wire)) /\ colour_wire' = Tail(colour_wire)
  /\ last_processed' = FALSE
  /\ UNCHANGED << depth_wire, latest_depth, intrinsics,
                  phase, waited, moved, collected, buffer, depth, response >>

(* A depth message cv_bridge cannot convert is dropped, like a stall.      *)
OnDepth ==
  /\ depth_wire # << >>
  /\ latest_depth' \in { Cached(Head(depth_wire)) } \cup IF DepthMayStall THEN { latest_depth } ELSE {}
  /\ depth_wire' = Tail(depth_wire)
  /\ UNCHANGED << colour_wire, latest_color, intrinsics, call >>

OnCameraInfo ==
  /\ ~intrinsics /\ intrinsics' = TRUE
  /\ UNCHANGED << wires, latest_color, latest_depth, call >>

-----------------------------------------------------------------------------
(* _handle_detect_once.                                                    *)
Trigger ==
  /\ phase = "idle"
  /\ phase' = IF intrinsics THEN "capture" ELSE "refused"
  /\ waited' = 0 /\ moved' = FALSE /\ last_processed' = FALSE /\ collected' = 0
  /\ buffer' = << >> /\ depth' = NoFrame /\ response' = NoResponse
  /\ UNCHANGED << wires, caches >>

Fail ==
  /\ phase' = "idle" /\ response' = NoResponse
  /\ buffer' = << >> /\ depth' = NoFrame /\ last_processed' = FALSE /\ collected' = 0
  /\ waited' = 0

Refuse ==
  /\ phase = "refused"
  /\ Fail
  /\ UNCHANGED << wires, caches, moved >>

Capturing == phase = "capture" /\ collected < Num_capture_frames /\ waited < Capture_timeout

AfterTriggerAny(f) == ~f.none (* mutant: frames from before the trigger count *)
AfterTrigger(f) == ~f.none /\ f.after

(* What the network finds in one image: each nut, or not, and a bit off.   *)
Found ==
  { SetToSeq({ [class |-> Class[n], x |-> Place[n] + off[n]] : n \in seen }) :
      seen \in { Nuts \ missed : missed \in SUBSET Faint },
      off \in { f \in [Nuts -> UNION Range(Jitter)] : \A n \in Nuts : f[n] \in Jitter[n] } }

NewColor == AfterTrigger(latest_color) /\ ~last_processed

Infer ==
  /\ Capturing /\ NewColor
  /\ last_processed' = TRUE
  /\ collected' = collected + 1
  /\ \E found \in Found :
       buffer' = Prune(Append(buffer, [age |-> 0, fresh |-> latest_color.fresh, found |-> found]))
  /\ UNCHANGED << wires, caches, phase, waited, moved, depth, response >>

(* cv_bridge fails on the image: it is not tried again.                    *)
ColorUnreadable ==
  /\ Capturing /\ NewColor
  /\ last_processed' = TRUE
  /\ UNCHANGED << wires, caches, phase, waited, moved, collected, buffer, depth, response >>

(* Its variables end with it, and the trigger it compared stamps with.     *)
CaptureOver(enough) ==
  /\ phase = "capture" /\ enough
  /\ IF collected = 0 THEN Fail
     ELSE /\ phase' = "depth"
          /\ waited' = 0 /\ last_processed' = FALSE /\ collected' = 0
          /\ buffer' = [i \in DOMAIN buffer |-> [buffer[i] EXCEPT !.age = 0]]
          /\ UNCHANGED << depth, response >>
  /\ colour_wire' = [i \in DOMAIN colour_wire |-> [colour_wire[i] EXCEPT !.after = FALSE]]
  /\ latest_color' = [latest_color EXCEPT !.after = FALSE]
  /\ UNCHANGED << depth_wire, latest_depth, intrinsics, moved >>

CaptureEndsAtFirst ==     (* mutant: the first frame is enough             *)
  CaptureOver(collected > 0 \/ waited >= Capture_timeout)
CaptureEndsFull ==        (* mutant: the deadline is forgotten             *)
  CaptureOver(collected = Num_capture_frames)
CaptureEnds == CaptureOver(collected = Num_capture_frames \/ waited >= Capture_timeout)

TakeDepth ==
  /\ phase = "depth"
  /\ IF latest_depth.none THEN Fail /\ UNCHANGED moved
     ELSE /\ phase' = "tcp" /\ depth' = latest_depth
          /\ UNCHANGED << waited, moved, last_processed, collected, buffer, response >>
  /\ UNCHANGED << wires, caches >>

(* _current_tcp, through /robot/get_current_pose and the driver's service: *)
(* not ready, timed out, refused, or the pose.                             *)
PoseAnswers == {"pose", "none"}

AskPose(answer) ==
  /\ phase = "tcp"
  /\ IF answer = "none" THEN Fail /\ UNCHANGED moved
     ELSE /\ phase' = "transform"
          /\ UNCHANGED << waited, moved, last_processed, collected, buffer, depth, response >>
  /\ UNCHANGED << wires, caches >>

(* The transform, and the answer.                                          *)
Answer(row) ==
  /\ phase = "transform"
  /\ phase' = "answered"
  /\ response' = [success |-> TRUE, objects |-> { Object(d, row) : d \in Fuse(buffer) }]
  /\ UNCHANGED << wires, caches, waited, moved, last_processed, collected, buffer, depth >>

Return ==
  /\ phase = "answered"
  /\ phase' = "idle" /\ response' = NoResponse
  /\ buffer' = << >> /\ depth' = NoFrame /\ last_processed' = FALSE /\ collected' = 0
  /\ waited' = 0
  /\ UNCHANGED << wires, caches, moved >>

Handler ==
  \/ Refuse \/ Infer \/ ColorUnreadable \/ CaptureEnds \/ TakeDepth
  \/ \E answer \in PoseAnswers : AskPose(answer)
  \/ \E row \in PixelRows : Answer(row)
  \/ Return

Next == Tick \/ SceneChanges \/ OnColor \/ OnDepth \/ OnCameraInfo \/ Trigger \/ Handler

(* The camera keeps its pace, the executor delivers, and the handler runs. *)
Spec ==
  /\ Init /\ [][Next]_vars
  /\ WF_vars(Tick) /\ WF_vars(OnColor) /\ WF_vars(OnDepth) /\ WF_vars(Handler)

-----------------------------------------------------------------------------
(* "frames older than the trigger may be remains of the motion": if the    *)
(* scene does not change during the call, every fused frame shows the scene*)
(* the pose is asked for (_capture_and_infer, _current_tcp).               *)
ColourOfThisScene ==
  phase \in {"tcp", "transform", "answered"} /\ ~moved =>
    \A i \in DOMAIN buffer : buffer[i].fresh

(* "a depth frame of the same still period": with a depth stream that does *)
(* not stall, and a capture of at least DepthLag + 2 frame periods, the    *)
(* depth taken at its end shows the scene of the colour frames             *)
(* (_handle_detect_once).                                                  *)
DepthOfThisScene ==
  phase \in {"transform", "answered"} /\ ~moved => depth.fresh

(* No detection is off by more than half the threshold, and nuts of a class*)
(* are more than two thresholds apart.                                     *)
WellApart ==
  /\ IsFiniteSet(Nuts) /\ Class = [n \in Nuts |-> Class[n]] /\ Place \in [Nuts -> Int]
  /\ \A n \in Nuts :
       /\ Threshold(Class[n]) \in Int /\ Jitter[n] \subseteq Int
       /\ \A off \in Jitter[n] : 2 * Absolute(off) <= Threshold(Class[n])
  /\ \A m, n \in Nuts :
       m # n /\ Class[m] = Class[n] => Absolute(Place[m] - Place[n]) > 2 * Threshold(Class[n])

(* When the nuts are WellApart, every nut that some kept frame shows is one*)
(* object, at its place, and there are no others (fuse).                   *)
OneObjectPerNut ==
  phase = "answered" =>
    LET close(o, n) == o.class = Class[n]
                       /\ Absolute(o.x2 - 2 * Place[n]) <= Threshold(o.class)
        shown(n) == \E i \in DOMAIN buffer : \E k \in DOMAIN buffer[i].found :
                      LET d == buffer[i].found[k]
                      IN  d.class = Class[n] /\ 2 * Absolute(d.x - Place[n]) <= Threshold(d.class)
    IN  /\ \A n \in Nuts : Cardinality({ o \in response.objects : close(o, n) })
                             = IF shown(n) THEN 1 ELSE 0
        /\ \A o \in response.objects : \E n \in Nuts : close(o, n)

(* A hole in the depth image is never taken for a measurement: a valid     *)
(* object lies between the table and what the camera can measure           *)
(* (median_inside_obb, the clamp of _handle_detect_once).                  *)
HolesAreNotNuts ==
  \A o \in response.objects :
    o.transform_valid => /\ 2 * Min_depth_base <= o.z2
                         /\ o.z2 <= 2 * (CameraHeight - Min_depth_camera + Depth_offset)

(* Every call is answered, whatever frames or services stay away.          *)
Answers == (phase # "idle") ~> (phase = "idle")
=============================================================================
