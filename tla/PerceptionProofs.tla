--------------------------- MODULE PerceptionProofs ---------------------------
(***************************************************************************)
(* What one detect_once call answers, whenever frames arrive, the scene    *)
(* changes or a service fails, for any pace of the camera.                 *)
(***************************************************************************)
EXTENDS Perception, FiniteSetTheorems, WellFoundedInduction, TLAPS

Frames  == [ age : Nat, after : BOOLEAN, fresh : BOOLEAN ]
Images  == [ none : BOOLEAN, after : BOOLEAN, fresh : BOOLEAN ]
Entries == [ age : Nat, fresh : BOOLEAN, found : Found ]
Phases  == { "idle", "refused", "capture", "depth", "tcp", "transform", "answered" }

Type ==
  /\ colour_wire \in Seq(Frames) /\ depth_wire \in Seq(Frames)
  /\ latest_color \in Images /\ latest_depth \in Images /\ intrinsics \in BOOLEAN
  /\ phase \in Phases /\ waited \in 0 .. Capture_timeout + 1
  /\ moved \in BOOLEAN /\ last_processed \in BOOLEAN /\ collected \in 0 .. Num_capture_frames
  /\ buffer \in Seq(Entries) /\ depth \in Images

(* What is stamped after the trigger was exposed during the call, and shows*)
(* its scene as long as that does not change.                              *)
Stamps ==
  /\ phase # "capture" =>
       ~latest_color.after /\ \A i \in DOMAIN colour_wire : ~colour_wire[i].after
  /\ phase = "capture" /\ ~moved =>
       /\ latest_color.after => latest_color.fresh
       /\ \A i \in DOMAIN colour_wire : colour_wire[i].after => colour_wire[i].fresh
  /\ phase # "idle" /\ ~moved => \A i \in DOMAIN buffer : buffer[i].fresh

ColourInv == Type /\ Stamps

(* The frames on a wire are in the order of their exposure.                *)
InOrder(wire) == \A i, j \in DOMAIN wire : i < j => wire[i].age > wire[j].age

(* A frame of age a was exposed at tick waited - a of the capture.  Every  *)
(* frame that was or may be inferred is another tick's.                    *)
Pending == IF NewColor THEN 1 ELSE 0

Paced ==
  phase = "capture" /\ waited <= Capture_timeout =>
    /\ collected + Pending <= waited
    /\ \A i \in DOMAIN colour_wire : colour_wire[i].after =>
         collected + Pending < waited - colour_wire[i].age

(* If an older depth image shows the scene, a younger one does.            *)
FreshInOrder ==
  /\ \A i, j \in DOMAIN depth_wire : i < j /\ depth_wire[i].fresh => depth_wire[j].fresh
  /\ latest_depth.fresh => ~latest_depth.none /\ \A i \in DOMAIN depth_wire : depth_wire[i].fresh

(* The first image exposed during the call is on its way, or has arrived.  *)
FirstDepth ==
  phase = "capture" /\ ~moved =>
    /\ \A i \in DOMAIN depth_wire : depth_wire[i].age < waited => depth_wire[i].fresh
    /\ \/ waited = 0
       \/ latest_depth.fresh
       \/ waited <= DepthLag + 1 /\ \E i \in DOMAIN depth_wire : depth_wire[i].age = waited - 1

(* No frame is late.                                                       *)
OnWire == \A i \in DOMAIN depth_wire : depth_wire[i].age <= DepthLag

DepthTaken ==
  /\ phase = "depth" /\ ~moved => latest_depth.fresh
  /\ phase \in {"tcp", "transform", "answered"} /\ ~moved => depth.fresh

DepthInv ==
  /\ ColourInv /\ InOrder(colour_wire) /\ Paced
  /\ OnWire /\ FreshInOrder /\ FirstDepth /\ DepthTaken

-----------------------------------------------------------------------------
(* Sequences of frames.                                                    *)

LEMMA Mapped ==
  ASSUME NEW S, NEW T, NEW s \in Seq(S), NEW t,
         t = [i \in DOMAIN s |-> t[i]], \A i \in DOMAIN s : t[i] \in T
  PROVE  t \in Seq(T) /\ DOMAIN t = DOMAIN s /\ Len(t) = Len(s)
<1>1. DOMAIN s = 1 .. Len(s) /\ Len(s) \in Nat
  OBVIOUS
<1>2. t \in [1 .. Len(s) -> T]
  BY <1>1
<1> QED BY <1>1, <1>2

LEMMA AgedFrame ==
  ASSUME NEW f \in Frames, NEW g, g = [f EXCEPT !.age = @ + 1]
  PROVE  g \in Frames /\ g.age = f.age + 1 /\ g.after = f.after /\ g.fresh = f.fresh
BY DEF Frames

LEMMA AgedEntry ==
  ASSUME NEW f \in Entries, NEW g, g = [f EXCEPT !.age = @ + 1]
  PROVE  g \in Entries /\ g.fresh = f.fresh
BY DEF Entries

LEMMA OlderFrames ==
  ASSUME NEW w \in Seq(Frames)
  PROVE  /\ Older(w) \in Seq(Frames) /\ DOMAIN Older(w) = DOMAIN w /\ Len(Older(w)) = Len(w)
         /\ \A i \in DOMAIN w : Older(w)[i].age = w[i].age + 1 /\ Older(w)[i].after = w[i].after
                                /\ Older(w)[i].fresh = w[i].fresh
<1>1. \A i \in DOMAIN w : w[i] \in Frames
  OBVIOUS
<1>2. \A i \in DOMAIN w : Older(w)[i] = [w[i] EXCEPT !.age = @ + 1]
  BY DEF Older
<1>3. \A i \in DOMAIN w :
        /\ Older(w)[i] \in Frames
        /\ Older(w)[i].age = w[i].age + 1 /\ Older(w)[i].after = w[i].after
        /\ Older(w)[i].fresh = w[i].fresh
  BY <1>1, <1>2, AgedFrame
<1>4. Older(w) = [i \in DOMAIN w |-> Older(w)[i]]
  BY DEF Older
<1> QED BY <1>3, <1>4, Mapped

LEMMA OlderEntries ==
  ASSUME NEW b \in Seq(Entries)
  PROVE  /\ Older(b) \in Seq(Entries) /\ DOMAIN Older(b) = DOMAIN b
         /\ \A i \in DOMAIN b : Older(b)[i].fresh = b[i].fresh
<1>1. \A i \in DOMAIN b : b[i] \in Entries
  OBVIOUS
<1>2. \A i \in DOMAIN b : Older(b)[i] = [b[i] EXCEPT !.age = @ + 1]
  BY DEF Older
<1>3. \A i \in DOMAIN b : Older(b)[i] \in Entries /\ Older(b)[i].fresh = b[i].fresh
  BY <1>1, <1>2, AgedEntry
<1>4. Older(b) = [i \in DOMAIN b |-> Older(b)[i]]
  BY DEF Older
<1> QED BY <1>3, <1>4, Mapped

LEMMA StaleFrames ==
  ASSUME NEW w \in Seq(Frames)
  PROVE  /\ Stale(w) \in Seq(Frames) /\ DOMAIN Stale(w) = DOMAIN w
         /\ \A i \in DOMAIN w : Stale(w)[i].age = w[i].age /\ Stale(w)[i].after = w[i].after
                                /\ ~Stale(w)[i].fresh
<1>1. \A i \in DOMAIN w : w[i] \in Frames
  OBVIOUS
<1>2. \A i \in DOMAIN w : Stale(w)[i] = [w[i] EXCEPT !.fresh = FALSE]
  BY DEF Stale
<1>3. \A i \in DOMAIN w :
        /\ Stale(w)[i] \in Frames
        /\ Stale(w)[i].age = w[i].age /\ Stale(w)[i].after = w[i].after /\ ~Stale(w)[i].fresh
  BY <1>1, <1>2 DEF Frames
<1>4. Stale(w) = [i \in DOMAIN w |-> Stale(w)[i]]
  BY DEF Stale
<1> QED BY <1>3, <1>4, Mapped

LEMMA StaleEntries ==
  ASSUME NEW b \in Seq(Entries)
  PROVE  Stale(b) \in Seq(Entries)
<1>1. \A i \in DOMAIN b : b[i] \in Entries
  OBVIOUS
<1>2. \A i \in DOMAIN b : Stale(b)[i] = [b[i] EXCEPT !.fresh = FALSE]
  BY DEF Stale
<1>3. \A i \in DOMAIN b : Stale(b)[i] \in Entries
  BY <1>1, <1>2 DEF Entries
<1>4. Stale(b) = [i \in DOMAIN b |-> Stale(b)[i]]
  BY DEF Stale
<1> QED BY <1>3, <1>4, Mapped

LEMMA Appended ==
  ASSUME NEW S, NEW s \in Seq(S), NEW e \in S
  PROVE  /\ Append(s, e) \in Seq(S) /\ DOMAIN Append(s, e) = DOMAIN s \cup {Len(s) + 1}
         /\ Append(s, e)[Len(s) + 1] = e
         /\ \A i \in DOMAIN s : Append(s, e)[i] = s[i] /\ i < Len(s) + 1 /\ i \in Nat
OBVIOUS

LEMMA Tailed ==
  ASSUME NEW S, NEW s \in Seq(S), s # << >>
  PROVE  /\ Tail(s) \in Seq(S) /\ Head(s) = s[1] /\ Head(s) \in S /\ 1 \in DOMAIN s
         /\ \A i \in DOMAIN s : i \in Nat /\ (i = 1 \/ (i - 1 \in DOMAIN Tail(s) /\ 1 < i /\ Tail(s)[i - 1] = s[i]))
         /\ \A i \in DOMAIN Tail(s) : i \in Nat /\ i + 1 \in DOMAIN s /\ 1 < i + 1 /\ Tail(s)[i] = s[i + 1]
OBVIOUS

LEMMA Least ==
  ASSUME NEW T \in SUBSET Nat, T # {}
  PROVE  \E x \in T : \A y \in T : x <= y
<1>1. PICK x \in T : \A y \in T : << y, x >> \notin OpToRel(<, Nat)
  BY WFMin, NatLessThanWellFounded, Zenon
<1>2. \A y \in T : ~ (y < x)
  BY <1>1, Zenon DEF OpToRel
<1> QED BY <1>2

(* What is kept of the buffer was in it.                                   *)
LEMMA PruneKeeps ==
  ASSUME NEW s \in Seq(Entries), NEW k \in DOMAIN s, s[k].age = 0
  PROVE  /\ Prune(s) \in Seq(Entries)
         /\ \A i \in DOMAIN Prune(s) : \E j \in DOMAIN s : Prune(s)[i] = s[j]
<1> DEFINE kept == { i \in DOMAIN s : s[i].age <= Window }
           m == Min(kept)
<1>1. kept \in SUBSET Nat /\ kept # {}
  <2>1. k \in kept
    BY PerceptionAssumption
  <2> QED BY <2>1
<1>2. m \in kept
  <2>1. \E x \in kept : \A y \in kept : x <= y
    BY <1>1, Least
  <2> QED BY <2>1 DEF Min
<1>3. m \in 1 .. Len(s)
  BY <1>2
<1>4. Prune(s) = SubSeq(s, m, Len(s))
  BY DEF Prune
<1> HIDE DEF m
<1>5. SubSeq(s, m, Len(s)) \in Seq(Entries)
  BY <1>3
<1>6. \A i \in DOMAIN SubSeq(s, m, Len(s)) :
        m + i - 1 \in DOMAIN s /\ SubSeq(s, m, Len(s))[i] = s[m + i - 1]
  BY <1>3
<1> QED BY <1>4, <1>5, <1>6

Unstamped(w) == [i \in DOMAIN w |-> [w[i] EXCEPT !.after = FALSE]]
Ageless(b) == [i \in DOMAIN b |-> [b[i] EXCEPT !.age = 0]]

LEMMA WithoutStamps ==
  ASSUME NEW w \in Seq(Frames)
  PROVE  /\ Unstamped(w) \in Seq(Frames) /\ DOMAIN Unstamped(w) = DOMAIN w
         /\ \A i \in DOMAIN w : Unstamped(w)[i].age = w[i].age /\ ~Unstamped(w)[i].after
<1> DEFINE t == Unstamped(w)
<1>1. \A i \in DOMAIN w : w[i] \in Frames /\ t[i] = [w[i] EXCEPT !.after = FALSE]
  BY DEF Unstamped
<1>2. \A f \in Frames : /\ [f EXCEPT !.after = FALSE] \in Frames
                        /\ [f EXCEPT !.after = FALSE].age = f.age /\ ~[f EXCEPT !.after = FALSE].after
  BY DEF Frames
<1>3. \A i \in DOMAIN w : t[i] \in Frames /\ t[i].age = w[i].age /\ ~t[i].after
  BY <1>1, <1>2
<1>4. t = [i \in DOMAIN w |-> t[i]]
  BY DEF Unstamped
<1> QED BY <1>3, <1>4, Mapped

LEMMA WithoutAges ==
  ASSUME NEW b \in Seq(Entries)
  PROVE  /\ Ageless(b) \in Seq(Entries) /\ DOMAIN Ageless(b) = DOMAIN b
         /\ \A i \in DOMAIN b : Ageless(b)[i].fresh = b[i].fresh
<1> DEFINE t == Ageless(b)
<1>1. \A i \in DOMAIN b : b[i] \in Entries /\ t[i] = [b[i] EXCEPT !.age = 0]
  BY DEF Ageless
<1>2. \A f \in Entries : /\ [f EXCEPT !.age = 0] \in Entries
                         /\ [f EXCEPT !.age = 0].fresh = f.fresh
  BY DEF Entries
<1>3. \A i \in DOMAIN b : t[i] \in Entries /\ t[i].fresh = b[i].fresh
  BY <1>1, <1>2
<1>4. t = [i \in DOMAIN b |-> t[i]]
  BY DEF Ageless
<1> QED BY <1>3, <1>4, Mapped

LEMMA NewFrameTyped ==
  /\ NewFrame \in Frames /\ NewFrame.age = 0 /\ NewFrame.fresh
  /\ NewFrame.after <=> phase = "capture"
  /\ [NewFrame EXCEPT !.after = FALSE] \in Frames
  /\ [NewFrame EXCEPT !.after = FALSE].age = 0 /\ [NewFrame EXCEPT !.after = FALSE].fresh
BY DEF NewFrame, Frames

LEMMA CachedTyped ==
  ASSUME NEW f \in Frames
  PROVE  /\ Cached(f) \in Images /\ ~Cached(f).none /\ Cached(f).after = f.after
         /\ Cached(f).fresh = f.fresh
BY DEF Cached, Frames, Images

LEMMA NoFrameTyped == NoFrame \in Images /\ NoFrame.none /\ ~NoFrame.after /\ ~NoFrame.fresh
BY DEF NoFrame, Images

LEMMA ImageChanges ==
  ASSUME NEW f \in Images
  PROVE  /\ [f EXCEPT !.fresh = FALSE] \in Images /\ [f EXCEPT !.after = FALSE] \in Images
         /\ ~[f EXCEPT !.fresh = FALSE].fresh /\ [f EXCEPT !.fresh = FALSE].after = f.after
         /\ [f EXCEPT !.fresh = FALSE].none = f.none
         /\ ~[f EXCEPT !.after = FALSE].after
BY DEF Images

-----------------------------------------------------------------------------
(* Types.                                                                  *)

LEMMA StepCases ==
  ASSUME [Next]_vars
  PROVE  \/ Tick \/ SceneChanges \/ OnColor \/ OnDepth \/ OnCameraInfo \/ Trigger
         \/ Refuse \/ Infer \/ ColorUnreadable \/ CaptureEnds \/ TakeDepth
         \/ \E answer \in PoseAnswers : AskPose(answer)
         \/ \E row \in PixelRows : Answer(row)
         \/ Return \/ UNCHANGED vars
BY DEF Next, Handler

LEMMA InitTyped == Init => Type
<1> SUFFICES ASSUME Init PROVE Type
  OBVIOUS
<1>1. /\ colour_wire = << >> /\ depth_wire = << >> /\ buffer = << >>
  BY DEF Init
<1>2. /\ latest_color = NoFrame /\ latest_depth = NoFrame /\ depth = NoFrame
      /\ intrinsics = FALSE /\ moved = FALSE /\ last_processed = FALSE
  BY DEF Init
<1>3. phase = "idle" /\ waited = 0 /\ collected = 0
  BY DEF Init
<1>4. waited \in 0 .. Capture_timeout + 1 /\ collected \in 0 .. Num_capture_frames
  BY <1>3, PerceptionAssumption
<1>5. colour_wire \in Seq(Frames) /\ depth_wire \in Seq(Frames) /\ buffer \in Seq(Entries)
  BY <1>1
<1> QED BY <1>2, <1>3, <1>4, <1>5, NoFrameTyped DEF Type, Phases

LEMMA FailTyped ==
  ASSUME Type, Fail
  PROVE  /\ phase' \in Phases /\ waited' \in 0 .. Capture_timeout + 1
         /\ last_processed' \in BOOLEAN /\ collected' \in 0 .. Num_capture_frames
         /\ buffer' \in Seq(Entries) /\ depth' \in Images
<1>1. waited' = 0 /\ collected' = 0 /\ buffer' = << >> /\ phase' = "idle" /\ depth' = NoFrame
      /\ last_processed' = FALSE
  BY DEF Fail
<1>2. waited' \in 0 .. Capture_timeout + 1 /\ collected' \in 0 .. Num_capture_frames
  BY <1>1, PerceptionAssumption
<1>3. buffer' \in Seq(Entries)
  BY <1>1
<1> QED BY <1>1, <1>2, <1>3, NoFrameTyped DEF Phases

LEMMA TickEffect ==
  ASSUME Type, Tick
  PROVE  /\ colour_wire' \in Seq(Frames) /\ depth_wire' \in Seq(Frames)
         /\ colour_wire' = Older(colour_wire) \/ colour_wire' = Append(Older(colour_wire), NewFrame)
         /\ \/ depth_wire' = Append(Older(depth_wire), [NewFrame EXCEPT !.after = FALSE])
            \/ DepthMayStall /\ depth_wire' = Older(depth_wire)
         /\ \A i \in DOMAIN depth_wire : depth_wire[i].age < DepthLag
         /\ waited' \in 0 .. Capture_timeout + 1 /\ buffer' \in Seq(Entries)
         /\ buffer' = buffer \/ buffer' = Older(buffer)
         /\ phase = "capture" =>
              waited' = IF waited <= Capture_timeout THEN waited + 1 ELSE waited
         /\ UNCHANGED << caches, phase, moved, last_processed, collected, depth, response >>
<1>1. /\ colour_wire \in Seq(Frames) /\ depth_wire \in Seq(Frames) /\ buffer \in Seq(Entries)
      /\ waited \in 0 .. Capture_timeout + 1 /\ Capture_timeout \in Nat
  BY PerceptionAssumption DEF Type
<1>2. /\ Older(colour_wire) \in Seq(Frames) /\ Older(depth_wire) \in Seq(Frames)
      /\ Older(buffer) \in Seq(Entries)
  BY <1>1, OlderFrames, OlderEntries
<1>3. /\ colour_wire' = Older(colour_wire) \/ colour_wire' = Append(Older(colour_wire), NewFrame)
      /\ \/ depth_wire' = Append(Older(depth_wire), [NewFrame EXCEPT !.after = FALSE])
         \/ DepthMayStall /\ depth_wire' = Older(depth_wire)
      /\ \A i \in DOMAIN depth_wire : depth_wire[i].age < DepthLag
      /\ UNCHANGED << caches, phase, moved, last_processed, collected, depth, response >>
  BY DEF Tick, OnTime
<1>4. colour_wire' \in Seq(Frames) /\ depth_wire' \in Seq(Frames)
  <2>1. /\ Append(Older(colour_wire), NewFrame) \in Seq(Frames)
        /\ Append(Older(depth_wire), [NewFrame EXCEPT !.after = FALSE]) \in Seq(Frames)
    BY <1>2, NewFrameTyped, Appended
  <2> QED BY <1>2, <1>3, <2>1
<1>5. IF phase = "capture" /\ waited <= Capture_timeout
      THEN waited' = waited + 1 /\ buffer' = Older(buffer)
      ELSE waited' = waited /\ buffer' = buffer
  BY DEF Tick
<1>6. waited' \in 0 .. Capture_timeout + 1
  BY <1>1, <1>5
<1> QED BY <1>1, <1>2, <1>3, <1>4, <1>5, <1>6

LEMMA SceneChangesEffect ==
  ASSUME Type, SceneChanges
  PROVE  /\ colour_wire' = Stale(colour_wire) /\ depth_wire' = Stale(depth_wire)
         /\ colour_wire' \in Seq(Frames) /\ depth_wire' \in Seq(Frames) /\ buffer' \in Seq(Entries)
         /\ latest_color' = [latest_color EXCEPT !.fresh = FALSE]
         /\ latest_depth' = [latest_depth EXCEPT !.fresh = FALSE]
         /\ latest_color' \in Images /\ latest_depth' \in Images /\ depth' \in Images
         /\ ~latest_depth'.fresh
         /\ moved' \in BOOLEAN /\ (phase # "idle" => moved')
         /\ UNCHANGED << intrinsics, phase, waited, last_processed, collected, response >>
<1>1. /\ colour_wire' = Stale(colour_wire) /\ depth_wire' = Stale(depth_wire) /\ buffer' = Stale(buffer)
      /\ latest_color' = [latest_color EXCEPT !.fresh = FALSE]
      /\ latest_depth' = [latest_depth EXCEPT !.fresh = FALSE]
      /\ depth' = [depth EXCEPT !.fresh = FALSE] /\ moved' = (moved \/ phase # "idle")
      /\ UNCHANGED << intrinsics, phase, waited, last_processed, collected, response >>
  BY DEF SceneChanges
<1>2. /\ colour_wire \in Seq(Frames) /\ depth_wire \in Seq(Frames) /\ buffer \in Seq(Entries)
      /\ latest_color \in Images /\ latest_depth \in Images /\ depth \in Images
      /\ moved \in BOOLEAN
  BY DEF Type
<1>3. colour_wire' \in Seq(Frames) /\ depth_wire' \in Seq(Frames)
  BY <1>1, <1>2, StaleFrames
<1>4. buffer' \in Seq(Entries)
  BY <1>1, <1>2, StaleEntries
<1>5. /\ latest_color' \in Images /\ latest_depth' \in Images /\ depth' \in Images
      /\ ~latest_depth'.fresh
  BY <1>1, <1>2, ImageChanges
<1>6. moved' \in BOOLEAN /\ (phase # "idle" => moved')
  BY <1>1, <1>2
<1> QED BY <1>1, <1>3, <1>4, <1>5, <1>6

LEMMA OnColorEffect ==
  ASSUME Type, OnColor
  PROVE  /\ colour_wire # << >> /\ colour_wire' = Tail(colour_wire) /\ colour_wire' \in Seq(Frames)
         /\ colour_wire[1] \in Frames /\ 1 \in DOMAIN colour_wire
         /\ latest_color' = Cached(colour_wire[1]) /\ latest_color' \in Images
         /\ latest_color'.after = colour_wire[1].after /\ latest_color'.fresh = colour_wire[1].fresh
         /\ last_processed' = FALSE
         /\ UNCHANGED << depth_wire, latest_depth, intrinsics,
                         phase, waited, moved, collected, buffer, depth, response >>
<1>1. colour_wire \in Seq(Frames) /\ colour_wire # << >>
  BY DEF Type, OnColor
<1> QED BY <1>1, Tailed, CachedTyped DEF OnColor

LEMMA OnDepthEffect ==
  ASSUME Type, OnDepth
  PROVE  /\ depth_wire # << >> /\ depth_wire' = Tail(depth_wire) /\ depth_wire' \in Seq(Frames)
         /\ depth_wire[1] \in Frames /\ 1 \in DOMAIN depth_wire
         /\ latest_depth' \in Images
         /\ \/ latest_depth' = Cached(depth_wire[1])
            \/ DepthMayStall /\ latest_depth' = latest_depth
         /\ UNCHANGED << colour_wire, latest_color, intrinsics, call >>
<1>1. depth_wire \in Seq(Frames) /\ depth_wire # << >>
  BY DEF Type, OnDepth
<1>2. /\ depth_wire' = Tail(depth_wire)
      /\ latest_depth' = Cached(Head(depth_wire)) \/ (DepthMayStall /\ latest_depth' = latest_depth)
      /\ UNCHANGED << colour_wire, latest_color, intrinsics, call >>
  BY DEF OnDepth
<1> QED BY <1>1, <1>2, Tailed, CachedTyped DEF Type

LEMMA InferEffect ==
  ASSUME Type, Infer
  PROVE  /\ Capturing /\ NewColor /\ last_processed' = TRUE /\ collected' = collected + 1
         /\ collected' \in 0 .. Num_capture_frames /\ buffer' \in Seq(Entries)
         /\ \A i \in DOMAIN buffer' : \/ buffer'[i].fresh = latest_color.fresh
                                      \/ \E j \in DOMAIN buffer : buffer'[i] = buffer[j]
         /\ UNCHANGED << wires, caches, phase, waited, moved, depth, response >>
<1>1. /\ Capturing /\ NewColor /\ last_processed' = TRUE /\ collected' = collected + 1
      /\ UNCHANGED << wires, caches, phase, waited, moved, depth, response >>
  BY DEF Infer
<1>2. collected' \in 0 .. Num_capture_frames
  BY <1>1, PerceptionAssumption DEF Capturing, Type
<1>3. PICK found \in Found :
        buffer' = Prune(Append(buffer, [age |-> 0, fresh |-> latest_color.fresh, found |-> found]))
  BY DEF Infer
<1> DEFINE e == [age |-> 0, fresh |-> latest_color.fresh, found |-> found]
           s == Append(buffer, e)
<1>4. e \in Entries /\ buffer \in Seq(Entries) /\ e.age = 0 /\ e.fresh = latest_color.fresh
  BY DEF Entries, Type, Images
<1> HIDE DEF e
<1>5. /\ s \in Seq(Entries) /\ s[Len(buffer) + 1] = e /\ DOMAIN s = DOMAIN buffer \cup {Len(buffer) + 1}
      /\ \A i \in DOMAIN buffer : s[i] = buffer[i]
  BY <1>4, Appended
<1>6. buffer' = Prune(s)
  BY <1>3 DEF e
<1> HIDE DEF s
<1>7. /\ Prune(s) \in Seq(Entries)
      /\ \A i \in DOMAIN Prune(s) : \E j \in DOMAIN s : Prune(s)[i] = s[j]
  BY <1>4, <1>5, PruneKeeps
<1> QED BY <1>1, <1>2, <1>4, <1>5, <1>6, <1>7

LEMMA CaptureEffect ==
  ASSUME Type, CaptureEnds
  PROVE  /\ phase = "capture" /\ (collected = Num_capture_frames \/ waited >= Capture_timeout)
         /\ \/ Fail
            \/ /\ phase' = "depth" /\ depth' = depth /\ DOMAIN buffer' = DOMAIN buffer
               /\ \A i \in DOMAIN buffer : buffer'[i].fresh = buffer[i].fresh
         /\ phase' \in Phases /\ waited' \in 0 .. Capture_timeout + 1
         /\ last_processed' \in BOOLEAN /\ collected' \in 0 .. Num_capture_frames
         /\ buffer' \in Seq(Entries) /\ depth' \in Images
         /\ colour_wire' \in Seq(Frames) /\ DOMAIN colour_wire' = DOMAIN colour_wire
         /\ \A i \in DOMAIN colour_wire : colour_wire'[i].age = colour_wire[i].age /\ ~colour_wire'[i].after
         /\ latest_color' \in Images /\ ~latest_color'.after
         /\ UNCHANGED << depth_wire, latest_depth, intrinsics, moved >>
<1>1. /\ phase = "capture" /\ (collected = Num_capture_frames \/ waited >= Capture_timeout)
      /\ colour_wire' = Unstamped(colour_wire)
      /\ latest_color' = [latest_color EXCEPT !.after = FALSE]
      /\ UNCHANGED << depth_wire, latest_depth, intrinsics, moved >>
  BY DEF CaptureEnds, CaptureOver, Unstamped
<1>2. /\ colour_wire' \in Seq(Frames) /\ DOMAIN colour_wire' = DOMAIN colour_wire
      /\ \A i \in DOMAIN colour_wire : colour_wire'[i].age = colour_wire[i].age /\ ~colour_wire'[i].after
      /\ latest_color' \in Images /\ ~latest_color'.after
  BY <1>1, WithoutStamps, ImageChanges DEF Type
<1>3. CASE collected = 0
  BY <1>1, <1>2, <1>3, FailTyped DEF CaptureEnds, CaptureOver
<1>4. CASE collected # 0
  <2>1. /\ phase' = "depth" /\ waited' = 0 /\ last_processed' = FALSE /\ collected' = 0
        /\ buffer' = Ageless(buffer) /\ depth' = depth
    BY <1>4 DEF CaptureEnds, CaptureOver, Ageless
  <2>2. waited' \in 0 .. Capture_timeout + 1 /\ collected' \in 0 .. Num_capture_frames
    BY <2>1, PerceptionAssumption
  <2>3. /\ buffer' \in Seq(Entries) /\ DOMAIN buffer' = DOMAIN buffer
        /\ \A i \in DOMAIN buffer : buffer'[i].fresh = buffer[i].fresh
    BY <2>1, WithoutAges DEF Type
  <2> QED BY <1>1, <1>2, <2>1, <2>2, <2>3 DEF Type, Phases
<1> QED BY <1>3, <1>4

LEMMA HandlerRest ==
  ASSUME Type, TakeDepth \/ (\E answer \in PoseAnswers : AskPose(answer))
               \/ (\E row \in PixelRows : Answer(row)) \/ Return \/ Refuse
  PROVE  /\ \/ Fail \/ (phase' = "idle" /\ buffer' = << >>)
            \/ /\ \/ phase = "depth" /\ phase' = "tcp" /\ depth' = latest_depth
                  \/ phase = "tcp" /\ phase' = "transform" /\ depth' = depth
                  \/ phase = "transform" /\ phase' = "answered" /\ depth' = depth
               /\ UNCHANGED buffer
         /\ phase \notin {"idle", "capture"}
         /\ Type' /\ UNCHANGED << wires, caches, moved >>
<1>1. /\ colour_wire \in Seq(Frames) /\ depth_wire \in Seq(Frames)
      /\ latest_color \in Images /\ latest_depth \in Images /\ intrinsics \in BOOLEAN
      /\ phase \in Phases /\ waited \in 0 .. Capture_timeout + 1
      /\ moved \in BOOLEAN /\ last_processed \in BOOLEAN /\ collected \in 0 .. Num_capture_frames
      /\ buffer \in Seq(Entries) /\ depth \in Images
  BY DEF Type
<1>2. CASE Fail /\ UNCHANGED << wires, caches, moved >> /\ phase \in {"refused", "depth", "tcp"}
  <2>1. UNCHANGED << colour_wire, depth_wire, latest_color, latest_depth, intrinsics, moved >>
    BY <1>2 DEF wires, caches
  <2>2. /\ phase' \in Phases /\ waited' \in 0 .. Capture_timeout + 1
        /\ last_processed' \in BOOLEAN /\ collected' \in 0 .. Num_capture_frames
        /\ buffer' \in Seq(Entries) /\ depth' \in Images
    BY <1>2, FailTyped
  <2>3. Type'
    BY <1>1, <2>1, <2>2 DEF Type
  <2>4. phase \notin {"idle", "capture"}
    BY <1>2
  <2> QED BY <1>2, <2>3, <2>4
<1>3. CASE TakeDepth
  BY <1>1, <1>2, <1>3 DEF TakeDepth, Type, Phases, wires, caches
<1>4. CASE \E answer \in PoseAnswers : AskPose(answer)
  BY <1>1, <1>2, <1>4 DEF AskPose, Type, Phases, wires, caches
<1>5. CASE \E row \in PixelRows : Answer(row)
  BY <1>1, <1>5 DEF Answer, Type, Phases, wires, caches
<1>6. CASE Refuse
  BY <1>2, <1>6 DEF Refuse
<1>7. CASE Return
  <2>1. /\ waited' = 0 /\ collected' = 0 /\ buffer' = << >> /\ phase' = "idle" /\ depth' = NoFrame
        /\ last_processed' = FALSE /\ phase = "answered" /\ UNCHANGED << wires, caches, moved >>
    BY <1>7 DEF Return
  <2>2. waited' \in 0 .. Capture_timeout + 1 /\ collected' \in 0 .. Num_capture_frames
    BY <2>1, PerceptionAssumption
  <2>3. buffer' \in Seq(Entries)
    <3>1. buffer' = << >>
      BY <2>1
    <3> QED BY <3>1
  <2> QED BY <1>1, <2>1, <2>2, <2>3, NoFrameTyped DEF Type, Phases, wires, caches
<1> QED BY <1>3, <1>4, <1>5, <1>6, <1>7

LEMMA TypeStep ==
  ASSUME Type, [Next]_vars
  PROVE  Type'
<1>1. /\ colour_wire \in Seq(Frames) /\ depth_wire \in Seq(Frames)
      /\ latest_color \in Images /\ latest_depth \in Images /\ intrinsics \in BOOLEAN
      /\ phase \in Phases /\ waited \in 0 .. Capture_timeout + 1
      /\ moved \in BOOLEAN /\ last_processed \in BOOLEAN /\ collected \in 0 .. Num_capture_frames
      /\ buffer \in Seq(Entries) /\ depth \in Images
  BY DEF Type
<1>2. CASE Tick
  BY <1>1, <1>2, TickEffect DEF Type, caches
<1>3. CASE SceneChanges
  BY <1>1, <1>3, SceneChangesEffect DEF Type
<1>4. CASE OnColor
  BY <1>1, <1>4, OnColorEffect DEF Type
<1>5. CASE OnDepth
  BY <1>1, <1>5, OnDepthEffect DEF Type, call
<1>6. CASE OnCameraInfo
  BY <1>1, <1>6 DEF OnCameraInfo, Type, wires, call
<1>7. CASE Trigger
  <2>1. /\ phase' \in Phases /\ moved' = FALSE /\ last_processed' = FALSE /\ depth' = NoFrame
        /\ UNCHANGED << wires, caches >>
    BY <1>7 DEF Trigger, Phases
  <2>2. waited' \in 0 .. Capture_timeout + 1 /\ collected' \in 0 .. Num_capture_frames
    BY <1>7, PerceptionAssumption DEF Trigger
  <2>3. buffer' \in Seq(Entries)
    <3>1. buffer' = << >>
      BY <1>7 DEF Trigger
    <3> QED BY <3>1
  <2> QED BY <1>1, <2>1, <2>2, <2>3, NoFrameTyped DEF Type, wires, caches
<1>8. CASE Infer
  BY <1>1, <1>8, InferEffect DEF Type, wires, caches
<1>9. CASE ColorUnreadable
  BY <1>1, <1>9 DEF ColorUnreadable, Type, wires, caches
<1>10. CASE CaptureEnds
  BY <1>1, <1>10, CaptureEffect DEF Type
<1>11. CASE TakeDepth \/ (\E answer \in PoseAnswers : AskPose(answer))
               \/ (\E row \in PixelRows : Answer(row)) \/ Return \/ Refuse
  BY <1>11, HandlerRest
<1>12. CASE UNCHANGED vars
  BY <1>1, <1>12 DEF vars, wires, caches, call, Type
<1> QED BY <1>2, <1>3, <1>4, <1>5, <1>6, <1>7, <1>8, <1>9, <1>10, <1>11, <1>12, StepCases

-----------------------------------------------------------------------------
(* The colour frames.                                                      *)

LEMMA NoneStamped ==
  ASSUME NEW w \in Seq(Frames), \A i \in DOMAIN w : ~w[i].after, w # << >>
  PROVE  ~w[1].after /\ \A i \in DOMAIN Tail(w) : ~Tail(w)[i].after
BY Tailed

LEMMA StampsInit == Init => Stamps
<1> SUFFICES ASSUME Init PROVE Stamps
  OBVIOUS
<1>1. colour_wire = << >> /\ phase = "idle" /\ latest_color = NoFrame
  BY DEF Init
<1>2. DOMAIN colour_wire = {}
  BY <1>1
<1> QED BY <1>1, <1>2, NoFrameTyped DEF Stamps

LEMMA StampsStep ==
  ASSUME Type, Stamps, [Next]_vars
  PROVE  Stamps'
<1>1. colour_wire \in Seq(Frames) /\ latest_color \in Images /\ buffer \in Seq(Entries) /\ moved \in BOOLEAN
  BY DEF Type
<1>2. CASE Tick
  <2>1. /\ latest_color' = latest_color /\ phase' = phase /\ moved' = moved
        /\ buffer' = buffer \/ buffer' = Older(buffer)
    BY <1>2, TickEffect DEF caches
  <2>2. \A i \in DOMAIN buffer' : buffer'[i].fresh = buffer[i].fresh /\ i \in DOMAIN buffer
    BY <1>1, <2>1, OlderEntries
  <2>3. \A i \in DOMAIN Older(colour_wire) :
          /\ i \in DOMAIN colour_wire
          /\ Older(colour_wire)[i].after = colour_wire[i].after
          /\ Older(colour_wire)[i].fresh = colour_wire[i].fresh
    BY <1>1, OlderFrames
  <2>4. \A i \in DOMAIN Append(Older(colour_wire), NewFrame) :
          \/ Append(Older(colour_wire), NewFrame)[i] = NewFrame
          \/ /\ i \in DOMAIN Older(colour_wire)
             /\ Append(Older(colour_wire), NewFrame)[i] = Older(colour_wire)[i]
    BY <1>1, OlderFrames, NewFrameTyped, Appended
  <2>5. \A i \in DOMAIN colour_wire' :
          \/ colour_wire'[i] = NewFrame
          \/ /\ i \in DOMAIN colour_wire
             /\ colour_wire'[i].after = colour_wire[i].after
             /\ colour_wire'[i].fresh = colour_wire[i].fresh
    BY <1>2, <2>3, <2>4, TickEffect
  <2> QED BY <2>1, <2>2, <2>5, NewFrameTyped DEF Stamps
<1>3. CASE SceneChanges
  <2>1. /\ phase' = phase /\ (phase # "idle" => moved')
        /\ latest_color'.after = latest_color.after
        /\ \A i \in DOMAIN colour_wire' : i \in DOMAIN colour_wire /\ colour_wire'[i].after = colour_wire[i].after
    <3>1. /\ phase' = phase /\ (phase # "idle" => moved') /\ colour_wire' = Stale(colour_wire)
          /\ latest_color' = [latest_color EXCEPT !.fresh = FALSE]
      BY <1>3, SceneChangesEffect
    <3>2. [latest_color EXCEPT !.fresh = FALSE].after = latest_color.after
      BY <1>1, ImageChanges
    <3>3. \A i \in DOMAIN Stale(colour_wire) :
            i \in DOMAIN colour_wire /\ Stale(colour_wire)[i].after = colour_wire[i].after
      BY <1>1, StaleFrames
    <3> QED BY <3>1, <3>2, <3>3
  <2>2. phase' # "capture" =>
          ~latest_color'.after /\ \A i \in DOMAIN colour_wire' : ~colour_wire'[i].after
    BY <2>1 DEF Stamps
  <2>3. ~(phase' # "idle" /\ ~moved')
    BY <2>1
  <2> QED BY <2>2, <2>3 DEF Stamps
<1>4. CASE OnColor
  <2>1. /\ phase' = phase /\ moved' = moved /\ buffer' = buffer
        /\ latest_color'.after = colour_wire[1].after /\ latest_color'.fresh = colour_wire[1].fresh
        /\ 1 \in DOMAIN colour_wire
    BY <1>4, OnColorEffect
  <2>2. \A i \in DOMAIN colour_wire' : i + 1 \in DOMAIN colour_wire /\ colour_wire'[i] = colour_wire[i + 1]
    BY <1>1, <1>4, OnColorEffect, Tailed
  <2> QED BY <2>1, <2>2 DEF Stamps
<1>5. CASE UNCHANGED << colour_wire, latest_color, phase, moved, buffer >>
  BY <1>5 DEF Stamps
<1>6. CASE OnDepth \/ OnCameraInfo \/ ColorUnreadable \/ UNCHANGED vars
  BY <1>5, <1>6, OnDepthEffect DEF OnCameraInfo, ColorUnreadable, vars, wires, caches, call
<1>7. CASE Trigger
  <2>1. /\ phase = "idle" /\ buffer' = << >> /\ UNCHANGED << colour_wire, latest_color >>
    BY <1>7 DEF Trigger, wires, caches
  <2>2. DOMAIN buffer' = {}
    BY <2>1
  <2> QED BY <2>1, <2>2 DEF Stamps
<1>8. CASE Infer
  <2>1. /\ phase = "capture" /\ latest_color.after
        /\ UNCHANGED << colour_wire, latest_color, phase, moved >>
    BY <1>8, InferEffect DEF Capturing, NewColor, AfterTrigger, wires, caches
  <2>2. \A i \in DOMAIN buffer' : \/ buffer'[i].fresh = latest_color.fresh
                                  \/ \E j \in DOMAIN buffer : buffer'[i] = buffer[j]
    BY <1>8, InferEffect
  <2>3. ~moved => \A i \in DOMAIN buffer' : buffer'[i].fresh
    BY <2>1, <2>2 DEF Stamps
  <2> QED BY <2>1, <2>3 DEF Stamps
<1>9. CASE CaptureEnds
  <2>1. /\ phase = "capture" /\ moved' = moved /\ ~latest_color'.after
        /\ \A i \in DOMAIN colour_wire' : ~colour_wire'[i].after
        /\ \/ Fail
           \/ /\ phase' = "depth" /\ DOMAIN buffer' = DOMAIN buffer
              /\ \A i \in DOMAIN buffer : buffer'[i].fresh = buffer[i].fresh
    BY <1>9, CaptureEffect
  <2>2. Fail => phase' = "idle"
    BY DEF Fail
  <2>3. ~moved => \A i \in DOMAIN buffer : buffer[i].fresh
    BY <2>1 DEF Stamps
  <2>4. phase' # "idle" /\ ~moved' => \A i \in DOMAIN buffer' : buffer'[i].fresh
    BY <2>1, <2>2, <2>3
  <2> QED BY <2>1, <2>2, <2>4 DEF Stamps
<1>10. CASE TakeDepth \/ (\E answer \in PoseAnswers : AskPose(answer))
               \/ (\E row \in PixelRows : Answer(row)) \/ Return \/ Refuse
  <2>1. /\ phase \notin {"idle", "capture"} /\ UNCHANGED << colour_wire, latest_color, moved >>
        /\ phase' = "idle" \/ (phase' \in {"tcp", "transform", "answered"} /\ buffer' = buffer)
    BY <1>10, HandlerRest DEF Fail, wires, caches
  <2> QED BY <2>1 DEF Stamps
<1> QED BY <1>2, <1>3, <1>4, <1>6, <1>7, <1>8, <1>9, <1>10, StepCases

THEOREM ColourInvariant == Spec => []ColourInv
<1>1. Init => ColourInv
  BY InitTyped, StampsInit DEF ColourInv
<1>2. ColourInv /\ [Next]_vars => ColourInv'
  BY TypeStep, StampsStep DEF ColourInv
<1> QED BY <1>1, <1>2, PTL DEF Spec

(* Every fused frame shows the scene the pose is asked for, unless the     *)
(* scene changed during the call, at any lag of the camera                 *)
(* (_capture_and_infer, _current_tcp).                                     *)
THEOREM FusedFramesAreCurrent == Spec => []ColourOfThisScene
<1>1. ColourInv => ColourOfThisScene
  BY DEF ColourInv, Stamps, ColourOfThisScene
<1> QED BY <1>1, ColourInvariant, PTL

-----------------------------------------------------------------------------
(* The order of the frames on a wire.                                      *)

LEMMA OrderedOlder ==
  ASSUME NEW w \in Seq(Frames), InOrder(w)
  PROVE  InOrder(Older(w))
<1>1. \A i \in DOMAIN w : w[i].age \in Nat
  <2>1. \A i \in DOMAIN w : w[i] \in Frames
    OBVIOUS
  <2> QED BY <2>1 DEF Frames
<1> QED BY <1>1, OlderFrames DEF InOrder

LEMMA OrderedAppend ==
  ASSUME NEW w \in Seq(Frames), InOrder(w), NEW f \in Frames, f.age = 0
  PROVE  InOrder(Append(Older(w), f))
<1> DEFINE o == Older(w)
           v == Append(o, f)
<1>1. \A i \in DOMAIN w : w[i].age \in Nat
  <2>1. \A i \in DOMAIN w : w[i] \in Frames
    OBVIOUS
  <2> QED BY <2>1 DEF Frames
<1>2. o \in Seq(Frames) /\ InOrder(o) /\ \A i \in DOMAIN o : o[i].age > 0
  BY <1>1, OlderFrames, OrderedOlder
<1> HIDE DEF o
<1>3. /\ DOMAIN v = DOMAIN o \cup {Len(o) + 1} /\ v[Len(o) + 1] = f /\ Len(o) \in Nat
      /\ \A i \in DOMAIN o : v[i] = o[i] /\ i < Len(o) + 1 /\ i \in Nat
  BY <1>2, Appended
<1> HIDE DEF v
<1>4. \A i, j \in DOMAIN v : i < j => i \in DOMAIN o
  BY <1>3
<1>5. \A i, j \in DOMAIN v : i < j => v[i].age > v[j].age
  BY <1>2, <1>3, <1>4 DEF InOrder
<1> QED BY <1>5 DEF InOrder, v, o

LEMMA OrderedTail ==
  ASSUME NEW w \in Seq(Frames), InOrder(w), w # << >>
  PROVE  /\ InOrder(Tail(w))
         /\ \A i \in DOMAIN Tail(w) : Tail(w)[i].age < w[1].age
<1>1. \A i \in DOMAIN w : w[i].age \in Nat
  <2>1. \A i \in DOMAIN w : w[i] \in Frames
    OBVIOUS
  <2> QED BY <2>1 DEF Frames
<1>2. 1 \in DOMAIN w /\ \A i \in DOMAIN Tail(w) : i \in Nat /\ i + 1 \in DOMAIN w /\ 1 < i + 1 /\ Tail(w)[i] = w[i + 1]
  BY Tailed
<1> QED BY <1>1, <1>2 DEF InOrder

LEMMA OrderedAlike ==
  ASSUME NEW w, NEW v, InOrder(w), DOMAIN v = DOMAIN w, \A i \in DOMAIN w : v[i].age = w[i].age
  PROVE  InOrder(v)
BY DEF InOrder

LEMMA ColourInOrder ==
  ASSUME Type, InOrder(colour_wire), [Next]_vars
  PROVE  InOrder(colour_wire)'
<1>1. colour_wire \in Seq(Frames)
  BY DEF Type
<1>2. CASE Tick
  <2>1. InOrder(Older(colour_wire)) /\ InOrder(Append(Older(colour_wire), NewFrame))
    BY <1>1, OrderedOlder, OrderedAppend, NewFrameTyped
  <2>2. colour_wire' = Older(colour_wire) \/ colour_wire' = Append(Older(colour_wire), NewFrame)
    BY <1>2, TickEffect
  <2> QED BY <2>1, <2>2 DEF InOrder
<1>3. CASE SceneChanges
  <2>1. InOrder(Stale(colour_wire))
    BY <1>1, StaleFrames, OrderedAlike
  <2>2. colour_wire' = Stale(colour_wire)
    BY <1>3, SceneChangesEffect
  <2> QED BY <2>1, <2>2 DEF InOrder
<1>4. CASE OnColor
  <2>1. InOrder(Tail(colour_wire)) /\ colour_wire' = Tail(colour_wire)
    BY <1>1, <1>4, OnColorEffect, OrderedTail
  <2> QED BY <2>1 DEF InOrder
<1>5. CASE CaptureEnds
  <2>1. \A i \in DOMAIN colour_wire : colour_wire'[i].age = colour_wire[i].age
    BY <1>5, CaptureEffect
  <2>2. DOMAIN colour_wire' = DOMAIN colour_wire
    BY <1>5, CaptureEffect
  <2> QED BY <2>1, <2>2 DEF InOrder
<1>6. CASE colour_wire' = colour_wire
  BY <1>6 DEF InOrder
<1>7. CASE OnDepth \/ OnCameraInfo \/ Trigger \/ Refuse \/ Infer \/ ColorUnreadable \/ TakeDepth
           \/ (\E answer \in PoseAnswers : AskPose(answer))
           \/ (\E row \in PixelRows : Answer(row)) \/ Return \/ UNCHANGED vars
  BY <1>6, <1>7, OnDepthEffect, InferEffect, HandlerRest
     DEF OnCameraInfo, Trigger, ColorUnreadable, vars, wires
<1> QED BY <1>2, <1>3, <1>4, <1>5, <1>7, StepCases

-----------------------------------------------------------------------------
(* The pace of the capture.                                                *)

LEMMA FrameAges ==
  ASSUME NEW w \in Seq(Frames)
  PROVE  \A i \in DOMAIN w : w[i].age \in Nat
<1>1. \A i \in DOMAIN w : w[i] \in Frames
  OBVIOUS
<1> QED BY <1>1 DEF Frames

LEMMA PacedStep ==
  ASSUME Type, Stamps, InOrder(colour_wire), Paced, [Next]_vars
  PROVE  Paced'
<1>1. /\ colour_wire \in Seq(Frames) /\ waited \in Int /\ collected \in Int /\ Capture_timeout \in Nat
  BY PerceptionAssumption DEF Type
<1>a. PICK p \in {0, 1} : p = Pending
  BY DEF Pending
<1>b. PICK q \in {0, 1} : q = Pending'
  BY DEF Pending
<1>2. SUFFICES ASSUME phase' = "capture", waited' <= Capture_timeout
      PROVE  /\ collected' + q <= waited'
             /\ \A i \in DOMAIN colour_wire' : colour_wire'[i].after =>
                  collected' + q < waited' - colour_wire'[i].age
  BY <1>b DEF Paced
<1>3. CASE Tick
  <2>1. /\ phase = "capture" /\ waited <= Capture_timeout /\ waited' = waited + 1
        /\ collected' = collected /\ q = p
    BY <1>1, <1>2, <1>a, <1>b, <1>3, TickEffect DEF Pending, NewColor, caches
  <2>2. /\ collected + p <= waited
        /\ \A i \in DOMAIN colour_wire : colour_wire[i].after =>
             collected + p < waited - colour_wire[i].age
    BY <1>a, <2>1 DEF Paced
  <2>3. \A i \in DOMAIN Older(colour_wire) :
          /\ i \in DOMAIN colour_wire
          /\ Older(colour_wire)[i].after = colour_wire[i].after
          /\ Older(colour_wire)[i].age = colour_wire[i].age + 1
    BY <1>1, OlderFrames
  <2>4. \A i \in DOMAIN Append(Older(colour_wire), NewFrame) :
          \/ Append(Older(colour_wire), NewFrame)[i] = NewFrame
          \/ /\ i \in DOMAIN Older(colour_wire)
             /\ Append(Older(colour_wire), NewFrame)[i] = Older(colour_wire)[i]
    BY <1>1, OlderFrames, NewFrameTyped, Appended
  <2>5. \A i \in DOMAIN colour_wire' :
          \/ colour_wire'[i].age = 0
          \/ /\ i \in DOMAIN colour_wire
             /\ colour_wire'[i].after = colour_wire[i].after
             /\ colour_wire'[i].age = colour_wire[i].age + 1
    BY <1>3, <2>3, <2>4, TickEffect, NewFrameTyped
  <2>6. \A i \in DOMAIN colour_wire : colour_wire[i].age \in Nat
    BY <1>1, FrameAges
  <2> QED BY <1>1, <2>1, <2>2, <2>5, <2>6
<1>4. CASE SceneChanges
  <2>1. phase = "capture" /\ waited' = waited /\ collected' = collected
    BY <1>2, <1>4, SceneChangesEffect
  <2>2. q = p
    <3>1. /\ latest_color' = [latest_color EXCEPT !.fresh = FALSE] /\ last_processed' = last_processed
          /\ latest_color \in Images
      BY <1>4, SceneChangesEffect DEF Type
    <3>2. latest_color'.after = latest_color.after /\ latest_color'.none = latest_color.none
      BY <3>1, ImageChanges
    <3> QED BY <1>a, <1>b, <3>1, <3>2 DEF Pending, NewColor, AfterTrigger
  <2>3. \A i \in DOMAIN colour_wire' : /\ i \in DOMAIN colour_wire
                                       /\ colour_wire'[i].after = colour_wire[i].after
                                       /\ colour_wire'[i].age = colour_wire[i].age
    <3>1. colour_wire' = Stale(colour_wire)
      BY <1>4, SceneChangesEffect
    <3> QED BY <1>1, <3>1, StaleFrames
  <2> QED BY <1>2, <1>a, <2>1, <2>2, <2>3 DEF Paced
<1>5. CASE OnColor
  <2>1. /\ phase = "capture" /\ waited' = waited /\ collected' = collected
        /\ colour_wire' = Tail(colour_wire) /\ colour_wire # << >> /\ 1 \in DOMAIN colour_wire
        /\ latest_color'.after = colour_wire[1].after
    BY <1>2, <1>5, OnColorEffect
  <2>2. /\ collected + p <= waited
        /\ \A i \in DOMAIN colour_wire : colour_wire[i].after =>
             collected + p < waited - colour_wire[i].age
    BY <1>2, <1>a, <2>1 DEF Paced
  <2>3. \A i \in DOMAIN Tail(colour_wire) : Tail(colour_wire)[i].age < colour_wire[1].age
    BY <1>1, <2>1, OrderedTail
  <2>4. \A i \in DOMAIN Tail(colour_wire) : i + 1 \in DOMAIN colour_wire /\ Tail(colour_wire)[i] = colour_wire[i + 1]
    BY <1>1, <2>1, Tailed
  <2>5. \A i \in DOMAIN colour_wire : colour_wire[i].age \in Nat
    BY <1>1, FrameAges
  <2>6. CASE ~colour_wire[1].after
    <3>1. q = 0
      BY <1>b, <2>1, <2>6 DEF Pending, NewColor, AfterTrigger
    <3>2. \A i \in DOMAIN Tail(colour_wire) : Tail(colour_wire)[i].after =>
             collected + p < waited - Tail(colour_wire)[i].age
      BY <2>2, <2>4
    <3> QED BY <1>1, <2>1, <2>2, <2>4, <2>5, <3>1, <3>2
  <2>7. CASE colour_wire[1].after
    <3>1. collected + 1 <= waited - colour_wire[1].age
      BY <1>1, <2>1, <2>2, <2>5, <2>7
    <3> QED BY <1>1, <2>1, <2>3, <2>4, <2>5, <3>1
  <2> QED BY <2>6, <2>7
<1>6. CASE Trigger
  <2>1. /\ phase = "idle" /\ waited' = 0 /\ collected' = 0
        /\ UNCHANGED << colour_wire, latest_color >>
    BY <1>6 DEF Trigger, wires, caches
  <2>2. ~latest_color.after /\ \A i \in DOMAIN colour_wire : ~colour_wire[i].after
    BY <2>1 DEF Stamps
  <2>3. q = 0
    BY <1>b, <2>1, <2>2 DEF Pending, NewColor, AfterTrigger
  <2> QED BY <2>1, <2>2, <2>3
<1>7. CASE Infer \/ ColorUnreadable
  <2>1. /\ phase = "capture" /\ waited' = waited /\ colour_wire' = colour_wire
        /\ NewColor /\ last_processed' = TRUE /\ (collected' = collected \/ collected' = collected + 1)
    BY <1>7, InferEffect DEF ColorUnreadable, Capturing, wires
  <2>2. p = 1 /\ q = 0
    BY <1>a, <1>b, <2>1 DEF Pending, NewColor
  <2>3. /\ collected + 1 <= waited
        /\ \A i \in DOMAIN colour_wire : colour_wire[i].after => collected + 1 < waited - colour_wire[i].age
    BY <1>2, <1>a, <2>1, <2>2 DEF Paced
  <2>4. \A i \in DOMAIN colour_wire : colour_wire[i].age \in Nat
    BY <1>1, FrameAges
  <2>5. waited' = waited /\ colour_wire' = colour_wire /\ waited \in Int /\ collected \in Int
        /\ (collected' = collected \/ collected' = collected + 1)
    BY <1>1, <2>1
  <2>6. CASE collected' = collected
    BY <2>2, <2>3, <2>4, <2>5, <2>6
  <2>7. CASE collected' = collected + 1
    BY <2>2, <2>3, <2>4, <2>5, <2>7
  <2> QED BY <2>5, <2>6, <2>7
<1>8. CASE CaptureEnds
  BY <1>2, <1>8, CaptureEffect DEF Fail
<1>9. CASE TakeDepth \/ (\E answer \in PoseAnswers : AskPose(answer))
               \/ (\E row \in PixelRows : Answer(row)) \/ Return \/ Refuse
  BY <1>2, <1>9, HandlerRest DEF Fail
<1>10. CASE UNCHANGED << colour_wire, latest_color, last_processed, phase, waited, collected >>
  BY <1>2, <1>a, <1>b, <1>10 DEF Paced, Pending, NewColor
<1>11. CASE OnDepth \/ OnCameraInfo \/ UNCHANGED vars
  BY <1>10, <1>11, OnDepthEffect DEF OnCameraInfo, vars, wires, caches, call
<1> QED BY <1>3, <1>4, <1>5, <1>6, <1>7, <1>8, <1>9, <1>11, StepCases

-----------------------------------------------------------------------------
(* The depth frames.                                                       *)

(* The depth wire after each of the actions that change it.                *)
LEMMA DepthTick ==
  ASSUME Type, Tick
  PROVE  /\ \A i \in DOMAIN depth_wire' :
              \/ depth_wire'[i].age = 0 /\ depth_wire'[i].fresh /\ \A j \in DOMAIN depth_wire' : ~(i < j)
              \/ /\ i \in DOMAIN depth_wire
                 /\ depth_wire'[i].age = depth_wire[i].age + 1
                 /\ depth_wire'[i].fresh = depth_wire[i].fresh
         /\ \A i \in DOMAIN depth_wire :
              i \in DOMAIN depth_wire' /\ depth_wire'[i].age = depth_wire[i].age + 1
         /\ ~DepthMayStall => \E i \in DOMAIN depth_wire' : depth_wire'[i].age = 0
<1> DEFINE o == Older(depth_wire)
           f == [NewFrame EXCEPT !.after = FALSE]
<1>1. /\ o \in Seq(Frames) /\ DOMAIN o = DOMAIN depth_wire
      /\ \A i \in DOMAIN o : o[i].age = depth_wire[i].age + 1 /\ o[i].fresh = depth_wire[i].fresh
  BY OlderFrames DEF Type
<1>2. f \in Frames /\ f.age = 0 /\ f.fresh
  BY NewFrameTyped
<1>3. depth_wire' = Append(o, f) \/ (DepthMayStall /\ depth_wire' = o)
  BY TickEffect
<1> HIDE DEF o, f
<1>4. /\ DOMAIN Append(o, f) = DOMAIN o \cup {Len(o) + 1} /\ Append(o, f)[Len(o) + 1] = f
      /\ \A i \in DOMAIN o : Append(o, f)[i] = o[i] /\ i < Len(o) + 1 /\ i \in Nat
  BY <1>1, <1>2, Appended
<1>5. Len(o) \in Nat
  BY <1>1
<1>6. CASE depth_wire' = Append(o, f)
  <2>1. \A j \in DOMAIN depth_wire' : ~(Len(o) + 1 < j)
    BY <1>4, <1>5, <1>6
  <2> QED BY <1>1, <1>2, <1>4, <1>6, <2>1
<1>7. CASE DepthMayStall /\ depth_wire' = o
  BY <1>1, <1>7
<1> QED BY <1>3, <1>6, <1>7

LEMMA DepthScene ==
  ASSUME Type, SceneChanges
  PROVE  \A i \in DOMAIN depth_wire' : /\ i \in DOMAIN depth_wire /\ ~depth_wire'[i].fresh
                                       /\ depth_wire'[i].age = depth_wire[i].age
<1>1. depth_wire \in Seq(Frames) /\ depth_wire' = Stale(depth_wire)
  BY SceneChangesEffect DEF Type
<1> QED BY <1>1, StaleFrames

LEMMA DepthArrives ==
  ASSUME Type, OnDepth
  PROVE  /\ \A i \in DOMAIN depth_wire' : /\ i \in Nat /\ i + 1 \in DOMAIN depth_wire
                                          /\ depth_wire'[i] = depth_wire[i + 1]
         /\ \A i \in DOMAIN depth_wire :
              i = 1 \/ (i - 1 \in DOMAIN depth_wire' /\ depth_wire'[i - 1] = depth_wire[i])
         /\ 1 \in DOMAIN depth_wire
         /\ \/ latest_depth'.fresh = depth_wire[1].fresh /\ ~latest_depth'.none
            \/ DepthMayStall /\ latest_depth' = latest_depth
<1>1. depth_wire \in Seq(Frames) /\ depth_wire # << >> /\ depth_wire' = Tail(depth_wire)
      /\ depth_wire[1] \in Frames
  BY OnDepthEffect DEF Type
<1>2. latest_depth' = Cached(depth_wire[1]) \/ (DepthMayStall /\ latest_depth' = latest_depth)
  BY OnDepthEffect
<1> QED BY <1>1, <1>2, Tailed, CachedTyped

(* No other action touches them.                                           *)
LEMMA DepthElse ==
  ASSUME Type, [Next]_vars, ~Tick, ~SceneChanges, ~OnDepth
  PROVE  depth_wire' = depth_wire /\ latest_depth' = latest_depth
BY StepCases, OnColorEffect, InferEffect, CaptureEffect, HandlerRest
   DEF OnCameraInfo, Trigger, ColorUnreadable, vars, wires, caches

LEMMA OnWireStep ==
  ASSUME Type, OnWire, [Next]_vars
  PROVE  OnWire'
<1>1. \A i \in DOMAIN depth_wire : depth_wire[i].age \in Nat
  BY FrameAges DEF Type
<1>2. CASE Tick
  <2>1. \A i \in DOMAIN depth_wire : depth_wire[i].age < DepthLag
    BY <1>2, TickEffect
  <2> QED BY <1>1, <1>2, <2>1, DepthTick, PerceptionAssumption DEF OnWire
<1>3. CASE SceneChanges
  BY <1>3, DepthScene DEF OnWire
<1>4. CASE OnDepth
  BY <1>4, DepthArrives DEF OnWire
<1>5. CASE ~Tick /\ ~SceneChanges /\ ~OnDepth
  BY <1>5, DepthElse DEF OnWire
<1> QED BY <1>2, <1>3, <1>4, <1>5

LEMMA FreshInOrderStep ==
  ASSUME Type, FreshInOrder, [Next]_vars
  PROVE  FreshInOrder'
<1>1. CASE Tick
  <2>1. latest_depth' = latest_depth
    BY <1>1, TickEffect DEF caches
  <2> QED BY <1>1, <2>1, DepthTick DEF FreshInOrder
<1>2. CASE SceneChanges
  BY <1>2, DepthScene, SceneChangesEffect DEF FreshInOrder
<1>3. CASE OnDepth
  <2>1. ASSUME NEW i \in DOMAIN depth_wire', NEW j \in DOMAIN depth_wire', i < j, depth_wire'[i].fresh
        PROVE  depth_wire'[j].fresh
    <3>1. /\ i \in Nat /\ i + 1 \in DOMAIN depth_wire /\ depth_wire'[i] = depth_wire[i + 1]
          /\ j \in Nat /\ j + 1 \in DOMAIN depth_wire /\ depth_wire'[j] = depth_wire[j + 1]
      BY <1>3, <2>1, DepthArrives
    <3>2. i + 1 < j + 1
      BY <2>1, <3>1
    <3> QED BY <2>1, <3>1, <3>2 DEF FreshInOrder
  <2>2. ASSUME latest_depth'.fresh, NEW i \in DOMAIN depth_wire'
        PROVE  depth_wire'[i].fresh
    <3>1. i \in Nat /\ i + 1 \in DOMAIN depth_wire /\ depth_wire'[i] = depth_wire[i + 1] /\ 1 \in DOMAIN depth_wire
      BY <1>3, DepthArrives
    <3>2. 1 < i + 1 \/ i = 0
      BY <3>1
    <3>3. i # 0
      BY <1>3, OnDepthEffect
    <3>4. depth_wire[1].fresh => depth_wire[i + 1].fresh
      BY <3>1, <3>2, <3>3 DEF FreshInOrder
    <3>5. depth_wire[1].fresh \/ latest_depth.fresh
      BY <1>3, <2>2, DepthArrives
    <3> QED BY <3>1, <3>4, <3>5 DEF FreshInOrder
  <2>3. latest_depth'.fresh => ~latest_depth'.none
    BY <1>3, DepthArrives DEF FreshInOrder
  <2> QED BY <2>1, <2>2, <2>3 DEF FreshInOrder
<1>4. CASE ~Tick /\ ~SceneChanges /\ ~OnDepth
  BY <1>4, DepthElse DEF FreshInOrder
<1> QED BY <1>1, <1>2, <1>3, <1>4

LEMMA PhaseElse ==
  ASSUME Type, [Next]_vars, ~Trigger, ~CaptureEnds,
         ~(TakeDepth \/ (\E answer \in PoseAnswers : AskPose(answer))
            \/ (\E row \in PixelRows : Answer(row)) \/ Return \/ Refuse)
  PROVE  phase' = phase /\ (Tick \/ waited' = waited) /\ (SceneChanges \/ (moved' = moved /\ depth' = depth))
<1>1. CASE Tick
  BY <1>1, TickEffect
<1>2. CASE SceneChanges
  BY <1>2, SceneChangesEffect
<1>3. CASE OnColor \/ OnDepth
  <2>1. CASE OnColor
    BY <2>1, OnColorEffect
  <2>2. CASE OnDepth
    BY <2>2, OnDepthEffect DEF call
  <2> QED BY <1>3, <2>1, <2>2
<1>4. CASE Infer
  BY <1>4, InferEffect DEF wires, caches
<1>5. CASE OnCameraInfo \/ ColorUnreadable \/ UNCHANGED vars
  BY <1>5 DEF OnCameraInfo, ColorUnreadable, vars, call
<1> QED BY <1>1, <1>2, <1>3, <1>4, <1>5, StepCases

LEMMA FirstDepthStep ==
  ASSUME ~DepthMayStall, DepthLag + 2 <= Capture_timeout,
         Type, OnWire, FreshInOrder, FirstDepth, [Next]_vars
  PROVE  FirstDepth'
<1>1. /\ waited \in Nat /\ DepthLag \in Nat /\ Capture_timeout \in Nat
      /\ \A i \in DOMAIN depth_wire : depth_wire[i].age \in Nat
  BY FrameAges, PerceptionAssumption DEF Type
<1>2. CASE Trigger
  <2>1. waited' = 0 /\ depth_wire' = depth_wire
    BY <1>2 DEF Trigger, wires
  <2> QED BY <1>1, <2>1 DEF FirstDepth
<1>3. CASE CaptureEnds
  BY <1>3, CaptureEffect DEF FirstDepth, Fail
<1>4. CASE TakeDepth \/ (\E answer \in PoseAnswers : AskPose(answer))
             \/ (\E row \in PixelRows : Answer(row)) \/ Return \/ Refuse
  BY <1>4, HandlerRest DEF FirstDepth, Fail
<1>5. ASSUME phase = "capture", phase' = "capture", ~moved, ~moved', Tick PROVE FirstDepth'
  <2>1. /\ waited' = IF waited <= Capture_timeout THEN waited + 1 ELSE waited
        /\ latest_depth' = latest_depth
        /\ \A i \in DOMAIN depth_wire : depth_wire[i].age < DepthLag
    BY <1>5, TickEffect DEF caches
  <2>2. \A i \in DOMAIN depth_wire : depth_wire[i].age < waited => depth_wire[i].fresh
    BY <1>5 DEF FirstDepth
  <2>3. ASSUME NEW i \in DOMAIN depth_wire', depth_wire'[i].age < waited'
        PROVE  depth_wire'[i].fresh
    <3>1. CASE depth_wire'[i].fresh
      BY <3>1
    <3>2. CASE /\ i \in DOMAIN depth_wire /\ depth_wire'[i].age = depth_wire[i].age + 1
               /\ depth_wire'[i].fresh = depth_wire[i].fresh
      <4>1. depth_wire[i].age < waited
        BY <1>1, <2>1, <2>3, <3>2
      <4> QED BY <2>2, <3>2, <4>1
    <3> QED BY <1>5, <3>1, <3>2, DepthTick
  <2>4. CASE waited = 0
    <3>1. waited' = 1
      BY <1>1, <2>1, <2>4
    <3>2. \E i \in DOMAIN depth_wire' : depth_wire'[i].age = waited' - 1
      BY <1>5, <3>1, DepthTick
    <3>3. waited' <= DepthLag + 1
      BY <1>1, <3>1
    <3> QED BY <2>3, <3>2, <3>3 DEF FirstDepth
  <2>5. CASE latest_depth.fresh
    BY <2>1, <2>3, <2>5 DEF FirstDepth
  <2>6. CASE waited <= DepthLag + 1 /\ \E i \in DOMAIN depth_wire : depth_wire[i].age = waited - 1
    <3>1. PICK i \in DOMAIN depth_wire : depth_wire[i].age = waited - 1
      BY <2>6
    <3>2. i \in DOMAIN depth_wire' /\ depth_wire'[i].age = depth_wire[i].age + 1
      BY <1>5, DepthTick
    <3>3. waited - 1 < DepthLag
      BY <2>1, <3>1
    <3>4. waited' = waited + 1 /\ waited' <= DepthLag + 1
      BY <1>1, <2>1, <3>3
    <3>5. depth_wire'[i].age = waited' - 1
      BY <1>1, <3>1, <3>2, <3>4
    <3> QED BY <2>3, <3>2, <3>4, <3>5 DEF FirstDepth
  <2> QED BY <1>5, <2>4, <2>5, <2>6 DEF FirstDepth
<1>6. ASSUME phase = "capture", ~moved, OnDepth PROVE FirstDepth'
  <2>1. waited' = waited
    BY <1>6, OnDepthEffect DEF call
  <2>2. \A i \in DOMAIN depth_wire : depth_wire[i].age < waited => depth_wire[i].fresh
    BY <1>6 DEF FirstDepth
  <2>3. \A i \in DOMAIN depth_wire' : depth_wire'[i].age < waited' => depth_wire'[i].fresh
    BY <1>6, <2>1, <2>2, DepthArrives
  <2>4. 1 \in DOMAIN depth_wire /\ latest_depth'.fresh = depth_wire[1].fresh
    BY <1>6, DepthArrives
  <2>5. CASE waited = 0
    BY <2>1, <2>3, <2>5 DEF FirstDepth
  <2>6. CASE latest_depth.fresh
    BY <2>3, <2>4, <2>6 DEF FirstDepth, FreshInOrder
  <2>7. CASE waited <= DepthLag + 1 /\ \E i \in DOMAIN depth_wire : depth_wire[i].age = waited - 1
    <3>1. PICK i \in DOMAIN depth_wire : depth_wire[i].age = waited - 1
      BY <2>7
    <3>2. CASE i = 1
      <4>1. depth_wire[1].age < waited
        BY <1>1, <3>1, <3>2
      <4> QED BY <2>2, <2>3, <2>4, <4>1 DEF FirstDepth
    <3>3. CASE i - 1 \in DOMAIN depth_wire' /\ depth_wire'[i - 1] = depth_wire[i]
      <4>1. \E k \in DOMAIN depth_wire' : depth_wire'[k].age = waited' - 1
        BY <2>1, <3>1, <3>3
      <4> QED BY <2>1, <2>3, <2>7, <4>1 DEF FirstDepth
    <3> QED BY <1>6, <3>2, <3>3, DepthArrives
  <2> QED BY <1>6, <2>5, <2>6, <2>7 DEF FirstDepth
<1>7. CASE ~(phase' = "capture" /\ ~moved')
  BY <1>7 DEF FirstDepth
<1>8. CASE SceneChanges
  BY <1>7, <1>8, SceneChangesEffect
<1>9. CASE /\ phase' = phase /\ waited' = waited /\ moved' = moved
           /\ depth_wire' = depth_wire /\ latest_depth' = latest_depth
  BY <1>9 DEF FirstDepth
<1>10. CASE Tick
  BY <1>5, <1>7, <1>10, TickEffect
<1>11. CASE OnDepth
  BY <1>6, <1>7, <1>11, OnDepthEffect DEF call
<1> QED BY <1>2, <1>3, <1>4, <1>8, <1>9, <1>10, <1>11, DepthElse, PhaseElse

LEMMA DepthTakenStep ==
  ASSUME ~DepthMayStall, DepthLag + 2 <= Capture_timeout, DepthLag + 2 <= Num_capture_frames,
         Type, Paced, FreshInOrder, FirstDepth, DepthTaken, [Next]_vars
  PROVE  DepthTaken'
<1>1. /\ waited \in Nat /\ DepthLag \in Nat /\ Capture_timeout \in Nat /\ Num_capture_frames \in Nat
      /\ collected \in Nat
  BY PerceptionAssumption DEF Type
<1>2. CASE CaptureEnds
  <2>1. /\ phase = "capture" /\ (collected = Num_capture_frames \/ waited >= Capture_timeout)
        /\ moved' = moved /\ latest_depth' = latest_depth /\ phase' \in {"idle", "depth"}
    BY <1>2, CaptureEffect DEF Fail
  <2>2. PICK p \in {0, 1} : p = Pending
    BY DEF Pending
  <2>3. waited <= Capture_timeout => collected + p <= waited
    BY <2>1, <2>2 DEF Paced
  <2>4. waited >= DepthLag + 2
    <3>1. CASE waited >= Capture_timeout
      BY <1>1, <3>1
    <3>2. CASE waited <= Capture_timeout /\ collected = Num_capture_frames
      BY <1>1, <2>3, <3>2
    <3> QED BY <1>1, <2>1, <3>1, <3>2
  <2>5. waited # 0 /\ ~(waited <= DepthLag + 1)
    BY <1>1, <2>4
  <2>6. ~moved => latest_depth.fresh
    BY <2>1, <2>5 DEF FirstDepth
  <2> QED BY <2>1, <2>6 DEF DepthTaken
<1>3. CASE TakeDepth \/ (\E answer \in PoseAnswers : AskPose(answer))
             \/ (\E row \in PixelRows : Answer(row)) \/ Return \/ Refuse
  <2>1. /\ \/ phase' = "idle"
           \/ /\ phase' \in {"tcp", "transform", "answered"}
              /\ \/ phase = "depth" /\ depth' = latest_depth
                 \/ phase \in {"tcp", "transform"} /\ depth' = depth
        /\ moved' = moved
    BY <1>3, HandlerRest DEF Fail
  <2> QED BY <2>1 DEF DepthTaken
<1>4. CASE Trigger
  BY <1>4 DEF Trigger, DepthTaken
<1>5. CASE SceneChanges
  BY <1>5, SceneChangesEffect DEF DepthTaken
<1>6. CASE phase' = phase /\ moved' = moved /\ depth' = depth /\ (latest_depth.fresh => latest_depth'.fresh)
  BY <1>6 DEF DepthTaken
<1>7. latest_depth.fresh /\ ~SceneChanges => latest_depth'.fresh
  <2>1. CASE Tick
    BY <2>1, TickEffect DEF caches
  <2>2. CASE OnDepth
    BY <2>2, DepthArrives DEF FreshInOrder
  <2>3. CASE ~Tick /\ ~SceneChanges /\ ~OnDepth
    BY <2>3, DepthElse
  <2> QED BY <2>1, <2>2, <2>3
<1> QED BY <1>2, <1>3, <1>4, <1>5, <1>6, <1>7, PhaseElse

LEMMA DepthInit == Init => DepthInv
<1> SUFFICES ASSUME Init PROVE DepthInv
  OBVIOUS
<1>1. /\ colour_wire = << >> /\ depth_wire = << >>
  BY DEF Init
<1>2. phase = "idle" /\ latest_depth = NoFrame
  BY DEF Init
<1>3. DOMAIN colour_wire = {} /\ DOMAIN depth_wire = {}
  BY <1>1
<1>4. InOrder(colour_wire) /\ OnWire
  BY <1>3 DEF InOrder, OnWire
<1>5. FreshInOrder
  BY <1>2, <1>3, NoFrameTyped DEF FreshInOrder
<1>6. Paced /\ FirstDepth /\ DepthTaken
  BY <1>2 DEF Paced, FirstDepth, DepthTaken
<1> QED BY <1>4, <1>5, <1>6, InitTyped, StampsInit DEF DepthInv, ColourInv

THEOREM DepthInvariant ==
  ASSUME ~DepthMayStall, DepthLag + 2 <= Capture_timeout, DepthLag + 2 <= Num_capture_frames
  PROVE  Spec => []DepthInv
<1>1. DepthInv /\ [Next]_vars => DepthInv'
  <2> SUFFICES ASSUME DepthInv, [Next]_vars PROVE DepthInv'
    OBVIOUS
  <2>1. Type /\ Stamps /\ InOrder(colour_wire) /\ Paced /\ OnWire /\ FreshInOrder /\ FirstDepth /\ DepthTaken
    BY DEF DepthInv, ColourInv
  <2>2. Type' /\ Stamps' /\ InOrder(colour_wire)' /\ Paced'
    BY <2>1, TypeStep, StampsStep, ColourInOrder, PacedStep
  <2>3. OnWire' /\ FreshInOrder' /\ FirstDepth' /\ DepthTaken'
    BY <2>1, OnWireStep, FreshInOrderStep, FirstDepthStep, DepthTakenStep
  <2> QED BY <2>2, <2>3 DEF DepthInv, ColourInv
<1> QED BY <1>1, DepthInit, PTL DEF Spec

(* With a depth stream that does not stall, and a capture of at least      *)
(* DepthLag + 2 frame periods, in its frames and in its timeout, the depth *)
(* frame taken at its end shows the scene of the colour frames, unless that*)
(* changed during the call (_handle_detect_once).                          *)
THEOREM DepthIsCurrent ==
  ASSUME ~DepthMayStall, DepthLag + 2 <= Capture_timeout, DepthLag + 2 <= Num_capture_frames
  PROVE  Spec => []DepthOfThisScene
<1>1. DepthInv => DepthOfThisScene
  BY DEF DepthInv, DepthTaken, DepthOfThisScene
<1> QED BY <1>1, DepthInvariant, PTL
-----------------------------------------------------------------------------
(* The median of a finite list, doubled, is the sum of two of its members. *)
LEMMA CountTyped ==
  ASSUME NEW xs, IsFiniteSet(DOMAIN xs), NEW v
  PROVE  Upto(xs, v) \in Nat
<1>1. IsFiniteSet({ i \in DOMAIN xs : xs[i] <= v })
  BY FS_Subset
<1> QED BY <1>1, FS_CardinalityType DEF Upto

LEMMA NthIsThere ==
  ASSUME NEW xs, IsFiniteSet(DOMAIN xs), \A i \in DOMAIN xs : xs[i] \in Int,
         NEW lo \in Int, NEW hi \in Int, \A i \in DOMAIN xs : lo <= xs[i] /\ xs[i] <= hi, lo <= hi,
         NEW k \in 1 .. Cardinality(DOMAIN xs)
  PROVE  Nth(xs, k) \in Range(xs)
<1> DEFINE S == { v \in Nat : k <= Upto(xs, lo + v) }
<1>1. Cardinality(DOMAIN xs) \in Nat /\ k \in Nat /\ 1 <= k /\ k <= Cardinality(DOMAIN xs)
  BY FS_CardinalityType
<1>2. hi - lo \in S
  <2>1. { i \in DOMAIN xs : xs[i] <= lo + (hi - lo) } = DOMAIN xs
    OBVIOUS
  <2> QED BY <1>1, <2>1 DEF Upto
<1>3. PICK u \in S : \A w \in S : u <= w
  BY <1>2, Least
<1> DEFINE v == lo + u
<1>4. Below(xs, v) < k
  <2>1. CASE u = 0
    <3>1. { i \in DOMAIN xs : xs[i] < v } = {}
      BY <2>1
    <3> QED BY <1>1, <3>1, FS_EmptySet DEF Below
  <2>2. CASE u # 0
    <3>1. u - 1 \in Nat /\ u - 1 \notin S
      BY <1>3, <2>2
    <3>2. { i \in DOMAIN xs : xs[i] < v } = { i \in DOMAIN xs : xs[i] <= lo + (u - 1) }
      BY <1>3
    <3>3. Below(xs, v) = Upto(xs, lo + (u - 1))
      BY <3>2 DEF Below, Upto
    <3> QED BY <1>1, <3>1, <3>3, CountTyped
  <2> QED BY <2>1, <2>2
<1>5. v \in Range(xs)
  <2> SUFFICES ASSUME v \notin Range(xs) PROVE FALSE
    OBVIOUS
  <2>1. \A i \in DOMAIN xs : xs[i] # v
    BY DEF Range
  <2>2. { i \in DOMAIN xs : xs[i] < v } = { i \in DOMAIN xs : xs[i] <= v }
    BY <1>3, <2>1
  <2>3. Below(xs, v) = Upto(xs, v)
    BY <2>2 DEF Below, Upto
  <2> QED BY <1>1, <1>3, <1>4, <2>3, CountTyped
<1>6. \E w \in Range(xs) : Below(xs, w) < k /\ k <= Upto(xs, w)
  BY <1>3, <1>4, <1>5
<1> QED BY <1>6 DEF Nth

LEMMA MedianOfTwo ==
  ASSUME NEW xs, IsFiniteSet(DOMAIN xs), DOMAIN xs # {}, \A i \in DOMAIN xs : xs[i] \in Int,
         NEW lo \in Int, NEW hi \in Int, \A i \in DOMAIN xs : lo <= xs[i] /\ xs[i] <= hi
  PROVE  \E i, j \in DOMAIN xs : Median2(xs) = xs[i] + xs[j]
<1> DEFINE n == Cardinality(DOMAIN xs)
<1>1. n \in Nat /\ n # 0 /\ lo <= hi
  BY FS_CardinalityType, FS_EmptySet
<1>2. \A k \in 1 .. n : Nth(xs, k) \in Range(xs)
  BY <1>1, NthIsThere
<1>3. Median2(xs) = Nth(xs, (n + 1) \div 2) + Nth(xs, n \div 2 + 1)
  BY DEF Median2
<1> HIDE DEF n
<1>4. (n + 1) \div 2 \in 1 .. n /\ n \div 2 + 1 \in 1 .. n
  BY <1>1
<1>5. Nth(xs, (n + 1) \div 2) \in Range(xs) /\ Nth(xs, n \div 2 + 1) \in Range(xs)
  BY <1>2, <1>4
<1> QED BY <1>3, <1>5 DEF Range


(* A measured box is as deep as the camera can measure.                    *)
LEMMA MedianInRange ==
  ASSUME NEW row \in Seq(Nat), Measured(row)
  PROVE  /\ Median2(InRange(row)) \in Nat
         /\ 2 * Min_depth_camera <= Median2(InRange(row))
         /\ Median2(InRange(row)) <= 2 * Max_depth_camera
<1> DEFINE r == InRange(row)
<1>1. /\ DOMAIN r \subseteq 1 .. Len(row) /\ DOMAIN r # {}
      /\ \A i \in DOMAIN r : r[i] \in Nat /\ Min_depth_camera <= r[i] /\ r[i] <= Max_depth_camera
  BY DEF InRange, Restrict, Measured
<1>2. Min_depth_camera \in Nat /\ Max_depth_camera \in Nat
  BY PerceptionAssumption
<1> HIDE DEF r
<1>3. IsFiniteSet(DOMAIN r)
  <2>1. IsFiniteSet(1 .. Len(row))
    BY FS_Interval
  <2> QED BY <1>1, <2>1, FS_Subset
<1>4. PICK i \in DOMAIN r, j \in DOMAIN r : Median2(r) = r[i] + r[j]
  BY <1>1, <1>2, <1>3, MedianOfTwo
<1>5. Median2(r) \in Nat /\ 2 * Min_depth_camera <= Median2(r) /\ Median2(r) <= 2 * Max_depth_camera
  BY <1>1, <1>2, <1>4
<1> QED BY <1>5 DEF r

(* The camera looks at the table from above all it can measure.            *)
LEMMA ObjectAboveTable ==
  ASSUME Min_depth_base <= CameraHeight - Min_depth_camera + Depth_offset,
         NEW d, NEW row \in Seq(Nat), Object(d, row).transform_valid
  PROVE  /\ 2 * Min_depth_base <= Object(d, row).z2
         /\ Object(d, row).z2 <= 2 * (CameraHeight - Min_depth_camera + Depth_offset)
<1>1. Measured(row) /\ Object(d, row).z2 = BaseZ2(row)
  BY DEF Object
<1>2. PICK m \in Nat : m = Median2(InRange(row)) /\ 2 * Min_depth_camera <= m
  BY <1>1, MedianInRange
<1>3. BaseZ2(row) = IF 2 * CameraHeight - m + 2 * Depth_offset >= 2 * Min_depth_base
                      THEN 2 * CameraHeight - m + 2 * Depth_offset ELSE 2 * Min_depth_base
  BY <1>2 DEF BaseZ2
<1>4. CameraHeight \in Int /\ Depth_offset \in Int /\ Min_depth_base \in Int /\ Min_depth_camera \in Int
  BY PerceptionAssumption
<1>5. /\ 2 * Min_depth_base <= BaseZ2(row)
      /\ BaseZ2(row) <= 2 * (CameraHeight - Min_depth_camera + Depth_offset)
  BY <1>2, <1>3, <1>4
<1> QED BY <1>1, <1>5

(* A hole in the depth image is never taken for a measurement, whatever the*)
(* pixels of a box are, when the camera hangs high enough that the nearest *)
(* depth it can measure lies above the lowest pick                         *)
(* (median_inside_obb, the clamp of _handle_detect_once).                  *)
THEOREM HolesAreLeftOut ==
  ASSUME Min_depth_base <= CameraHeight - Min_depth_camera + Depth_offset
  PROVE  Spec => []HolesAreNotNuts
<1>1. Init => HolesAreNotNuts
  <2> SUFFICES ASSUME Init PROVE HolesAreNotNuts
    OBVIOUS
  <2>1. response = NoResponse
    BY DEF Init
  <2> QED BY <2>1 DEF NoResponse, HolesAreNotNuts
<1>2. HolesAreNotNuts /\ [Next]_vars => HolesAreNotNuts'
  <2> SUFFICES ASSUME HolesAreNotNuts, [Next]_vars PROVE HolesAreNotNuts'
    OBVIOUS
  <2>1. CASE response' = response
    BY <2>1 DEF HolesAreNotNuts
  <2>2. CASE response' = NoResponse
    BY <2>2 DEF HolesAreNotNuts, NoResponse
  <2>3. ASSUME NEW row \in PixelRows, Answer(row) PROVE HolesAreNotNuts'
    <3>1. response'.objects = { Object(d, row) : d \in Fuse(buffer) }
      BY <2>3 DEF Answer
    <3>2. row \in Seq(Nat)
      BY PerceptionAssumption
    <3> QED BY <3>1, <3>2, ObjectAboveTable DEF HolesAreNotNuts
  <2>4. CASE CaptureEnds \/ TakeDepth \/ (\E answer \in PoseAnswers : AskPose(answer))
    BY <2>1, <2>2, <2>4 DEF CaptureEnds, CaptureOver, TakeDepth, AskPose, Fail
  <2>5. CASE Trigger \/ Refuse \/ Return
    BY <2>2, <2>5 DEF Trigger, Refuse, Return, Fail
  <2>6. CASE Tick \/ SceneChanges \/ OnColor \/ OnDepth \/ OnCameraInfo \/ Infer \/ ColorUnreadable
             \/ UNCHANGED vars
    BY <2>1, <2>6 DEF Tick, SceneChanges, OnColor, OnDepth, OnCameraInfo, Infer, ColorUnreadable, vars, call
  <2> QED BY <2>3, <2>4, <2>5, <2>6, StepCases
<1> QED BY <1>1, <1>2, PTL DEF Spec

-----------------------------------------------------------------------------
(* What a recursive definition stands for: a value is there after each of  *)
(* n steps.  The step is a function, so that the lemma can be cited for any*)
(* definition.                                                             *)
Iterates(f, n, S, a, step) ==
  f \in [0 .. n -> S] /\ f[0] = a /\ \A i \in 1 .. n : f[i] = step[i][f[i - 1]]

LEMMA Iteration ==
  ASSUME NEW n \in Nat, NEW S, NEW a \in S, NEW step \in [1 .. n -> [S -> S]]
  PROVE  \E f : Iterates(f, n, S, a, step)
<1> DEFINE Good(k) == \E f \in [0 .. k -> S] : f[0] = a /\ \A i \in 1 .. k : f[i] = step[i][f[i - 1]]
           Bad == { k \in 0 .. n : ~Good(k) }
<1> SUFFICES Good(n)
  BY DEF Iterates
<1>1. SUFFICES ASSUME Bad # {} PROVE FALSE
  <2> HIDE DEF Good
  <2>1. n \in 0 .. n
    OBVIOUS
  <2> QED BY <2>1
<1>2. PICK m \in Bad : \A k \in Bad : m <= k
  BY <1>1, Least, Bad \in SUBSET Nat
<1>3. Good(0)
  <2>1. [i \in 0 .. 0 |-> a] \in [0 .. 0 -> S] /\ [i \in 0 .. 0 |-> a][0] = a /\ 1 .. 0 = {}
    OBVIOUS
  <2> QED BY <2>1
<1>4. m \in 1 .. n /\ m - 1 \in 0 .. n /\ m - 1 \notin Bad
  <2> HIDE DEF Good
  <2>1. m \in 0 .. n /\ m # 0
    BY <1>2, <1>3
  <2> QED BY <1>2, <2>1
<1>5. PICK f \in [0 .. m - 1 -> S] : f[0] = a /\ \A i \in 1 .. m - 1 : f[i] = step[i][f[i - 1]]
  BY <1>4
<1> DEFINE g == [i \in 0 .. m |-> IF i = m THEN step[m][f[m - 1]] ELSE f[i]]
<1>6. step[m][f[m - 1]] \in S
  BY <1>4, <1>5
<1>7. g \in [0 .. m -> S]
  BY <1>4, <1>5, <1>6
<1>8. g[0] = a
  BY <1>4, <1>5
<1>9. ASSUME NEW i \in 1 .. m PROVE g[i] = step[i][g[i - 1]]
  <2>1. CASE i = m
    BY <1>4, <2>1
  <2>2. CASE i # m
    <3>1. i \in 1 .. m - 1 /\ i \in 0 .. m /\ i - 1 \in 0 .. m /\ i - 1 # m
      BY <1>4, <2>2
    <3>2. g[i] = f[i] /\ g[i - 1] = f[i - 1]
      BY <2>2, <3>1
    <3> QED BY <1>5, <3>1, <3>2
  <2> QED BY <2>1, <2>2
<1> HIDE DEF g
<1>10. Good(m)
  BY <1>7, <1>8, <1>9
<1> QED BY <1>2, <1>10

(* The sums SumFunction is made of, over the subsets of S.                 *)
IsTotal(iter, f, S) ==
  iter = [s \in SUBSET S |->
            IF s = {} THEN 0 ELSE LET x == CHOOSE x \in s : TRUE IN f[x] + iter[s \ {x}]]

LEMMA SumIsTotal ==
  ASSUME NEW f
  PROVE  SumFunction(f) = (CHOOSE iter : IsTotal(iter, f, DOMAIN f))[DOMAIN f]
BY DEF SumFunction, SumFunctionOnSet, FoldFunctionOnSet, MapThenFoldSet, IsTotal

LEMMA TotalExists ==
  ASSUME NEW S, IsFiniteSet(S), NEW f, \A x \in S : f[x] \in Int
  PROVE  \E iter : IsTotal(iter, f, S)
<1> DEFINE n == Cardinality(S)
           V == [SUBSET S -> Int]
           First(s) == CHOOSE x \in s : TRUE
           a == [s \in SUBSET S |-> 0]
           next(g) == [s \in SUBSET S |-> IF s = {} THEN 0 ELSE f[First(s)] + g[s \ {First(s)}]]
           step == [i \in 1 .. n |-> [g \in V |-> next(g)]]
<1>1. n \in Nat /\ a \in V
  BY FS_CardinalityType
<1>2. \A s \in SUBSET S : s # {} => First(s) \in s /\ First(s) \in S /\ s \ {First(s)} \in SUBSET S
  OBVIOUS
<1> HIDE DEF First
<1>3. ASSUME NEW g \in V PROVE next(g) \in V
  BY <1>2
<1>4. step \in [1 .. n -> [V -> V]]
  <2> HIDE DEF next, V
  <2> QED BY <1>3
<1>5. \A i \in 1 .. n : \A g \in V : step[i][g] = next(g)
  OBVIOUS
<1> HIDE DEF n, V, a, step, next
<1>6. PICK G : G[0] = a /\ \A i \in 1 .. n : G[i - 1] \in V /\ G[i] = step[i][G[i - 1]]
  <2>1. PICK G : Iterates(G, n, V, a, step)
    BY <1>1, <1>4, Iteration
  <2> QED BY <1>1, <2>1 DEF Iterates
<1> DEFINE sum == [s \in SUBSET S |-> G[Cardinality(s)][s]]
<1>7. ASSUME NEW s \in SUBSET S
      PROVE  sum[s] = IF s = {} THEN 0 ELSE f[First(s)] + sum[s \ {First(s)}]
  <2>1. CASE s = {}
    <3>1. Cardinality(s) = 0
      BY <2>1, FS_EmptySet
    <3> QED BY <1>6, <2>1, <3>1 DEF a
  <2>2. CASE s # {}
    <3> DEFINE k == Cardinality(s)
               t == s \ {First(s)}
    <3>1. IsFiniteSet(s) /\ k <= n
      BY FS_Subset DEF n
    <3>2. k \in Nat /\ k # 0
      BY <2>2, <3>1, FS_CardinalityType, FS_EmptySet
    <3>3. Cardinality(t) = k - 1 /\ t \in SUBSET S
      BY <1>2, <2>2, <3>1, FS_RemoveElement
    <3> HIDE DEF k, t
    <3>4. k \in 1 .. n /\ k - 1 \in 0 .. n
      BY <1>1, <3>1, <3>2
    <3>5. G[k] = next(G[k - 1])
      BY <1>5, <1>6, <3>4
    <3>6. G[k][s] = f[First(s)] + G[k - 1][t]
      BY <2>2, <3>5 DEF next, t
    <3>7. sum[t] = G[k - 1][t] /\ sum[s] = G[k][s]
      BY <3>3 DEF k
    <3> QED BY <2>2, <3>6, <3>7 DEF t
  <2> QED BY <2>1, <2>2
<1>8. sum = [s \in SUBSET S |-> IF s = {} THEN 0 ELSE f[First(s)] + sum[s \ {First(s)}]]
  BY <1>7
<1> HIDE DEF sum
<1>9. IsTotal(sum, f, S)
  BY <1>8 DEF IsTotal, First
<1> QED BY <1>9

(* A sum is bounded by what its terms are bounded by.                      *)
LEMMA SumBetween ==
  ASSUME NEW f, IsFiniteSet(DOMAIN f), \A x \in DOMAIN f : f[x] \in Int,
         NEW lo \in Int, NEW hi \in Int, \A x \in DOMAIN f : lo <= 2 * f[x] /\ 2 * f[x] <= hi
  PROVE  /\ SumFunction(f) \in Int
         /\ Cardinality(DOMAIN f) * lo <= 2 * SumFunction(f)
         /\ 2 * SumFunction(f) <= Cardinality(DOMAIN f) * hi
<1> DEFINE S == DOMAIN f
           First(s) == CHOOSE x \in s : TRUE
           iter == CHOOSE iter : IsTotal(iter, f, S)
<1>1. IsTotal(iter, f, S)
  BY TotalExists
<1> HIDE DEF iter
<1>2. \A s \in SUBSET S : iter[s] = IF s = {} THEN 0 ELSE f[First(s)] + iter[s \ {First(s)}]
  BY <1>1 DEF IsTotal
<1>3. \A s \in SUBSET S : s # {} => First(s) \in s /\ First(s) \in S /\ s \ {First(s)} \in SUBSET S
  OBVIOUS
<1> HIDE DEF First
<1>4. \A s \in SUBSET S : IsFiniteSet(s) /\ Cardinality(s) \in Nat
  BY FS_Subset, FS_CardinalityType
<1> DEFINE Bounded(s) == /\ iter[s] \in Int /\ Cardinality(s) * lo <= 2 * iter[s]
                         /\ 2 * iter[s] <= Cardinality(s) * hi
           Bad == { k \in Nat : \E s \in SUBSET S : Cardinality(s) = k /\ ~Bounded(s) }
<1>5. Bad = {}
  <2> SUFFICES ASSUME Bad # {} PROVE FALSE
    OBVIOUS
  <2>1. PICK m \in Bad : \A k \in Bad : m <= k
    BY Least, Bad \in SUBSET Nat
  <2>2. PICK s \in SUBSET S : Cardinality(s) = m /\ ~Bounded(s)
    BY <2>1
  <2>3. CASE s = {}
    <3>1. m = 0 /\ iter[s] = 0
      BY <1>2, <2>2, <2>3, FS_EmptySet
    <3>2. Cardinality(s) * lo = 0 /\ Cardinality(s) * hi = 0
      BY <2>2, <3>1
    <3> QED BY <2>2, <3>1, <3>2
  <2>4. CASE s # {}
    <3> DEFINE t == s \ {First(s)}
    <3>1. First(s) \in s /\ First(s) \in S /\ t \in SUBSET S /\ iter[s] = f[First(s)] + iter[t]
      BY <1>2, <1>3, <2>4
    <3>2. m \in Nat /\ m # 0
      BY <1>4, <2>2, <2>4, FS_EmptySet
    <3>3. Cardinality(t) = m - 1
      BY <1>4, <2>2, <3>1, FS_RemoveElement
    <3> HIDE DEF t
    <3>4. Bounded(t)
      BY <2>1, <3>1, <3>2, <3>3
    <3>5. PICK v \in Int : v = f[First(s)] /\ lo <= 2 * v /\ 2 * v <= hi
      BY <3>1
    <3>6. PICK w \in Int : w = iter[t] /\ (m - 1) * lo <= 2 * w /\ 2 * w <= (m - 1) * hi
      BY <3>3, <3>4
    <3>7. (m - 1) * lo + lo = m * lo /\ (m - 1) * hi + hi = m * hi
      BY <3>2
    <3>8. iter[s] = v + w /\ m * lo <= 2 * (v + w) /\ 2 * (v + w) <= m * hi
      BY <3>1, <3>2, <3>5, <3>6, <3>7
    <3> QED BY <2>2, <3>8
  <2> QED BY <2>3, <2>4
<1>6. Bounded(S)
  BY <1>4, <1>5
<1>7. SumFunction(f) = iter[S]
  BY SumIsTotal DEF iter
<1> QED BY <1>6, <1>7

-----------------------------------------------------------------------------
(* Flattening.                                                             *)
IsFlat(flatten, seqs) ==
  flatten = [i \in 1 .. Len(seqs) |-> IF i = 1 THEN seqs[i] ELSE flatten[i - 1] \o seqs[i]]

LEMMA FlatExists ==
  ASSUME NEW T, NEW seqs \in Seq(Seq(T))
  PROVE  \E flatten : IsFlat(flatten, seqs)
<1> DEFINE n == Len(seqs)
           S == Seq(T)
           step == [i \in 1 .. n |-> [x \in S |-> IF i = 1 THEN seqs[i] ELSE x \o seqs[i]]]
<1>1. n \in Nat /\ << >> \in S /\ \A i \in 1 .. n : seqs[i] \in S
  OBVIOUS
<1>2. \A i \in 1 .. n : \A x \in S : x \o seqs[i] \in S
  BY <1>1
<1>3. step \in [1 .. n -> [S -> S]]
  BY <1>1, <1>2
<1>4. \A i \in 1 .. n : \A x \in S : step[i][x] = IF i = 1 THEN seqs[i] ELSE x \o seqs[i]
  OBVIOUS
<1> HIDE DEF step, S
<1>5. PICK G : Iterates(G, n, S, << >>, step)
  BY <1>1, <1>3, Iteration
<1> DEFINE flatten == [i \in 1 .. n |-> G[i]]
<1>6. ASSUME NEW i \in 1 .. n
      PROVE  flatten[i] = IF i = 1 THEN seqs[i] ELSE flatten[i - 1] \o seqs[i]
  <2>1. i - 1 \in 0 .. n
    BY <1>1
  <2>2. G[i - 1] \in S /\ G[i] = step[i][G[i - 1]]
    BY <1>5, <2>1 DEF Iterates
  <2>3. G[i] = IF i = 1 THEN seqs[i] ELSE G[i - 1] \o seqs[i]
    BY <1>4, <2>2
  <2>4. i # 1 => i - 1 \in 1 .. n
    BY <1>1
  <2> QED BY <2>3, <2>4
<1>7. flatten = [i \in 1 .. n |-> IF i = 1 THEN seqs[i] ELSE flatten[i - 1] \o seqs[i]]
  BY <1>6
<1> HIDE DEF flatten
<1> QED BY <1>7 DEF IsFlat

(* It keeps what is in the sequences, and adds nothing.                    *)
Elements(seqs, k) == UNION { Range(seqs[i]) : i \in 1 .. k }

LEMMA RangeOfJoin ==
  ASSUME NEW T, NEW s \in Seq(T), NEW t \in Seq(T)
  PROVE  s \o t \in Seq(T) /\ Range(s \o t) = Range(s) \cup Range(t)
<1>1. /\ s \o t \in Seq(T) /\ DOMAIN (s \o t) = 1 .. Len(s) + Len(t)
      /\ DOMAIN s = 1 .. Len(s) /\ DOMAIN t = 1 .. Len(t) /\ Len(s) \in Nat /\ Len(t) \in Nat
  OBVIOUS
<1>2. \A i \in 1 .. Len(s) : i \in DOMAIN (s \o t) /\ (s \o t)[i] = s[i]
  BY <1>1
<1>3. \A i \in 1 .. Len(t) : Len(s) + i \in DOMAIN (s \o t) /\ (s \o t)[Len(s) + i] = t[i]
  BY <1>1
<1>4. \A i \in DOMAIN (s \o t) : \/ i \in 1 .. Len(s)
                                 \/ i - Len(s) \in 1 .. Len(t) /\ i = Len(s) + (i - Len(s))
  BY <1>1
<1>5. \A x \in Range(s \o t) : x \in Range(s) \cup Range(t)
  BY <1>1, <1>2, <1>3, <1>4 DEF Range
<1>6. \A x \in Range(s) \cup Range(t) : x \in Range(s \o t)
  BY <1>1, <1>2, <1>3 DEF Range
<1> QED BY <1>1, <1>5, <1>6

LEMMA FlattenKeeps ==
  ASSUME NEW T, NEW seqs \in Seq(Seq(T))
  PROVE  /\ FlattenSeq(seqs) \in Seq(T)
         /\ Range(FlattenSeq(seqs)) = UNION { Range(seqs[i]) : i \in DOMAIN seqs }
<1> DEFINE n == Len(seqs)
<1>1. n \in Nat /\ DOMAIN seqs = 1 .. n /\ \A i \in 1 .. n : seqs[i] \in Seq(T)
  OBVIOUS
<1>2. CASE n = 0
  <2>1. FlattenSeq(seqs) = seqs /\ seqs = << >> /\ DOMAIN seqs = {}
    BY <1>1, <1>2 DEF FlattenSeq
  <2>2. << >> \in Seq(T) /\ Range(seqs) = {}
    BY <2>1 DEF Range
  <2> QED BY <2>1, <2>2
<1>3. CASE n # 0
  <2> DEFINE flatten == CHOOSE flatten : IsFlat(flatten, seqs)
  <2>1. IsFlat(flatten, seqs)
    BY FlatExists
  <2>2. FlattenSeq(seqs) = flatten[n]
    BY <1>3 DEF FlattenSeq, IsFlat
  <2> HIDE DEF flatten
  <2>3. \A i \in 1 .. n : flatten[i] = IF i = 1 THEN seqs[i] ELSE flatten[i - 1] \o seqs[i]
    BY <2>1 DEF IsFlat
  <2> DEFINE Good(k) == flatten[k] \in Seq(T) /\ Range(flatten[k]) = Elements(seqs, k)
             Bad == { k \in 1 .. n : ~Good(k) }
  <2>4. Bad = {}
    <3> SUFFICES ASSUME Bad # {} PROVE FALSE
      OBVIOUS
    <3>1. PICK m \in Bad : \A k \in Bad : m <= k
      <4>1. Bad \in SUBSET Nat
        BY <1>1
      <4> HIDE DEF Bad
      <4> QED BY <4>1, Least
    <3>2. CASE m = 1
      <4>1. flatten[m] = seqs[1] /\ seqs[1] \in Seq(T)
        BY <1>1, <2>3, <3>1, <3>2
      <4>2. Elements(seqs, 1) = Range(seqs[1])
        <5>1. 1 .. 1 = {1}
          OBVIOUS
        <5> QED BY <5>1 DEF Elements
      <4> QED BY <3>1, <3>2, <4>1, <4>2
    <3>3. CASE m # 1
      <4>1. m \in 1 .. n /\ m - 1 \in 1 .. n /\ m - 1 \notin Bad
        <5> HIDE DEF Good
        <5>1. m \in 1 .. n
          BY <3>1
        <5>2. m - 1 \in 1 .. n /\ ~(m <= m - 1)
          BY <1>1, <3>3, <5>1
        <5> QED BY <3>1, <5>1, <5>2
      <4>2. Good(m - 1) /\ flatten[m] = flatten[m - 1] \o seqs[m] /\ seqs[m] \in Seq(T)
        BY <1>1, <2>3, <3>3, <4>1
      <4>3. flatten[m] \in Seq(T) /\ Range(flatten[m]) = Elements(seqs, m - 1) \cup Range(seqs[m])
        BY <4>2, RangeOfJoin
      <4>4. Elements(seqs, m) = Elements(seqs, m - 1) \cup Range(seqs[m])
        <5>1. 1 .. m = (1 .. m - 1) \cup {m}
          BY <4>1
        <5> QED BY <5>1 DEF Elements
      <4> QED BY <3>1, <4>3, <4>4
    <3> QED BY <3>2, <3>3
  <2>5. Good(n)
    <3> HIDE DEF Good
    <3>1. n \in 1 .. n
      BY <1>1, <1>3
    <3> QED BY <2>4, <3>1
  <2> QED BY <1>1, <2>2, <2>5 DEF Elements
<1> QED BY <1>2, <1>3

-----------------------------------------------------------------------------
(* Which nut a detection is of.                                            *)
Of(d, n) ==
  d.class = Class[n] /\ d.x \in Int /\ 2 * Absolute(d.x - Place[n]) <= Threshold(Class[n])

Detections == { d \in [class : Range(Class), x : Int] : \E n \in Nuts : Of(d, n) }

LEMMA Distances ==
  ASSUME NEW a \in Int
  PROVE  Absolute(a) \in Nat /\ -Absolute(a) <= a /\ a <= Absolute(a) /\ (Absolute(a) = a \/ Absolute(a) = -a)
BY DEF Absolute

LEMMA OfInterval ==
  ASSUME WellApart, NEW n \in Nuts, NEW d, Of(d, n)
  PROVE  /\ Place[n] \in Int /\ Threshold(Class[n]) \in Nat /\ d.x \in Int
         /\ 2 * Place[n] - Threshold(Class[n]) <= 2 * d.x
         /\ 2 * d.x <= 2 * Place[n] + Threshold(Class[n])
<1>1. PICK p \in Int, t \in Int, x \in Int : p = Place[n] /\ t = Threshold(Class[n]) /\ x = d.x
  BY DEF WellApart, Of
<1>2. 2 * Absolute(x - p) <= t
  BY <1>1 DEF Of
<1>3. Absolute(x - p) \in Nat /\ -Absolute(x - p) <= x - p /\ x - p <= Absolute(x - p)
  BY Distances
<1>4. t \in Nat /\ 2 * p - t <= 2 * x /\ 2 * x <= 2 * p + t
  BY <1>2, <1>3
<1> QED BY <1>1, <1>4

(* Two nuts of a class, the one or the other way round.                    *)
LEMMA FarApart ==
  ASSUME WellApart, NEW m \in Nuts, NEW n \in Nuts, m # n, Class[m] = Class[n]
  PROVE  \/ Place[m] - Place[n] > 2 * Threshold(Class[n])
         \/ Place[n] - Place[m] > 2 * Threshold(Class[n])
<1>1. Place[m] - Place[n] \in Int /\ Absolute(Place[m] - Place[n]) > 2 * Threshold(Class[n])
  BY DEF WellApart
<1>2. Place[m] \in Int /\ Place[n] \in Int /\ Threshold(Class[n]) \in Int
  BY DEF WellApart
<1> QED BY <1>1, <1>2, Distances

LEMMA OfOneNut ==
  ASSUME WellApart, NEW m \in Nuts, NEW n \in Nuts, NEW d, Of(d, m), Of(d, n)
  PROVE  m = n
<1> SUFFICES ASSUME m # n PROVE FALSE
  OBVIOUS
<1>1. Class[m] = Class[n]
  BY DEF Of
<1>2. PICK p \in Int, q \in Int, t \in Nat, x \in Int :
        p = Place[m] /\ q = Place[n] /\ t = Threshold(Class[n]) /\ x = d.x
  BY OfInterval
<1>3. 2 * p - t <= 2 * x /\ 2 * x <= 2 * p + t /\ 2 * q - t <= 2 * x /\ 2 * x <= 2 * q + t
  BY <1>1, <1>2, OfInterval
<1>4. p - q > 2 * t \/ q - p > 2 * t
  BY <1>1, <1>2, FarApart
<1> QED BY <1>3, <1>4

(* A cluster of one nut: it is not empty, and all of it is of that nut.    *)
ClusterOf(c, n) == c \in Seq(Detections) /\ c # << >> /\ \A k \in DOMAIN c : Of(c[k], n)

(* The sum of a cluster, and its distance to a detection.                  *)
LEMMA ClusterSum ==
  ASSUME WellApart, NEW m \in Nuts, NEW c, ClusterOf(c, m)
  PROVE  /\ SumFunction([i \in DOMAIN c |-> c[i].x]) \in Int
         /\ Len(c) \in Nat \ {0} /\ 1 \in DOMAIN c
         /\ Len(c) * (2 * Place[m] - Threshold(Class[m])) <= 2 * SumFunction([i \in DOMAIN c |-> c[i].x])
         /\ 2 * SumFunction([i \in DOMAIN c |-> c[i].x]) <= Len(c) * (2 * Place[m] + Threshold(Class[m]))
<1> DEFINE f == [i \in DOMAIN c |-> c[i].x]
           lo == 2 * Place[m] - Threshold(Class[m])
           hi == 2 * Place[m] + Threshold(Class[m])
<1>1. c \in Seq(Detections) /\ c # << >>
  BY DEF ClusterOf
<1>2. Len(c) \in Nat /\ Len(c) # 0 /\ DOMAIN c = 1 .. Len(c)
  BY <1>1
<1>3. 1 \in DOMAIN c /\ IsFiniteSet(DOMAIN c) /\ Cardinality(DOMAIN c) = Len(c)
  BY <1>2, FS_Interval
<1>4. \A i \in DOMAIN c : f[i] = c[i].x /\ f[i] \in Int /\ lo <= 2 * f[i] /\ 2 * f[i] <= hi
  BY OfInterval DEF ClusterOf
<1>5. lo \in Int /\ hi \in Int /\ DOMAIN f = DOMAIN c
  BY DEF WellApart
<1> HIDE DEF f, lo, hi
<1>6. /\ SumFunction(f) \in Int /\ Len(c) * lo <= 2 * SumFunction(f)
      /\ 2 * SumFunction(f) <= Len(c) * hi
  BY <1>3, <1>4, <1>5, SumBetween
<1> QED BY <1>2, <1>3, <1>6 DEF f, lo, hi

(* The first cluster that takes a detection is the one of its nut.         *)
LEMMA JoinsItsOwn ==
  ASSUME WellApart, NEW m \in Nuts, NEW n \in Nuts, NEW c, ClusterOf(c, m), NEW d, Of(d, n)
  PROVE  Joins(d, c) <=> m = n
<1>1. PICK k \in Nat \ {0}, s \in Int :
        k = Len(c) /\ s = SumFunction([i \in DOMAIN c |-> c[i].x])
  BY ClusterSum
<1>2. PICK p \in Int, q \in Int, t \in Int, x \in Int :
        p = Place[m] /\ q = Place[n] /\ t = Threshold(Class[n]) /\ x = d.x
  BY DEF WellApart, Of
<1>3. c[1].class = Class[m] /\ d.class = Class[n]
  BY ClusterSum DEF ClusterOf, Of
<1>4. Joins(d, c) <=> Class[n] = Class[m] /\ Absolute(x * k - s) <= t * k
  BY <1>1, <1>2, <1>3 DEF Joins, Spread
<1>5. 2 * q - t <= 2 * x /\ 2 * x <= 2 * q + t /\ t \in Nat
  BY <1>2, OfInterval
<1>6. CASE Class[m] # Class[n]
  BY <1>4, <1>6
<1>7. CASE Class[m] = Class[n]
  <2>1. k * (2 * p - t) <= 2 * s /\ 2 * s <= k * (2 * p + t)
    BY <1>1, <1>2, <1>7, ClusterSum
  <2>2. k * (2 * q - t) <= k * (2 * x) /\ k * (2 * x) <= k * (2 * q + t)
    BY <1>5
  <2>3. PICK kp \in Int, kq \in Int, kt \in Int, kx \in Int : kp = k * p /\ kq = k * q /\ kt = k * t /\ kx = k * x
    OBVIOUS
  <2>4. /\ k * (2 * p - t) = 2 * kp - kt /\ k * (2 * p + t) = 2 * kp + kt
        /\ k * (2 * q - t) = 2 * kq - kt /\ k * (2 * q + t) = 2 * kq + kt
        /\ k * (2 * x) = 2 * kx /\ x * k = kx /\ t * k = kt
    BY <2>3
  <2>5. 2 * kp - kt <= 2 * s /\ 2 * s <= 2 * kp + kt /\ 2 * kq - kt <= 2 * kx /\ 2 * kx <= 2 * kq + kt
    BY <2>1, <2>2, <2>4
  <2>6. Absolute(x * k - s) <= t * k <=> -kt <= kx - s /\ kx - s <= kt
    <3>1. Absolute(kx - s) = kx - s \/ Absolute(kx - s) = -(kx - s)
      BY Distances
    <3>2. Absolute(kx - s) \in Nat /\ -Absolute(kx - s) <= kx - s /\ kx - s <= Absolute(kx - s)
      BY Distances
    <3>3. x * k - s = kx - s /\ t * k = kt
      BY <2>4
    <3> QED BY <3>1, <3>2, <3>3
  <2>7. CASE m = n
    <3>1. kp = kq
      BY <1>2, <2>3, <2>7
    <3>2. -kt <= kx - s /\ kx - s <= kt
      BY <2>5, <3>1
    <3> QED BY <1>4, <1>7, <2>6, <2>7, <3>2
  <2>8. CASE m # n
    <3>1. p - q > 2 * t \/ q - p > 2 * t
      BY <1>2, <1>7, <2>8, FarApart
    <3>2. k * (p - q) = kp - kq /\ k * (q - p) = kq - kp /\ k * (2 * t) = 2 * kt
      BY <2>3
    <3>3. CASE p - q > 2 * t
      <4>1. k * (p - q) > k * (2 * t)
        BY <3>3
      <4>2. ~ (-kt <= kx - s)
        BY <2>5, <3>2, <4>1
      <4> QED BY <1>4, <2>6, <2>8, <4>2
    <3>4. CASE q - p > 2 * t
      <4>1. k * (q - p) > k * (2 * t)
        BY <3>4
      <4>2. ~ (kx - s <= kt)
        BY <2>5, <3>2, <4>1
      <4> QED BY <1>4, <2>6, <2>8, <4>2
    <3> QED BY <3>1, <3>3, <3>4
  <2> QED BY <2>7, <2>8
<1> QED BY <1>6, <1>7

(* The object a cluster becomes lies at the place of its nut.              *)
LEMMA FusedAtPlace ==
  ASSUME WellApart, NEW n \in Nuts, NEW c, ClusterOf(c, n)
  PROVE  /\ FuseOne(c).class = Class[n] /\ FuseOne(c).x2 \in Int
         /\ Absolute(FuseOne(c).x2 - 2 * Place[n]) <= Threshold(Class[n])
<1> DEFINE f == [i \in DOMAIN c |-> c[i].x]
<1>1. c \in Seq(Detections) /\ 1 \in DOMAIN c /\ Len(c) \in Nat /\ DOMAIN c = 1 .. Len(c)
  BY ClusterSum DEF ClusterOf
<1>2. PICK p \in Int, t \in Nat : p = Place[n] /\ t = Threshold(Class[n])
  BY <1>1, OfInterval DEF ClusterOf
<1>3. \A i \in DOMAIN c : f[i] \in Int /\ 2 * p - t <= 2 * f[i] /\ 2 * f[i] <= 2 * p + t
  BY <1>2, OfInterval DEF ClusterOf
<1>4. DOMAIN f = DOMAIN c /\ IsFiniteSet(DOMAIN f) /\ DOMAIN f # {}
  <2>1. IsFiniteSet(1 .. Len(c))
    BY <1>1, FS_Interval
  <2> QED BY <1>1, <2>1
<1> HIDE DEF f
<1>5. \A i \in DOMAIN f : f[i] \in Int /\ p - t <= f[i] /\ f[i] <= p + t
  BY <1>3, <1>4
<1>6. PICK i \in DOMAIN f, j \in DOMAIN f : Median2(f) = f[i] + f[j]
  <2>1. p - t \in Int /\ p + t \in Int
    OBVIOUS
  <2> QED BY <1>4, <1>5, <2>1, MedianOfTwo
<1>7. Median2(f) \in Int /\ 2 * p - t <= Median2(f) /\ Median2(f) <= 2 * p + t
  BY <1>3, <1>4, <1>6
<1>8. Absolute(Median2(f) - 2 * p) <= t
  <2>1. Median2(f) - 2 * p \in Int
    BY <1>7
  <2> QED BY <1>7, <2>1, Distances
<1>9. FuseOne(c).class = Class[n] /\ FuseOne(c).x2 = Median2(f)
  BY <1>1 DEF FuseOne, ClusterOf, Of, f
<1> QED BY <1>2, <1>7, <1>8, <1>9

-----------------------------------------------------------------------------
(* What fuse has made of the detections it has seen: a cluster for each nut*)
(* they are of, and everything seen is in one.                             *)
Sorted(clusters, seen) ==
  /\ clusters \in Seq(Seq(Detections))
  /\ \A j \in DOMAIN clusters : \E n \in Nuts : ClusterOf(clusters[j], n)
  /\ \A j, l \in DOMAIN clusters : \A n \in Nuts :
       ClusterOf(clusters[j], n) /\ ClusterOf(clusters[l], n) => j = l
  /\ \A d \in seen : \E j \in DOMAIN clusters : d \in Range(clusters[j])
  /\ \A j \in DOMAIN clusters : Range(clusters[j]) \subseteq seen

LEMMA NothingSorted == Sorted(<< >>, {})
<1>1. << >> \in Seq(Seq(Detections)) /\ DOMAIN << >> = {}
  OBVIOUS
<1> QED BY <1>1 DEF Sorted

Fits(clusters, d) == { i \in DOMAIN clusters : Joins(d, clusters[i]) }

LEMMA Place1Typed ==
  ASSUME NEW clusters \in Seq(Seq(Detections)), NEW d \in Detections
  PROVE  Place1(clusters, d) \in Seq(Seq(Detections))
<1>1. << d >> \in Seq(Detections)
  OBVIOUS
<1>2. CASE Fits(clusters, d) = {}
  <2>1. Place1(clusters, d) = Append(clusters, << d >>)
    BY <1>2 DEF Place1, Fits
  <2> QED BY <1>1, <2>1
<1>3. CASE Fits(clusters, d) # {}
  <2> DEFINE f == Min(Fits(clusters, d))
  <2>1. f \in Fits(clusters, d)
    <3>1. Fits(clusters, d) \in SUBSET Nat
      BY DEF Fits
    <3>2. \E x \in Fits(clusters, d) : \A y \in Fits(clusters, d) : x <= y
      BY <1>3, <3>1, Least
    <3> QED BY <3>2 DEF Min
  <2>2. Place1(clusters, d) = [clusters EXCEPT ![f] = Append(@, d)]
    BY <1>3 DEF Place1, Fits
  <2> HIDE DEF f
  <2>3. f \in DOMAIN clusters /\ clusters[f] \in Seq(Detections)
    BY <2>1 DEF Fits
  <2>4. Append(clusters[f], d) \in Seq(Detections)
    BY <2>3
  <2> QED BY <2>2, <2>3, <2>4
<1> QED BY <1>2, <1>3

LEMMA Extended ==
  ASSUME NEW c \in Seq(Detections), NEW d \in Detections
  PROVE  /\ Append(c, d) \in Seq(Detections) /\ Append(c, d) # << >>
         /\ Range(Append(c, d)) = Range(c) \cup {d}
         /\ \A k \in DOMAIN Append(c, d) : Append(c, d)[k] = d \/ (k \in DOMAIN c /\ Append(c, d)[k] = c[k])
<1>1. /\ Append(c, d) \in Seq(Detections) /\ Len(Append(c, d)) = Len(c) + 1 /\ Len(c) \in Nat
      /\ DOMAIN Append(c, d) = 1 .. Len(c) + 1 /\ DOMAIN c = 1 .. Len(c)
      /\ Append(c, d)[Len(c) + 1] = d /\ \A i \in 1 .. Len(c) : Append(c, d)[i] = c[i]
  OBVIOUS
<1>2. \A k \in DOMAIN Append(c, d) : Append(c, d)[k] = d \/ (k \in DOMAIN c /\ Append(c, d)[k] = c[k])
  BY <1>1
<1>3. \A k \in DOMAIN c : k \in DOMAIN Append(c, d) /\ Append(c, d)[k] = c[k]
  BY <1>1
<1>4. Len(c) + 1 \in DOMAIN Append(c, d)
  BY <1>1
<1>5. Range(Append(c, d)) \subseteq Range(c) \cup {d}
  BY <1>2 DEF Range
<1>6. Range(c) \cup {d} \subseteq Range(Append(c, d))
  BY <1>1, <1>3, <1>4 DEF Range
<1>7. Append(c, d) # << >>
  BY <1>1
<1> QED BY <1>1, <1>2, <1>5, <1>6, <1>7

(* A cluster is of one nut only.                                           *)
LEMMA ClusterOfOne ==
  ASSUME WellApart, NEW m \in Nuts, NEW n \in Nuts, NEW c, ClusterOf(c, m),
         NEW k \in DOMAIN c, Of(c[k], n)
  PROVE  m = n
BY OfOneNut DEF ClusterOf

LEMMA Place1Sorts ==
  ASSUME WellApart, NEW clusters, NEW seen, Sorted(clusters, seen), NEW d \in Detections
  PROVE  Sorted(Place1(clusters, d), seen \cup {d})
<1> DEFINE new == Place1(clusters, d)
           fits == Fits(clusters, d)
<1>1. PICK n \in Nuts : Of(d, n)
  BY DEF Detections
<1>2. /\ clusters \in Seq(Seq(Detections))
      /\ \A j \in DOMAIN clusters : clusters[j] \in Seq(Detections) /\ \E m \in Nuts : ClusterOf(clusters[j], m)
  BY DEF Sorted
<1>3. \A j \in DOMAIN clusters : Joins(d, clusters[j]) <=> ClusterOf(clusters[j], n)
  <2> SUFFICES ASSUME NEW j \in DOMAIN clusters
               PROVE  Joins(d, clusters[j]) <=> ClusterOf(clusters[j], n)
    OBVIOUS
  <2>1. PICK m \in Nuts : ClusterOf(clusters[j], m)
    BY <1>2
  <2>2. Joins(d, clusters[j]) <=> m = n
    BY <1>1, <2>1, JoinsItsOwn
  <2>3. ClusterOf(clusters[j], n) => m = n
    BY <2>1, ClusterSum, ClusterOfOne DEF ClusterOf
  <2> QED BY <2>1, <2>2, <2>3
<1>4. fits = { j \in DOMAIN clusters : ClusterOf(clusters[j], n) }
  BY <1>3 DEF Fits
<1>5. new \in Seq(Seq(Detections))
  BY <1>2, Place1Typed
<1>6. CASE fits = {}
  <2> DEFINE L == Len(clusters)
             one == << d >>
  <2>1. new = Append(clusters, one)
    BY <1>6 DEF Place1, Fits
  <2>2. one \in Seq(Detections) /\ one # << >> /\ DOMAIN one = {1} /\ one[1] = d
    OBVIOUS
  <2>3. ClusterOf(one, n) /\ Range(one) = {d}
    BY <1>1, <2>2 DEF ClusterOf, Range
  <2> HIDE DEF one
  <2>4. /\ DOMAIN new = 1 .. L + 1 /\ DOMAIN clusters = 1 .. L /\ L \in Nat /\ new[L + 1] = one
        /\ \A j \in 1 .. L : new[j] = clusters[j]
    BY <1>2, <2>1, <2>2
  <2> HIDE DEF new, L
  <2>5. \A j \in DOMAIN new : (j = L + 1 /\ new[j] = one) \/ (j \in DOMAIN clusters /\ new[j] = clusters[j])
    BY <2>4
  <2>6. \A j \in DOMAIN new : \E m \in Nuts : ClusterOf(new[j], m)
    BY <1>2, <2>3, <2>5
  <2>7. \A j \in DOMAIN clusters : j \in DOMAIN new /\ new[j] = clusters[j]
    BY <2>4
  <2>8. L + 1 \in DOMAIN new
    BY <2>4
  <2>9. \A m \in Nuts : ClusterOf(one, m) => m = n
    BY <1>1, <2>2, <2>3, ClusterOfOne DEF one
  <2>10. ASSUME NEW j \in DOMAIN new, NEW l \in DOMAIN new, NEW m \in Nuts,
                ClusterOf(new[j], m), ClusterOf(new[l], m)
         PROVE  j = l
    BY <1>4, <1>6, <2>5, <2>9, <2>10 DEF Sorted
  <2>11. \A e \in seen \cup {d} : \E j \in DOMAIN new : e \in Range(new[j])
    BY <2>3, <2>4, <2>7, <2>8 DEF Sorted
  <2>12. \A j \in DOMAIN new : Range(new[j]) \subseteq seen \cup {d}
    BY <2>3, <2>5 DEF Sorted
  <2> QED BY <1>5, <2>6, <2>10, <2>11, <2>12 DEF Sorted, new
<1>7. CASE fits # {}
  <2> DEFINE f == Min(fits)
             c == clusters[f]
             longer == Append(c, d)
  <2>1. f \in fits
    <3>1. fits \in SUBSET Nat
      BY <1>2 DEF Fits
    <3> HIDE DEF fits
    <3>2. \E x \in fits : \A y \in fits : x <= y
      BY <1>7, <3>1, Least
    <3> QED BY <3>2 DEF Min
  <2>2. new = [clusters EXCEPT ![f] = longer]
    BY <1>7 DEF Place1, Fits
  <2> HIDE DEF f
  <2>3. f \in DOMAIN clusters /\ ClusterOf(c, n) /\ c \in Seq(Detections)
    BY <1>2, <1>4, <2>1
  <2>4. ClusterOf(longer, n) /\ Range(longer) = Range(c) \cup {d}
    BY <1>1, <2>3, Extended DEF ClusterOf
  <2> HIDE DEF longer
  <2>5. /\ DOMAIN new = DOMAIN clusters
        /\ \A j \in DOMAIN new : (j = f /\ new[j] = longer) \/ (j # f /\ new[j] = clusters[j])
    BY <1>2, <2>2, <2>3
  <2>7. new[f] = longer /\ f \in DOMAIN new
    BY <2>3, <2>5
  <2> HIDE DEF new
  <2>6. \A j \in DOMAIN new : \E m \in Nuts : ClusterOf(new[j], m)
    BY <1>2, <2>4, <2>5
  <2>9. \A m \in Nuts : ClusterOf(longer, m) => m = n
    <3> SUFFICES ASSUME NEW m \in Nuts, ClusterOf(longer, m) PROVE m = n
      OBVIOUS
    <3>1. 1 \in DOMAIN longer /\ Of(longer[1], n)
      BY <2>4, ClusterSum DEF ClusterOf
    <3> QED BY <3>1, ClusterOfOne
  <2>10. ASSUME NEW j \in DOMAIN new, NEW l \in DOMAIN new, NEW m \in Nuts,
                ClusterOf(new[j], m), ClusterOf(new[l], m)
         PROVE  j = l
    BY <2>3, <2>5, <2>9, <2>10 DEF Sorted
  <2>11. \A e \in seen \cup {d} : \E j \in DOMAIN new : e \in Range(new[j])
    <3>1. d \in Range(new[f])
      BY <2>4, <2>7
    <3>2. ASSUME NEW e \in seen PROVE \E j \in DOMAIN new : e \in Range(new[j])
      <4>1. PICK j \in DOMAIN clusters : e \in Range(clusters[j])
        BY DEF Sorted
      <4>2. e \in Range(new[j])
        BY <2>4, <2>5, <4>1
      <4> QED BY <2>5, <4>1, <4>2
    <3> QED BY <2>7, <3>1, <3>2
  <2>12. \A j \in DOMAIN new : Range(new[j]) \subseteq seen \cup {d}
    BY <2>3, <2>4, <2>5 DEF Sorted
  <2> QED BY <1>5, <2>6, <2>10, <2>11, <2>12 DEF Sorted, new
<1> QED BY <1>6, <1>7

(* The recursion of ClustersOf.                                            *)
IsClusters(upto, flat) ==
  upto = [i \in 0 .. Len(flat) |->
            IF i = 0 THEN { << >> } ELSE { Place1(before, flat[i]) : before \in upto[i - 1] }]

LEMMA ClustersExist ==
  ASSUME NEW flat \in Seq(Detections)
  PROVE  \E upto : IsClusters(upto, flat)
<1> DEFINE n == Len(flat)
           S == SUBSET Seq(Seq(Detections))
           next(i, b) == { Place1(before, flat[i]) : before \in b }
           step == [i \in 1 .. n |-> [b \in S |-> next(i, b)]]
<1>1. n \in Nat /\ \A i \in 1 .. n : flat[i] \in Detections
  OBVIOUS
<1>2. { << >> } \in S
  OBVIOUS
<1>3. \A i \in 1 .. n : \A b \in S : next(i, b) \in S
  BY <1>1, Place1Typed
<1> HIDE DEF next, S
<1>4. step \in [1 .. n -> [S -> S]] /\ \A i \in 1 .. n : \A b \in S : step[i][b] = next(i, b)
  BY <1>3
<1> HIDE DEF step, n
<1>5. PICK G : Iterates(G, n, S, { << >> }, step)
  BY <1>1, <1>2, <1>4, Iteration
<1>6. ASSUME NEW i \in 0 .. n
      PROVE  G[i] = IF i = 0 THEN { << >> } ELSE next(i, G[i - 1])
  <2>1. CASE i = 0
    BY <1>5, <2>1 DEF Iterates
  <2>2. CASE i # 0
    <3>1. i \in 1 .. n /\ i - 1 \in 0 .. n
      BY <1>1, <2>2
    <3>2. G[i - 1] \in S /\ G[i] = step[i][G[i - 1]]
      BY <1>5, <3>1 DEF Iterates
    <3> QED BY <1>4, <2>2, <3>1, <3>2
  <2> QED BY <2>1, <2>2
<1>7. G = [i \in 0 .. n |-> G[i]]
  BY <1>5 DEF Iterates
<1>8. G = [i \in 0 .. n |-> IF i = 0 THEN { << >> } ELSE next(i, G[i - 1])]
  BY <1>6, <1>7
<1> QED BY <1>8 DEF IsClusters, n, next

(* fuse sorts whatever it is given by nuts.                                *)
LEMMA ClustersSort ==
  ASSUME WellApart, NEW flat \in Seq(Detections)
  PROVE  \E clusters : ClustersOf(flat) = {clusters} /\ Sorted(clusters, Range(flat))
<1> DEFINE n == Len(flat)
           upto == CHOOSE upto : IsClusters(upto, flat)
           next(i, b) == { Place1(before, flat[i]) : before \in b }
           Seen(k) == { flat[i] : i \in 1 .. k }
           Good(k) == \E clusters : upto[k] = {clusters} /\ Sorted(clusters, Seen(k))
           Bad == { k \in 0 .. n : ~Good(k) }
<1>1. n \in Nat /\ DOMAIN flat = 1 .. n /\ \A i \in 1 .. n : flat[i] \in Detections
  OBVIOUS
<1>2. IsClusters(upto, flat)
  BY ClustersExist
<1>3. ClustersOf(flat) = upto[n]
  BY DEF ClustersOf, IsClusters
<1> HIDE DEF upto
<1>4. upto = [i \in 0 .. n |-> IF i = 0 THEN { << >> } ELSE next(i, upto[i - 1])]
  BY <1>2 DEF IsClusters
<1>5. \A i \in 1 .. n : \A c : next(i, {c}) = {Place1(c, flat[i])}
  OBVIOUS
<1> HIDE DEF n, next
<1>6. Good(0)
  <2>1. Seen(0) = {}
    <3>1. 1 .. 0 = {}
      OBVIOUS
    <3> QED BY <3>1
  <2>2. upto[0] = { << >> }
    <3>1. 0 \in 0 .. n
      BY <1>1
    <3> QED BY <1>4, <3>1
  <2> QED BY <2>1, <2>2, NothingSorted
<1>7. ASSUME NEW k \in 1 .. n, Good(k - 1) PROVE Good(k)
  <2>1. PICK clusters : upto[k - 1] = {clusters} /\ Sorted(clusters, Seen(k - 1))
    BY <1>7
  <2>2. k \in 0 .. n /\ k # 0 /\ flat[k] \in Detections
    BY <1>1
  <2>3. upto[k] = {Place1(clusters, flat[k])}
    <3>1. upto[k] = next(k, upto[k - 1])
      BY <1>4, <2>2
    <3> QED BY <1>5, <2>1, <3>1
  <2>4. Seen(k) = Seen(k - 1) \cup {flat[k]}
    <3>1. 1 .. k = (1 .. k - 1) \cup {k}
      BY <1>1
    <3> QED BY <3>1
  <2> HIDE DEF Seen
  <2>5. Sorted(Place1(clusters, flat[k]), Seen(k))
    BY <2>1, <2>2, <2>4, Place1Sorts
  <2> QED BY <2>3, <2>5
<1> HIDE DEF Good
<1>8. Bad = {}
  <2> SUFFICES ASSUME Bad # {} PROVE FALSE
    OBVIOUS
  <2>1. PICK m \in Bad : \A k \in Bad : m <= k
    <3>1. Bad \in SUBSET Nat
      BY <1>1
    <3> HIDE DEF Bad
    <3> QED BY <3>1, Least
  <2>2. m \in 0 .. n /\ m # 0
    BY <1>6, <2>1
  <2>3. m \in 1 .. n /\ m - 1 \in 0 .. n /\ ~(m <= m - 1)
    BY <1>1, <2>2
  <2> QED BY <1>7, <2>1, <2>3
<1>9. Good(n)
  BY <1>1, <1>8
<1>10. Seen(n) = Range(flat)
  BY <1>1 DEF Range
<1> QED BY <1>3, <1>9, <1>10 DEF Good

-----------------------------------------------------------------------------
(* What one image shows are detections of the nuts.                        *)
LEMMA SetMadeSeq ==
  ASSUME NEW S, IsFiniteSet(S)
  PROVE  SetToSeq(S) \in Seq(S)
<1> DEFINE n == Cardinality(S)
<1>1. ExistsBijection(1 .. n, S) /\ n \in Nat
  BY FS_CardinalityType
<1>2. \E f \in [1 .. n -> S] : IsInjective(f)
  BY <1>1 DEF ExistsBijection, Bijection, Injection
<1> HIDE DEF n
<1>3. SetToSeq(S) \in [1 .. n -> S]
  BY <1>2 DEF SetToSeq, n
<1> QED BY <1>1, <1>3

LEMMA FoundAreDetections ==
  ASSUME WellApart, NEW found \in Found
  PROVE  found \in Seq(Detections)
<1> DEFINE image(seen, off) == SetToSeq({ [class |-> Class[n], x |-> Place[n] + off[n]] : n \in seen })
<1>1. Found = { image(seen, off) :
                  seen \in { Nuts \ missed : missed \in SUBSET Faint },
                  off \in { f \in [Nuts -> UNION Range(Jitter)] : \A n \in Nuts : f[n] \in Jitter[n] } }
  BY DEF Found
<1> HIDE DEF image
<1>2. PICK seen \in SUBSET Nuts, off \in [Nuts -> UNION Range(Jitter)] :
        (\A n \in Nuts : off[n] \in Jitter[n]) /\ found = image(seen, off)
  BY <1>1
<1> DEFINE item == [n \in seen |-> [class |-> Class[n], x |-> Place[n] + off[n]]]
           S == { [class |-> Class[n], x |-> Place[n] + off[n]] : n \in seen }
<1>3. item \in Surjection(seen, S)
  BY DEF Surjection
<1>4. IsFiniteSet(seen)
  BY FS_Subset DEF WellApart
<1>5. IsFiniteSet(S)
  BY <1>3, <1>4, FS_Surjection
<1>6. ASSUME NEW n \in seen
      PROVE  [class |-> Class[n], x |-> Place[n] + off[n]] \in Detections
  <2> DEFINE d == [class |-> Class[n], x |-> Place[n] + off[n]]
  <2>1. n \in Nuts /\ off[n] \in Int /\ Place[n] \in Int /\ 2 * Absolute(off[n]) <= Threshold(Class[n])
    BY <1>2 DEF WellApart
  <2>2. d.class = Class[n] /\ d.x = Place[n] + off[n] /\ d.x - Place[n] = off[n]
    BY <2>1
  <2>3. Of(d, n)
    BY <2>1, <2>2 DEF Of
  <2>4. Class[n] \in Range(Class)
    BY <2>1 DEF WellApart, Range
  <2> QED BY <2>1, <2>3, <2>4 DEF Detections
<1>7. S \subseteq Detections
  BY <1>6
<1> HIDE DEF S
<1>8. SetToSeq(S) \in Seq(S)
  BY <1>5, SetMadeSeq
<1>9. SetToSeq(S) \in Seq(Detections)
  BY <1>7, <1>8
<1> QED BY <1>2, <1>9 DEF S, image

(* What is fused is one object for each nut that is shown.                 *)
Seen(entries) == UNION { Range(entries[i].found) : i \in DOMAIN entries }

LEMMA FuseSorts ==
  ASSUME WellApart, NEW b \in Seq(Entries)
  PROVE  \E clusters : /\ Sorted(clusters, Seen(b))
                       /\ Fuse(b) = { FuseOne(c) : c \in Range(clusters) }
<1> DEFINE fs == [i \in DOMAIN b |-> b[i].found]
           flat == FlattenSeq(fs)
<1>1. Len(b) \in Nat /\ DOMAIN b = 1 .. Len(b) /\ \A i \in DOMAIN b : b[i] \in Entries
  OBVIOUS
<1>2. \A i \in DOMAIN b : b[i].found \in Seq(Detections)
  BY <1>1, FoundAreDetections DEF Entries
<1>3. fs \in Seq(Seq(Detections)) /\ DOMAIN fs = DOMAIN b /\ \A i \in DOMAIN b : fs[i] = b[i].found
  BY <1>1, <1>2
<1>4. Fuse(b) = UNION { { FuseOne(c) : c \in Range(clusters) } : clusters \in ClustersOf(flat) }
  BY DEF Fuse
<1> HIDE DEF fs
<1>5. flat \in Seq(Detections) /\ Range(flat) = Seen(b)
  BY <1>3, FlattenKeeps DEF Seen
<1> HIDE DEF flat
<1>6. PICK clusters : ClustersOf(flat) = {clusters} /\ Sorted(clusters, Range(flat))
  BY <1>5, ClustersSort
<1> QED BY <1>4, <1>5, <1>6

Close(o, n) == o.class = Class[n] /\ Absolute(o.x2 - 2 * Place[n]) <= Threshold(o.class)

Shown(entries, n) ==
  \E i \in DOMAIN entries : \E k \in DOMAIN entries[i].found :
    LET d == entries[i].found[k]
    IN  d.class = Class[n] /\ 2 * Absolute(d.x - Place[n]) <= Threshold(d.class)

LEMMA ShownIsSeen ==
  ASSUME WellApart, NEW b \in Seq(Entries), NEW n \in Nuts
  PROVE  Shown(b, n) <=> \E d \in Seen(b) : Of(d, n)
<1>1. \A i \in DOMAIN b : b[i].found \in Seq(Detections)
  <2>1. \A i \in DOMAIN b : b[i] \in Entries
    OBVIOUS
  <2> QED BY <2>1, FoundAreDetections DEF Entries
<1>2. \A i \in DOMAIN b : \A k \in DOMAIN b[i].found : b[i].found[k].x \in Int
  <2>1. \A i \in DOMAIN b : \A k \in DOMAIN b[i].found : b[i].found[k] \in Detections
    BY <1>1
  <2> QED BY <2>1 DEF Detections
<1>3. Shown(b, n) <=> \E i \in DOMAIN b : \E k \in DOMAIN b[i].found : Of(b[i].found[k], n)
  BY <1>2 DEF Shown, Of
<1> QED BY <1>3 DEF Seen, Range

(* An object close to two nuts: they are the same.                         *)
LEMMA CloseToOne ==
  ASSUME WellApart, NEW m \in Nuts, NEW n \in Nuts, NEW o, o.x2 \in Int, Close(o, m), Close(o, n)
  PROVE  m = n
<1> SUFFICES ASSUME m # n PROVE FALSE
  OBVIOUS
<1>1. Class[m] = Class[n] /\ o.class = Class[n]
  BY DEF Close
<1>2. PICK p \in Int, q \in Int, t \in Int, x \in Int :
        p = Place[m] /\ q = Place[n] /\ t = Threshold(Class[n]) /\ x = o.x2
  BY DEF WellApart
<1>3. Absolute(x - 2 * p) <= t /\ Absolute(x - 2 * q) <= t
  BY <1>1, <1>2 DEF Close
<1>4. p - q > 2 * t \/ q - p > 2 * t
  BY <1>1, <1>2, FarApart
<1>5. /\ Absolute(x - 2 * p) \in Nat /\ -Absolute(x - 2 * p) <= x - 2 * p /\ x - 2 * p <= Absolute(x - 2 * p)
      /\ Absolute(x - 2 * q) \in Nat /\ -Absolute(x - 2 * q) <= x - 2 * q /\ x - 2 * q <= Absolute(x - 2 * q)
  BY Distances
<1> QED BY <1>3, <1>4, <1>5

LEMMA OneEach ==
  ASSUME WellApart, NEW b \in Seq(Entries), NEW row, NEW objects,
         objects = { Object(d, row) : d \in Fuse(b) }
  PROVE  /\ \A n \in Nuts : Cardinality({ o \in objects : Close(o, n) }) = IF Shown(b, n) THEN 1 ELSE 0
         /\ \A o \in objects : \E n \in Nuts : Close(o, n)
<1>1. PICK clusters : Sorted(clusters, Seen(b)) /\ Fuse(b) = { FuseOne(c) : c \in Range(clusters) }
  BY FuseSorts
<1> DEFINE obj(j) == Object(FuseOne(clusters[j]), row)
<1>2. objects = { obj(j) : j \in DOMAIN clusters }
  BY <1>1 DEF Range
<1>3. ASSUME NEW j \in DOMAIN clusters, NEW n \in Nuts, ClusterOf(clusters[j], n)
      PROVE  obj(j).x2 \in Int /\ Close(obj(j), n)
  <2>1. obj(j).x2 = FuseOne(clusters[j]).x2 /\ obj(j).class = FuseOne(clusters[j]).class
    BY DEF Object
  <2> HIDE DEF obj
  <2> QED BY <1>3, <2>1, FusedAtPlace DEF Close
<1>4. \A j \in DOMAIN clusters : \E n \in Nuts : ClusterOf(clusters[j], n)
  BY <1>1 DEF Sorted
<1> HIDE DEF obj
<1>5. \A o \in objects : \E n \in Nuts : Close(o, n)
  BY <1>2, <1>3, <1>4
<1>6. ASSUME NEW n \in Nuts
      PROVE  Cardinality({ o \in objects : Close(o, n) }) = IF Shown(b, n) THEN 1 ELSE 0
  <2> DEFINE near == { o \in objects : Close(o, n) }
  <2>1. \A o \in near : \E j \in DOMAIN clusters : o = obj(j) /\ ClusterOf(clusters[j], n)
    <3> SUFFICES ASSUME NEW o \in near
                 PROVE  \E j \in DOMAIN clusters : o = obj(j) /\ ClusterOf(clusters[j], n)
      OBVIOUS
    <3>1. PICK j \in DOMAIN clusters : o = obj(j)
      BY <1>2
    <3>2. PICK m \in Nuts : ClusterOf(clusters[j], m)
      BY <1>4
    <3>3. m = n
      BY <1>3, <3>1, <3>2, CloseToOne
    <3> QED BY <3>1, <3>2, <3>3
  <2>2. CASE Shown(b, n)
    <3>1. PICK d \in Seen(b) : Of(d, n)
      BY <2>2, ShownIsSeen
    <3>2. PICK j \in DOMAIN clusters : d \in Range(clusters[j])
      BY <1>1 DEF Sorted
    <3>3. PICK m \in Nuts : ClusterOf(clusters[j], m)
      BY <1>4
    <3>4. ClusterOf(clusters[j], n)
      BY <3>1, <3>2, <3>3, ClusterOfOne DEF Range
    <3>5. obj(j) \in near
      BY <1>2, <1>3, <3>4
    <3>6. near = {obj(j)}
      BY <1>1, <2>1, <3>4, <3>5 DEF Sorted
    <3> QED BY <2>2, <3>6, FS_Singleton
  <2>3. CASE ~Shown(b, n)
    <3>1. near = {}
      <4> SUFFICES ASSUME NEW o \in near PROVE FALSE
        OBVIOUS
      <4>1. PICK j \in DOMAIN clusters : ClusterOf(clusters[j], n)
        BY <2>1
      <4>2. 1 \in DOMAIN clusters[j] /\ Of(clusters[j][1], n)
        BY <4>1, ClusterSum DEF ClusterOf
      <4>3. clusters[j][1] \in Seen(b)
        BY <1>1, <4>2 DEF Sorted, Range
      <4> QED BY <2>3, <4>2, <4>3, ShownIsSeen
    <3> QED BY <2>3, <3>1, FS_EmptySet
  <2> QED BY <2>2, <2>3
<1> QED BY <1>5, <1>6

(* An answer given is made of the frames in the buffer.                    *)
Answered ==
  phase = "answered" =>
    \E row \in PixelRows : response.objects = { Object(d, row) : d \in Fuse(buffer) }

LEMMA StaleFuses ==
  ASSUME NEW b \in Seq(Entries)
  PROVE  Fuse(Stale(b)) = Fuse(b)
<1>1. DOMAIN Stale(b) = DOMAIN b
  BY DEF Stale
<1>2. ASSUME NEW i \in DOMAIN b PROVE Stale(b)[i].found = b[i].found
  <2>1. b[i] \in Entries /\ Stale(b)[i] = [b[i] EXCEPT !.fresh = FALSE]
    BY DEF Stale
  <2> QED BY <2>1 DEF Entries
<1>3. [i \in DOMAIN Stale(b) |-> Stale(b)[i].found] = [i \in DOMAIN b |-> b[i].found]
  BY <1>1, <1>2
<1> QED BY <1>3 DEF Fuse

LEMMA AnsweredStep ==
  ASSUME Type, Answered, [Next]_vars
  PROVE  Answered'
<1>1. CASE phase' = phase /\ response' = response /\ buffer' = buffer
  BY <1>1 DEF Answered
<1>2. CASE phase' # "answered"
  BY <1>2 DEF Answered
<1>3. CASE Tick
  <2>1. phase' = phase /\ response' = response /\ (phase # "capture" => buffer' = buffer)
    BY <1>3 DEF Tick
  <2> QED BY <1>1, <1>2, <2>1
<1>4. CASE SceneChanges
  <2>1. phase' = phase /\ response' = response /\ buffer' = Stale(buffer)
    BY <1>4 DEF SceneChanges
  <2>2. Fuse(buffer)' = Fuse(buffer')
    BY DEF Fuse
  <2>3. Fuse(buffer') = Fuse(buffer)
    BY <2>1, StaleFuses DEF Type
  <2> QED BY <2>1, <2>2, <2>3 DEF Answered
<1>5. ASSUME NEW row \in PixelRows, Answer(row) PROVE Answered'
  <2>1. response'.objects = { Object(d, row) : d \in Fuse(buffer) } /\ buffer' = buffer
    BY <1>5 DEF Answer
  <2> QED BY <2>1 DEF Answered
<1>6. CASE OnColor \/ OnDepth \/ OnCameraInfo \/ UNCHANGED vars
  BY <1>1, <1>6 DEF OnColor, OnDepth, OnCameraInfo, vars, call
<1>7. CASE Infer \/ ColorUnreadable
  BY <1>2, <1>7 DEF Infer, ColorUnreadable, Capturing
<1>8. CASE Trigger \/ Refuse \/ CaptureEnds \/ TakeDepth \/ Return
           \/ (\E answer \in PoseAnswers : AskPose(answer))
  BY <1>2, <1>8 DEF Trigger, Refuse, CaptureEnds, CaptureOver, TakeDepth, Return, AskPose, Fail
<1> QED BY <1>3, <1>4, <1>5, <1>6, <1>7, <1>8, StepCases

(* When nuts are more than two thresholds apart and no detection is off by *)
(* more than half of one, every nut that some kept frame shows becomes one *)
(* object, at its place, and there are no others: in whatever order the    *)
(* detections come, however many frames and nuts there are, although a     *)
(* cluster's mean moves with each detection that joins it (fuse).          *)
THEOREM OneObjectEach ==
  ASSUME WellApart
  PROVE  Spec => []OneObjectPerNut
<1>1. Init => Answered
  BY DEF Init, Answered
<1>2. ColourInv /\ Answered /\ [Next]_vars => Answered'
  BY AnsweredStep DEF ColourInv
<1>3. ColourInv /\ Answered => OneObjectPerNut
  <2> SUFFICES ASSUME ColourInv, Answered, phase = "answered" PROVE OneObjectPerNut
    BY DEF OneObjectPerNut
  <2>1. PICK row \in PixelRows : response.objects = { Object(d, row) : d \in Fuse(buffer) }
    BY DEF Answered
  <2>2. buffer \in Seq(Entries)
    BY DEF ColourInv, Type
  <2>3. /\ \A n \in Nuts : Cardinality({ o \in response.objects : Close(o, n) }) =
                             IF Shown(buffer, n) THEN 1 ELSE 0
        /\ \A o \in response.objects : \E n \in Nuts : Close(o, n)
    BY <2>1, <2>2, OneEach
  <2> QED BY <2>3 DEF OneObjectPerNut, Close, Shown
<1> QED BY <1>1, <1>2, <1>3, ColourInvariant, PTL DEF Spec
=============================================================================
