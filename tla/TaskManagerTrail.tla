--------------------------- MODULE TaskManagerTrail ---------------------------
(***************************************************************************)
(* TaskManager with a history variable: what became of every attempt at a  *)
(* class since it was last picked, or since the book at hand was made.  It *)
(* is told from the answers of the detector, the gripper and the robot, and*)
(* knows nothing of the counters of the book.                              *)
(***************************************************************************)
EXTENDS TaskManager, FiniteSets

VARIABLE trail

trailVars == << vars, trail >>

Tally(attempts, outcome) == Cardinality({ i \in DOMAIN attempts : attempts[i] = outcome })

Note(outcome) == trail' = [trail EXCEPT ![target] = Append(@, outcome)]

TrailInit == Init /\ trail = [c \in Classes |-> << >>]

Noted ==
  \/ (DetectFails \/ NoCandidate) /\ Note("unseen")
  \/ SendPush /\ Note("pushed")
  \/ GraspMissed /\ Note("empty")
  \/ PickSucceeds /\ trail' = [trail EXCEPT ![target] = << >>]
  \/ (Start \/ FetchOrder \/ Recount) /\ trail' = [c \in Classes |-> << >>]

Unnoted ==
  \/ Stop \/ GoHome \/ InitialCount \/ PrepareFails
  \/ BeginIteration \/ Detected \/ SendPick
  \/ PushSucceeds \/ PushFails \/ PushUnavailable
  \/ (\E c \in HardCodes : PickFails(c)) \/ PickUnavailable
  \/ Stopped \/ BookDone \/ EnterRound \/ RecountFails \/ Finish

TrailNext == Noted \/ (Unnoted /\ UNCHANGED trail)

TrailSpec == TrailInit /\ [][TrailNext]_trailVars

(* Between cycles, and before the book of a round is made, there is none.  *)
HasBook == pc \notin {"idle", "recount"}

(* A class is given up exactly when, since its last nut, the detector      *)
(* failed to show it MaxDetectMisses times or the gripper closed on nothing*)
(* MaxGraspFailures times: not earlier, whatever the other classes, the    *)
(* pushes and the rounds before did, and it is never tried again           *)
(* (record_detect_miss, record_grasp_failure, consume_one, RetryPolicy).   *)
(* The misses need not follow one another: only a nut that was picked      *)
(* clears the counter of the code, although retry_policy.py:13 speaks of   *)
(* consecutive misses.                                                     *)
SkippedForCause ==
  HasBook =>
    \A c \in Classes :
      LET unseen == Tally(trail[c], "unseen")
          empty  == Tally(trail[c], "empty")
      IN  /\ unseen <= MaxDetectMisses /\ empty <= MaxGraspFailures
          /\ c \in Current.skipped <=> unseen = MaxDetectMisses \/ empty = MaxGraspFailures
=============================================================================
