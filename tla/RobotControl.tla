---------------------------- MODULE RobotControl ----------------------------
(***************************************************************************)
(* robot_control_node: the pick_and_place action server with its busy lock *)
(* and stop event, the two motion sequences it runs (pick-and-place, and   *)
(* the closed-gripper push of a cluster), the /robot/home and /robot/stop  *)
(* services, and the place_ready beacon.                                   *)
(*                                                                         *)
(* Every goal has a thread of its own; the stop handler (Stopper) and the  *)
(* 10 Hz publisher (Beacon) are two more.  A thread that reports on        *)
(* place_ready writes the flag under its lock, reads it back under the     *)
(* lock and publishes what it read with no lock held; call[t] is where     *)
(* thread t is in that.  arm, abreast and held are the world: they are read*)
(* only where the code reads a sensor.  A movement of the arm has no       *)
(* timeout: a thread in hung waits for one that never ends.                *)
(***************************************************************************)
EXTENDS Naturals, FiniteSets

CONSTANTS
  Goals,      (* the goals clients send, one thread each                   *)
  PushGoals,  (* those whose target_class is the cluster-push sentinel     *)
  NoGoal,     (* nobody: lock or gripper free                              *)
  Stopper,    (* the thread of the stop handler                            *)
  Beacon,     (* the thread of the place_ready timer                       *)
  PreGrasp,   (* pre_grasp_width_mm > 0                                    *)
  PlaceRow,   (* the goals whose points on the table have the y of the     *)
              (* place point, within place_y_margin_mm                     *)
  Silent,     (* moves and gripper commands may fail without an error      *)
  Cancellable,(* the goals whose client may cancel them                    *)
  MaxStops,   (* bound: calls of /robot/stop                               *)
  MaxHomes    (* bound: calls of /robot/home                               *)

ASSUME RobotControlAssumption ==
  /\ PushGoals \subseteq Goals /\ Cancellable \subseteq Goals /\ PlaceRow \subseteq Goals
  /\ NoGoal \notin Goals
  /\ Stopper \notin Goals /\ Beacon \notin Goals /\ Stopper # Beacon
  /\ PreGrasp \in BOOLEAN /\ Silent \in BOOLEAN
  /\ MaxStops \in Nat /\ MaxHomes \in Nat

VARIABLES
  stage,      (* where the thread of each goal is                          *)
  outcome,    (* the failure_code of each finished goal, 0 for success     *)
  verdict,    (* the terminal state the client of each goal sees           *)
  lock,       (* the holder of _busy_lock                                  *)
  stopEvent,  (* _stop_event                                               *)
  cancelled,  (* the goals with is_cancel_requested                        *)
  stopper,    (* where the stop handler is                                 *)
  homing,     (* the home service is moving the arm                        *)
  ready,      (* _place_ready                                              *)
  call,       (* the _set_place_ready or _publish_place_ready of each thread *)
  wire,       (* the last value published on place_ready                   *)
  arm,        (* where the arm is                                          *)
  abreast,    (* its y is that of the place point, within the margin       *)
  held,       (* the goal whose nut is between the fingers                 *)
  opened,     (* the goals that told the fingers to let go at that y       *)
  hung,       (* the goals whose thread waits for ever                     *)
  told,       (* where each goal was when a stop was first signalled       *)
  stops, homes

server == << outcome, verdict, lock, cancelled >>
halt   == << stopEvent, stopper, told, stops >>
home   == << homing, homes >>
beacon == << ready, wire >>
world  == << arm, abreast, held, opened >>
vars   == << stage, server, halt, home, beacon, call, world, hung >>

-----------------------------------------------------------------------------
(* The stages of the two sequences, as tables.                             *)

(* Where is_cancelled is asked, and what follows when it says no.          *)
Checks ==
  [ approach  |-> "move_approach", grasp        |-> "move_grasp",
    transit   |-> "move_transit",  push_close   |-> "do_push_close",
    push_approach |-> "move_push_approach",
    push_descend  |-> "move_push_descend",
    push          |-> "move_push" ]

Leg(next, at) == [next |-> next, at |-> at]

(* Mutant: an empty grasp is retried on the spot, without end.             *)
MovesRetryInPlace ==
  [ move_approach |-> Leg("grasp", "over_table"),
    move_grasp    |-> Leg("close", "grasp"),
    lift          |-> Leg("transit", "over_table"),
    move_transit  |-> Leg("place", "over_place"),
    place         |-> Leg("open", "place"),
    retreat       |-> Leg("lower", "over_place"),
    home          |-> Leg("succeed", "home"),
    back_off      |-> Leg("grasp", "over_table"),
    move_push_approach |-> Leg("push_descend", "over_table"),
    move_push_descend  |-> Leg("push", "table"),
    move_push          |-> Leg("push_retreat", "table"),
    push_retreat       |-> Leg("push_home", "over_table"),
    push_home          |-> Leg("push_open", "home") ]

(* Where the arm moves: what follows, and where the arm then is.           *)
Moves ==
  [ move_approach |-> Leg("grasp", "over_table"),
    move_grasp    |-> Leg("close", "grasp"),
    lift          |-> Leg("transit", "over_table"),
    move_transit  |-> Leg("place", "over_place"),
    place         |-> Leg("open", "place"),
    retreat       |-> Leg("lower", "over_place"),
    home          |-> Leg("succeed", "home"),
    back_off      |-> Leg("grasp_missed", "over_table"),
    move_push_approach |-> Leg("push_descend", "over_table"),
    move_push_descend  |-> Leg("push", "table"),
    move_push          |-> Leg("push_retreat", "table"),
    push_retreat       |-> Leg("push_home", "over_table"),
    push_home          |-> Leg("push_open", "home") ]

(* Where wait_until_idle decides, and what follows when it is satisfied.   *)
Settles ==
  [ settle_close |-> "verify_grip", settle_open |-> "report",
    settle_push  |-> "push_approach" ]

(* Where the fingers open, and what follows.                               *)
Opens ==
  [ pregrasp |-> "approach", open |-> "settle_open",
    reopen   |-> "back_off", push_open |-> "succeed" ]

(* Inside the try block an exception ends the sequence with code 3.        *)
Guarded == DOMAIN Moves \cup DOMAIN Settles \cup DOMAIN Opens
             \cup { "close", "verify_grip", "do_push_close" }

Outside == { "new", "rejected", "accepted", "done" }

Stages == Outside \cup Guarded \cup DOMAIN Checks
            \cup { "locked", "report", "lower", "succeed", "grasp_missed", "unlock" }

(* A stop signalled here is still ahead of a check that will see it.       *)
Stoppable == DOMAIN Checks \cup
  { "pregrasp", "move_approach", "move_grasp", "close", "settle_close",
    "verify_grip", "lift", "do_push_close", "settle_push",
    "move_push_approach", "move_push_descend" }

Success == 0
GraspNotDetected == 2
MotionFail == 3
SafetyStopCode == 4
WorkspaceViolation == 5
Pending == 9    \* no result yet
Codes == {Success, GraspNotDetected, MotionFail, SafetyStopCode, WorkspaceViolation, Pending}

Threads == Goals \cup {Stopper, Beacon}
Idle == [step |-> "none", value |-> FALSE]
Reading == [step |-> "read", value |-> FALSE]
Quiet(t) == call[t].step = "none"

(* The first step of _set_place_ready(value).                              *)
Report(t, value) == call' = [call EXCEPT ![t] = [step |-> "write", value |-> value]]

At(g, s) == stage[g] = s /\ Quiet(g)
Goto(g, s) == stage' = [stage EXCEPT ![g] = s]

(* Mutant: the finally block does not lower place_ready.                   *)
FinishRaised(g, code) ==
  /\ Goto(g, "unlock")
  /\ outcome' = [outcome EXCEPT ![g] = code]
  /\ verdict' = [verdict EXCEPT ![g] =
                   IF g \in cancelled THEN "canceled"
                   ELSE IF code = Success THEN "succeeded" ELSE "aborted"]
  /\ UNCHANGED << lock, cancelled, call >>

(* The result message of the goal, and the first step of the finally       *)
(* block: place_ready is lowered before the lock is released.              *)
FinishWith(g, code) ==
  /\ Goto(g, "unlock")
  /\ outcome' = [outcome EXCEPT ![g] = code]
  /\ verdict' = [verdict EXCEPT ![g] =
                   IF g \in cancelled THEN "canceled"
                   ELSE IF code = Success THEN "succeeded" ELSE "aborted"]
  /\ Report(g, FALSE)
  /\ UNCHANGED << lock, cancelled >>

IsCancelled(g) == g \in cancelled \/ stopEvent

(* The arm arrives: of where it is the code looks at the y only.           *)
Reaches(g, at) ==
  /\ arm' = at
  /\ abreast' = (at \in {"place", "over_place"} \/ (at # "home" /\ g \in PlaceRow))

AtPlaceY == abreast

(* The fingers open: what they held falls where the arm is.  They stay     *)
(* when the gripper refuses the command, an answer nobody looks at, or     *)
(* when the width of the next nut is less than that of the one they hold.  *)
FingersOpen == held' = NoGoal

FingersStay == UNCHANGED held

-----------------------------------------------------------------------------
Init ==
  /\ stage = [g \in Goals |-> "new"]
  /\ outcome = [g \in Goals |-> Pending]
  /\ verdict = [g \in Goals |-> "none"]
  /\ lock = NoGoal /\ cancelled = {}
  /\ stopEvent = FALSE /\ stopper = "idle"
  /\ told = [g \in Goals |-> "never"] /\ stops = 0
  /\ homing = FALSE /\ homes = 0
  /\ ready = FALSE /\ wire = FALSE
  /\ call = [t \in Threads |-> Idle]
  /\ arm = "home" /\ abreast = FALSE
  /\ held = NoGoal /\ opened = {} /\ hung = {}

-----------------------------------------------------------------------------
(* place_ready: the steps of _set_place_ready and _publish_place_ready.    *)

WriteFlag(t) ==
  /\ call[t].step = "write"
  /\ ready' = call[t].value
  /\ call' = [call EXCEPT ![t] = Reading]
  /\ UNCHANGED << stage, server, halt, home, wire, world >>

ReadFlag(t) ==
  /\ call[t].step = "read"
  /\ call' = [call EXCEPT ![t] = [step |-> "send", value |-> ready]]
  /\ UNCHANGED << stage, server, halt, home, beacon, world >>

SendFlag(t) ==
  /\ call[t].step = "send"
  /\ wire' = call[t].value
  /\ call' = [call EXCEPT ![t] = Idle]
  /\ UNCHANGED << stage, server, halt, home, ready, world >>

Tick ==
  /\ Quiet(Beacon)
  /\ call' = [call EXCEPT ![Beacon] = Reading]
  /\ UNCHANGED << stage, server, halt, home, beacon, world >>

-----------------------------------------------------------------------------
(* The action server.                                                      *)

(* _on_goal: the lock is only looked at, not taken.                        *)
Submit(g) ==
  /\ stage[g] = "new"
  /\ Goto(g, IF lock = NoGoal THEN "accepted" ELSE "rejected")
  /\ UNCHANGED << server, halt, home, beacon, call, world >>

RequestCancel(g) ==
  /\ stage[g] \notin { "new", "rejected", "done" }
  /\ g \in Cancellable \ cancelled
  /\ cancelled' = cancelled \cup {g}
  /\ UNCHANGED << stage, outcome, verdict, lock, halt, home, beacon, call, world >>

(* Mutant: the lock is not tried.                                          *)
TakeLockBlindly(g) ==
  /\ At(g, "accepted")
  /\ lock' = g
  /\ Goto(g, "locked")
  /\ UNCHANGED << outcome, verdict, cancelled, halt, home, beacon, call, world >>

(* _execute_pick_and_place takes the lock, or gives up at once.            *)
TakeLock(g) ==
  /\ At(g, "accepted")
  /\ lock = NoGoal
  /\ lock' = g
  /\ Goto(g, "locked")
  /\ UNCHANGED << outcome, verdict, cancelled, halt, home, beacon, call, world >>

(* Mutants: the stop event is cleared before the lock is tried; the        *)
(* refusal has a code the action does not define.                          *)
BusyClearing(g) ==
  /\ At(g, "accepted")
  /\ lock # NoGoal
  /\ Goto(g, "done")
  /\ stopEvent' = FALSE
  /\ outcome' = [outcome EXCEPT ![g] = MotionFail]
  /\ verdict' = [verdict EXCEPT ![g] = "aborted"]
  /\ UNCHANGED << lock, cancelled, stopper, told, stops, home, beacon, call, world >>

BusyUncoded(g) ==
  /\ At(g, "accepted")
  /\ lock # NoGoal
  /\ Goto(g, "done")
  /\ outcome' = [outcome EXCEPT ![g] = 6]
  /\ verdict' = [verdict EXCEPT ![g] = "aborted"]
  /\ UNCHANGED << lock, cancelled, halt, home, beacon, call, world >>

Busy(g) ==
  /\ At(g, "accepted")
  /\ lock # NoGoal
  /\ Goto(g, "done")
  /\ outcome' = [outcome EXCEPT ![g] = MotionFail]
  /\ verdict' = [verdict EXCEPT ![g] = "aborted"]
  /\ UNCHANGED << lock, cancelled, halt, home, beacon, call, world >>

(* The stop event is cleared, the waypoints are found inside the           *)
(* workspace, and a pick begins by lowering place_ready.                   *)
Begin(g) ==
  /\ At(g, "locked")
  /\ stopEvent' = FALSE
  /\ IF g \in PushGoals
       THEN Goto(g, "push_close") /\ UNCHANGED call
       ELSE Goto(g, IF PreGrasp THEN "pregrasp" ELSE "approach") /\ Report(g, FALSE)
  /\ UNCHANGED << server, stopper, told, stops, home, beacon, world >>

LeavesWorkspace(g) ==
  /\ At(g, "locked")
  /\ stopEvent' = FALSE
  /\ FinishWith(g, WorkspaceViolation)
  /\ UNCHANGED << stopper, told, stops, home, beacon, world >>

Unlock(g) ==
  /\ At(g, "unlock")
  /\ lock' = NoGoal
  /\ Goto(g, "done")
  /\ UNCHANGED << outcome, verdict, cancelled, halt, home, beacon, call, world >>

-----------------------------------------------------------------------------
(* The motion sequences.                                                   *)

around == << halt, home, beacon >>

Check(g) ==
  /\ stage[g] \in DOMAIN Checks /\ Quiet(g)
  /\ ~IsCancelled(g)
  /\ Goto(g, Checks[stage[g]])
  /\ UNCHANGED << server, around, call, world >>

SeesStop(g) ==
  /\ stage[g] \in DOMAIN Checks /\ Quiet(g)
  /\ IsCancelled(g)
  /\ FinishWith(g, SafetyStopCode)
  /\ UNCHANGED << around, world >>

(* A move that returns without an error has not always moved the arm: a    *)
(* controller that is not servo-on answers with success.                   *)
Move(g) ==
  /\ stage[g] \in DOMAIN Moves /\ Quiet(g)
  /\ \/ Reaches(g, Moves[stage[g]].at)
     \/ Silent /\ UNCHANGED << arm, abreast >>
  /\ Goto(g, Moves[stage[g]].next)
  /\ UNCHANGED << server, around, call, held, opened >>

(* movej, movel, mwait and get_current_posx wait without a timeout.        *)
Hang(g) ==
  /\ stage[g] \in DOMAIN Moves \cup {"report"} /\ Quiet(g)
  /\ g \notin hung
  /\ hung' = hung \cup {g}
  /\ UNCHANGED << stage, server, around, call, world >>

Settle(g) ==
  /\ stage[g] \in DOMAIN Settles /\ Quiet(g)
  /\ Goto(g, Settles[stage[g]])
  /\ UNCHANGED << server, around, call, world >>

(* A move or a gripper command raises, before or after it took effect, or  *)
(* the gripper does not settle.                                            *)
Breaks(g) ==
  /\ stage[g] \in Guarded /\ Quiet(g)
  /\ FinishWith(g, MotionFail)
  /\ UNCHANGED around
  /\ \/ UNCHANGED << arm, abreast, held >>
     \/ stage[g] \in DOMAIN Moves /\ Reaches(g, Moves[stage[g]].at) /\ FingersStay
     \/ stage[g] \in DOMAIN Opens /\ FingersOpen /\ UNCHANGED << arm, abreast >>
  /\ UNCHANGED opened

(* gripper.close on the nut, which may or may not be caught; fingers that  *)
(* still hold something are closed already.                                *)
Close(g) ==
  /\ At(g, "close")
  /\ Goto(g, "settle_close")
  /\ held' \in IF held = NoGoal /\ arm = "grasp" THEN {NoGoal, g} ELSE {held}
  /\ UNCHANGED << server, around, call, arm, abreast, opened >>

VerifyGrip(g) ==
  /\ At(g, "verify_grip")
  /\ Goto(g, IF held # NoGoal THEN "lift" ELSE "reopen")
  /\ UNCHANGED << server, around, call, world >>

(* gripper.open, and the move_to that widens the fingers before a pick.    *)
Open(g) ==
  /\ stage[g] \in DOMAIN Opens /\ Quiet(g)
  /\ Goto(g, Opens[stage[g]])
  /\ FingersOpen \/ (Silent /\ FingersStay)
  /\ opened' = IF stage[g] = "open" /\ abreast THEN opened \cup {g} ELSE opened
  /\ UNCHANGED << server, around, call, arm, abreast >>

PushClose(g) ==
  /\ At(g, "do_push_close")
  /\ Goto(g, "settle_push")
  /\ UNCHANGED << server, around, call, world >>

(* Mutant: the pose is not looked at.                                      *)
ReportUnchecked(g) ==
  /\ At(g, "report")
  /\ Report(g, TRUE)
  /\ Goto(g, "retreat")
  /\ UNCHANGED << server, around, world >>

(* place_ready goes up if the TCP has the y of the place point; a failed   *)
(* reading of the pose lowers it.                                          *)
ReportPlaced(g) ==
  /\ At(g, "report")
  /\ \/ Report(g, AtPlaceY)
     \/ Report(g, FALSE)
  /\ Goto(g, "retreat")
  /\ UNCHANGED << server, around, world >>

Lower(g) ==
  /\ At(g, "lower")
  /\ Report(g, FALSE)
  /\ Goto(g, "home")
  /\ UNCHANGED << server, around, world >>

Finish(g) ==
  /\ \/ At(g, "succeed") /\ FinishWith(g, Success)
     \/ At(g, "grasp_missed") /\ FinishWith(g, GraspNotDetected)
  /\ UNCHANGED << around, world >>

-----------------------------------------------------------------------------
(* The services; neither takes the busy lock.                              *)

SignalStop ==
  /\ stopper = "idle" /\ stops < MaxStops
  /\ stopEvent' = TRUE
  /\ told' = [g \in Goals |->
       IF told[g] # "never" THEN told[g]
       ELSE IF stage[g] \in {"accepted", "locked"} THEN "before"
       ELSE IF stage[g] \in Stoppable THEN "during" ELSE "never"]
  /\ stops' = stops + 1
  /\ Report(Stopper, FALSE)
  /\ stopper' = "open"
  /\ UNCHANGED << stage, server, home, beacon, world >>

(* The gripper opens wherever it is, or the command fails.                 *)
StopOpens ==
  /\ stopper = "open" /\ Quiet(Stopper)
  /\ stopper' = "idle"
  /\ FingersOpen \/ FingersStay
  /\ UNCHANGED << stage, server, stopEvent, told, stops, home, beacon, call, arm, abreast, opened >>

HomeCalled ==
  /\ ~homing /\ homes < MaxHomes
  /\ homing' = TRUE /\ homes' = homes + 1
  /\ UNCHANGED << stage, server, halt, beacon, call, world >>

HomeReached ==
  /\ homing
  /\ homing' = FALSE
  /\ \/ arm' = "home" /\ abreast' = FALSE
     \/ UNCHANGED << arm, abreast >>
  /\ UNCHANGED << stage, server, halt, homes, beacon, call, held, opened >>

-----------------------------------------------------------------------------
Publish(t) == WriteFlag(t) \/ ReadFlag(t) \/ SendFlag(t)

Serve(g) == TakeLock(g) \/ Busy(g) \/ Begin(g) \/ LeavesWorkspace(g) \/ Unlock(g)

Sequence(g) ==
  \/ Check(g)
  \/ SeesStop(g)
  \/ Move(g)
  \/ Settle(g)
  \/ Breaks(g)
  \/ Close(g)
  \/ VerifyGrip(g)
  \/ Open(g)
  \/ PushClose(g)
  \/ ReportPlaced(g)
  \/ Lower(g)
  \/ Finish(g)

GoalThread(g) == g \notin hung /\ (Serve(g) \/ Sequence(g) \/ Publish(g)) /\ UNCHANGED hung
StopThread == (StopOpens \/ Publish(Stopper)) /\ UNCHANGED hung
BeaconThread == (Tick \/ Publish(Beacon)) /\ UNCHANGED hung

Environment ==
  /\ \/ \E g \in Goals : Submit(g) \/ RequestCancel(g)
     \/ SignalStop
     \/ HomeCalled
     \/ HomeReached
  /\ UNCHANGED hung

Next ==
  \/ \E g \in Goals : GoalThread(g) \/ Hang(g)
  \/ StopThread
  \/ BeaconThread
  \/ Environment

(* A thread that does not hang keeps running: no handler waits for another *)
(* one, and the waits on the gripper have timeouts (of the socket, and of  *)
(* wait_until_idle).  Nothing is assumed of the arm.                       *)
Spec ==
  /\ Init /\ [][Next]_vars
  /\ \A g \in Goals : WF_vars(GoalThread(g))
  /\ WF_vars(StopThread)
  /\ WF_vars(BeaconThread)

-----------------------------------------------------------------------------
(* Properties.                                                             *)

(* Every variable has its type.                                            *)
TypeOK ==
  /\ stage \in [Goals -> Stages]
  /\ outcome \in [Goals -> Codes]
  /\ verdict \in [Goals -> {"none", "succeeded", "aborted", "canceled"}]
  /\ lock \in Goals \cup {NoGoal}
  /\ cancelled \subseteq Goals
  /\ stopEvent \in BOOLEAN /\ stopper \in {"idle", "open"}
  /\ homing \in BOOLEAN
  /\ ready \in BOOLEAN /\ wire \in BOOLEAN
  /\ call \in [Threads -> [ step  : {"none", "write", "read", "send"},
                            value : BOOLEAN ]]
  /\ arm \in {"home", "over_table", "grasp", "over_place", "place", "table"}
  /\ abreast \in BOOLEAN
  /\ held \in Goals \cup {NoGoal}
  /\ opened \subseteq Goals /\ hung \subseteq Goals
  /\ told \in [Goals -> {"never", "before", "during"}]
  /\ stops \in Nat /\ homes \in Nat

InProgress(g) == stage[g] \notin Outside

(* One goal at a time: two goals that _on_goal both let in, because the    *)
(* lock was still free, never run their sequences together.                *)
Exclusive == \A g, h \in Goals : InProgress(g) /\ InProgress(h) => g = h

(* place_ready never outlives the retreat of the goal that raised it,      *)
(* however that goal ends: it is up only while its holder of the lock is   *)
(* retreating, or is just about to lower it.                               *)
ReadyIsOwned ==
  ready => /\ lock \in Goals \ PushGoals
           /\ stage[lock] \in {"retreat", "lower"} \/ call[lock].step = "write"

(* place_ready is up only when the goal being served told the fingers to   *)
(* let go while the TCP had the y of the place point: not when the moves   *)
(* there silently failed, nor when the home service took the arm away      *)
(* before they opened or between their opening and the look at the pose    *)
(* (is_tcp_at_place_y).  The code looks at nothing else: whether the x is  *)
(* right, and whether a nut falls, it does not ask.                        *)
ReadyMeansOpened == ready => lock \in opened

(* A stop is not lost once a goal has begun: while a check is still ahead  *)
(* of it, the goal does not succeed, even when another goal is let in and  *)
(* turned away meanwhile.                                                  *)
StopIsHeeded ==
  \A g \in Goals : told[g] = "during" =>
    outcome[g] # Success /\ stage[g] \notin {"move_transit", "move_push", "place"}

(* Every accepted goal gets a result and gives the lock back, unless a    *)
(* call to the arm never returns to it; one goal that hangs so leaves no   *)
(* other without an answer.                                                *)
Answered == \A g \in Goals : stage[g] = "accepted" ~> stage[g] = "done" \/ g \in hung

(* Whatever order the threads publish in, the conveyor does not go on      *)
(* seeing a stale place_ready: the beacon corrects it.  It stays up only   *)
(* with a goal that hangs in its retreat.                                  *)
BeaconDrops == wire ~> (~wire \/ (ready /\ lock \in hung))
=============================================================================
