-------------------------------- MODULE Gripper --------------------------------
(***************************************************************************)
(* The RG2 gripper behind gripper_controller.py, and the fingers' part of  *)
(* a pick: pre-grasp width, close, is_grip_detected, open, each followed by*)
(* wait_until_idle, which polls a status word that lags behind the command.*)
(*                                                                         *)
(* Time is counted in poll periods of 50 ms.  A poll may come late, and the*)
(* busy bit may read idle for a moment in the middle of a movement.        *)
(***************************************************************************)
EXTENDS Integers

CONSTANTS
  PreWidths,     (* pre_grasp_width_mm, of the pick goals                  *)
  Max_width,
  Mock_closed,   (* the mock is closed below this width, 30 mm             *)
  Start_window,  (* 0.4 s, in periods                                      *)
  Timeout,       (* grip_settle_timeout_sec, in periods                    *)
  Lag,           (* periods until the gripper obeys a command, at most     *)
  MaxMove,       (* and for a movement                                     *)
  MaxLate,       (* periods a poll may be late                             *)
  None

(* A prompt gripper: what the two windows of the code are there for.       *)
ASSUME GripperAssumption ==
  /\ PreWidths \subseteq Nat /\ {Max_width, MaxMove, Mock_closed} \subseteq Nat \ {0}
  /\ {Lag, MaxLate, Start_window, Timeout} \subseteq Nat /\ None \notin Nat
  /\ Lag + 1 + 2 * (1 + MaxLate) <= Start_window
  /\ Lag + 1 + MaxMove + 2 * (1 + MaxLate) < Timeout

VARIABLES
  backend,    (* modbus or mock                                            *)
  pending,    (* a width that was written and is not obeyed yet, or None   *)
  lag,        (* the periods it has been waiting                           *)
  width,      (* of the fingers, or what they are moving to                *)
  left,       (* periods left of the movement; 0 at rest                   *)
  jammed,     (* the movement never ends                                   *)
  flicker,    (* none yet, now, or over: the busy bit reads idle once      *)
  grip,       (* bit 1 of the status word                                  *)
  nut,        (* there is a nut between the fingers that close             *)
  pc,         (* of the thread that picks                                  *)
  phase,      (* of wait_until_idle: none, start, run, debounce            *)
  elapsed,    (* periods since it was called                               *)
  slept       (* periods since its last poll                               *)

device == << backend, pending, lag, width, left, jammed, flicker, grip, nut >>
wait   == << phase, elapsed, slept >>
vars   == << device, pc, wait >>

Init ==
  /\ backend \in {"modbus", "mock"}
  /\ pending = None /\ lag = 0 /\ width = Max_width /\ left = 0
  /\ jammed = FALSE /\ flicker = "none" /\ grip = FALSE /\ nut = FALSE
  /\ pc = "idle" /\ phase = "none" /\ elapsed = 0 /\ slept = 0

-----------------------------------------------------------------------------
(* move_to, close (width 0) and open (full width): the registers are       *)
(* written and nothing has moved yet.  The mock is there at once, and says *)
(* it holds something whenever it is closed, or nearly so.                 *)
Clamped(w) == IF w < Max_width THEN w ELSE Max_width

WriteRegisters(w) ==
  /\ pending' = w /\ lag' = 0
  /\ UNCHANGED << width, left, jammed, flicker, grip >>

MockMoves(w) ==
  /\ width' = w /\ grip' = (w < Mock_closed)
  /\ UNCHANGED << pending, lag, left, jammed, flicker >>

MoveTo(w) ==
  /\ IF backend = "modbus" THEN WriteRegisters(Clamped(w)) ELSE MockMoves(Clamped(w))
  /\ UNCHANGED backend

IsBusy == left > 0 /\ flicker # "now"

-----------------------------------------------------------------------------
(* wait_until_idle begins: the busy bit has to rise before it may fall.    *)
WaitAtOnce == phase' = "run" /\ elapsed' = 0 /\ slept' = 1 (* mutant: one phase *)
Wait == phase' = "start" /\ elapsed' = 0 /\ slept' = 1

NoWait == phase' = "none" /\ elapsed' = 0 /\ slept' = 0

(* What follows a wait that settled, and one that did not: in the middle of*)
(* a pick the latter ends it, before and after it is ignored.              *)
Settled == [pre_wait |-> "grasp", close_wait |-> "verify", open_wait |-> "idle", reopen_wait |-> "idle"]
Unsettled == [Settled EXCEPT !.close_wait = "idle"]

Returns(next) == pc' = next[pc] /\ NoWait

Sleeps(next) == phase' = next /\ slept' = 0 /\ UNCHANGED << pc, elapsed >>

(* First phase.  A command that moves nothing is never busy.               *)
AwaitsStart ==
  /\ phase = "start"
  /\ \/ elapsed >= Start_window /\ Returns(Settled)
     \/ elapsed < Start_window /\ ~IsBusy /\ Sleeps("start")
     \/ elapsed < Start_window /\ IsBusy /\ phase' = "run" /\ UNCHANGED << pc, elapsed, slept >>

(* Second phase, and one more look after a poll that found it idle.        *)
AwaitsEndUntimed ==       (* mutant: the deadline is forgotten             *)
  \/ phase = "run" /\ Sleeps(IF IsBusy THEN "run" ELSE "debounce")
  \/ phase = "debounce" /\ IsBusy /\ Sleeps("run")
  \/ phase = "debounce" /\ ~IsBusy /\ Returns(Settled)

AwaitsEnd ==
  \/ phase = "run" /\ elapsed >= Timeout /\ Returns(Unsettled)
  \/ phase = "run" /\ elapsed < Timeout /\ Sleeps(IF IsBusy THEN "run" ELSE "debounce")
  \/ phase = "debounce" /\ IsBusy /\ Sleeps("run")
  \/ phase = "debounce" /\ ~IsBusy /\ Returns(Settled)

(* The status read fails: the exception ends the pick.                     *)
ReadFails == backend = "modbus" /\ pc' = "idle" /\ NoWait

Poll ==
  /\ phase # "none" /\ slept >= 1
  /\ AwaitsStart \/ AwaitsEnd \/ ReadFails
  /\ UNCHANGED device

-----------------------------------------------------------------------------
(* The thread, from command to command.  Between them the arm moves.       *)
Still == pending = None /\ left = 0

(* A pick begins when the one before is over for seconds.                  *)
PreGrasp(w) ==
  /\ pc = "idle" /\ (Still \/ jammed) /\ w > 0
  /\ pc' = "pre_wait" /\ MoveTo(w) /\ Wait /\ UNCHANGED nut

(* Without a width the fingers stay as the pick before left them.          *)
NoPreGrasp ==
  /\ pc = "idle" /\ (Still \/ jammed) /\ 0 \in PreWidths
  /\ pc' = "grasp" /\ UNCHANGED << device, wait >>

(* Fingers that are closed already hold what they held.                    *)
Close ==
  /\ pc = "grasp" /\ pc' = "close_wait" /\ MoveTo(0) /\ Wait
  /\ nut' \in IF width = 0 THEN {nut} ELSE BOOLEAN

VerifyGrip ==
  /\ pc = "verify"
  /\ pc' \in {IF grip THEN "open" ELSE "reopen"} \cup IF backend = "modbus" THEN {"idle"} ELSE {}
  /\ UNCHANGED << device, wait >>

Open ==
  /\ pc \in {"open", "reopen"}
  /\ pc' = IF pc = "open" THEN "open_wait" ELSE "reopen_wait"
  /\ MoveTo(Max_width) /\ Wait /\ UNCHANGED nut

Picking == Poll \/ (\E w \in PreWidths : PreGrasp(w)) \/ NoPreGrasp \/ Close \/ VerifyGrip \/ Open

-----------------------------------------------------------------------------
(* The gripper, one period on.  The grip bit is that of the movement before*)
(* until a movement has ended.                                             *)
Rests == Still /\ UNCHANGED << pending, lag, width, left, jammed, flicker, grip, nut >>

Waits ==
  /\ pending # None /\ left = 0 /\ lag < Lag /\ lag' = lag + 1
  /\ UNCHANGED << pending, width, left, jammed, flicker, grip, nut >>

Obeys ==
  /\ pending # None /\ left = 0
  /\ pending' = None /\ lag' = 0 /\ width' = pending /\ flicker' = "none"
  /\ left' \in IF pending = width THEN {0} ELSE 1 .. MaxMove
  /\ UNCHANGED << jammed, grip, nut >>

Moves ==
  /\ left > 0 /\ ~jammed
  /\ \/ left' = left - 1 /\ UNCHANGED jammed
     \/ jammed' = TRUE /\ UNCHANGED left
  /\ flicker' \in IF flicker = "none" THEN {"none", "now"} ELSE {"over"}
  /\ grip' = IF left' = 0 THEN width = 0 /\ nut ELSE grip
  /\ UNCHANGED << pending, lag, width, nut >>

StaysJammed ==
  jammed /\ flicker' = "over" /\ UNCHANGED << pending, lag, width, left, jammed, grip, nut >>

Tick ==
  /\ phase # "none" => slept <= MaxLate
  /\ Rests \/ Waits \/ Obeys \/ Moves \/ StaysJammed
  /\ IF phase = "none" THEN UNCHANGED wait
     ELSE /\ elapsed' = IF elapsed < Timeout THEN elapsed + 1 ELSE elapsed
          /\ slept' = slept + 1 /\ UNCHANGED phase
  /\ UNCHANGED << backend, pc >>

Next == Picking \/ Tick

(* Time passes, and the thread polls.                                      *)
Spec == Init /\ [][Next]_vars /\ WF_vars(Tick) /\ WF_vars(Poll)

-----------------------------------------------------------------------------
(* "an early look would read the grip bit of the cycle before": when the   *)
(* pick asks whether it holds something, the fingers are at rest and the   *)
(* bit tells of the nut they have just closed on (wait_until_idle,         *)
(* is_grip_detected).                                                      *)
GripTellsHeld ==
  pc = "verify" /\ backend = "modbus" => Still /\ grip = nut

(* Whatever the gripper does, jammed or not, a wait comes to an end        *)
(* (wait_until_idle).                                                      *)
WaitEnds == (phase # "none") ~> (phase = "none")
=============================================================================
