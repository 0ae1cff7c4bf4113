------------------------------- MODULE Conveyor -------------------------------
(***************************************************************************)
(* conveyor_serial_node and the Arduino sketch it drives: manual commands, *)
(* one timed movement per False -> True edge of place_ready, a serial line *)
(* that may fail, and a controller that restarts whenever the port is      *)
(* opened.  The node runs on a single-threaded executor, so each callback  *)
(* is one step; the sketch reads the line at its own pace.                 *)
(***************************************************************************)
EXTENDS Naturals, Sequences

CONSTANTS
  AutoCommand,   (* auto_command: a run command, or "invalid"              *)
  AutoDuration,  (* auto_run_duration_sec > 0                              *)
  ResetDelay,    (* arduino_reset_delay covers the boot of the UNO         *)
  Faults,        (* which of "write", "shutdown" may happen                *)
  MaxPending     (* bound: commands on the serial line at once             *)

Runs == {"F", "R"}

ASSUME ConveyorAssumption ==
  /\ AutoCommand \in Runs \cup {"STOP", "invalid"}
  /\ AutoDuration \in BOOLEAN /\ ResetDelay \in BOOLEAN
  /\ Faults \subseteq {"write", "shutdown"}
  /\ MaxPending \in Nat \ {0}

VARIABLES
  alive,     (* the node runs                                              *)
  port,      (* serial_port: "open", or "closed" for None                  *)
  last,      (* _last_place_ready                                          *)
  timer,     (* _auto_stop_timer is armed                                  *)
  line,      (* the commands written and not yet read by the sketch        *)
  belt,      (* what the belt does, and which source set it going          *)
  believed   (* what the node has told the belt to do since it connected   *)

serial == << port, line, belt, believed >>
vars == << alive, last, timer, serial >>

Stopped == [dir |-> "stopped", by |-> "nobody"]
Dir(command) == IF command = "STOP" THEN "stopped" ELSE command

Valid(command) == command # "invalid"

-----------------------------------------------------------------------------
(* _connect_serial, and setup() of the sketch: opening the port restarts   *)
(* the UNO, which stops the belt and forgets what it had not read.         *)
Connected ==
  /\ port' = "open"
  /\ line' = << >> /\ belt' = Stopped /\ believed' = "stopped"

Init ==
  /\ alive = TRUE /\ last = FALSE /\ timer = FALSE
  /\ port \in IF "write" \in Faults THEN {"open", "closed"} ELSE {"open"}
  /\ line = << >> /\ belt = Stopped /\ believed = "stopped"

(* _send_command: TRUE is returned in `sent`.  A write may fail after the  *)
(* line has taken the command; a failure closes the port.                  *)
Send(command, source, sent) ==
  LET msg     == [command |-> command, source |-> source]
      booting == port = "closed" /\ ~ResetDelay
      fresh   == port = "closed"
      base    == IF fresh THEN << >> ELSE line
  IN  \/ /\ Valid(command) /\ sent = TRUE
         /\ port' = "open"
         /\ belt' = IF fresh THEN Stopped ELSE belt
         /\ line' = IF booting THEN << >> ELSE Append(base, msg)
         /\ believed' = Dir(command)
      \/ /\ Valid(command) /\ sent = FALSE /\ "write" \in Faults
         /\ port' = "closed"
         /\ \/ fresh /\ UNCHANGED << belt, line >>
            \/ /\ belt' = IF fresh THEN Stopped ELSE belt
               /\ line' \in { base, Append(base, msg) }
         /\ UNCHANGED believed
      \/ /\ ~Valid(command) /\ sent = FALSE
         /\ UNCHANGED serial

Room == alive /\ Len(line) < MaxPending

(* _command_callback.                                                      *)
Manual(command) ==
  /\ Room
  /\ \E sent \in BOOLEAN : Send(command, "manual", sent)
  /\ UNCHANGED << alive, last, timer >>

(* _place_ready_callback, for a message that is not an edge, for an edge   *)
(* that is turned away, and for one that starts a movement.                *)
Usable == Valid(AutoCommand) /\ AutoCommand # "STOP" /\ AutoDuration

NoEdge(value) ==
  /\ alive
  /\ ~value \/ last
  /\ last' = value
  /\ UNCHANGED << alive, timer, serial >>

EdgeIgnored ==
  /\ alive /\ ~last
  /\ timer \/ ~Usable
  /\ last' = TRUE
  /\ UNCHANGED << alive, timer, serial >>

(* Mutant: the timer is not armed.                                         *)
EdgeTriggersUntimed ==
  /\ Room /\ ~last
  /\ ~timer /\ Usable
  /\ last' = TRUE
  /\ \E sent \in BOOLEAN : Send(AutoCommand, "place_ready", sent)
  /\ UNCHANGED << alive, timer >>

EdgeTriggers ==
  /\ Room /\ ~last
  /\ ~timer /\ Usable
  /\ last' = TRUE
  /\ Send(AutoCommand, "place_ready", timer')
  /\ UNCHANGED alive

(* Mutant: the timer is cancelled and nothing is sent.                     *)
AutoStopSilent ==
  /\ alive /\ timer
  /\ timer' = FALSE
  /\ UNCHANGED << alive, last, serial >>

(* _auto_stop_callback: the timer is gone whether or not STOP gets out.    *)
AutoStop ==
  /\ alive /\ timer
  /\ timer' = FALSE
  /\ \E sent \in BOOLEAN : Send("STOP", "place_ready", sent)
  /\ UNCHANGED << alive, last >>

(* destroy_node, and a node started again.                                 *)
Shutdown ==
  /\ "shutdown" \in Faults
  /\ alive
  /\ alive' = FALSE /\ timer' = FALSE /\ port' = "closed"
  /\ UNCHANGED << last, line, belt, believed >>

Restart ==
  /\ ~alive
  /\ alive' = TRUE /\ last' = FALSE
  /\ Connected \/ ("write" \in Faults /\ UNCHANGED serial)
  /\ UNCHANGED timer

-----------------------------------------------------------------------------
(* Mutant: one command is handled and the rest of the buffer flushed.      *)
HandleFirstOnly ==
  /\ line # << >>
  /\ line' = << >>
  /\ belt' = IF Head(line).command = "STOP" THEN Stopped
             ELSE [dir |-> Head(line).command, by |-> Head(line).source]
  /\ UNCHANGED << alive, last, timer, port, believed >>

(* handleCommand of the sketch.                                            *)
HandleCommand ==
  /\ line # << >>
  /\ line' = Tail(line)
  /\ belt' = IF Head(line).command = "STOP" THEN Stopped
             ELSE [dir |-> Head(line).command, by |-> Head(line).source]
  /\ UNCHANGED << alive, last, timer, port, believed >>

PlaceReady == (\E value \in BOOLEAN : NoEdge(value)) \/ EdgeIgnored \/ EdgeTriggers

Commands == Runs \cup {"STOP", "invalid"}

Next ==
  \/ \E command \in Commands : Manual(command)
  \/ PlaceReady
  \/ AutoStop
  \/ Shutdown
  \/ Restart
  \/ HandleCommand

(* The timer fires once armed, and the sketch keeps reading.               *)
Spec == Init /\ [][Next]_vars /\ WF_vars(AutoStop) /\ WF_vars(HandleCommand)

-----------------------------------------------------------------------------
(* Properties.                                                             *)

(* While the port is open, the belt does what the node last told it, as    *)
(* soon as the sketch has read the line: through failed writes, reconnects *)
(* (which restart the UNO) and restarts of the node.                       *)
BeltIsAsTold == (port = "open" /\ line = << >>) => belt.dir = believed

(* No movement of the belt is orphaned: whenever it runs for a place_ready *)
(* edge, its STOP is on the way, or the timer that will send it is armed,  *)
(* or the port is closed and the next command restarts the UNO, which stops*)
(* the belt; whatever manual commands came between.                        *)
NoOrphanRun ==
  belt.by = "place_ready" =>
    \/ timer \/ port = "closed"
    \/ \E i \in DOMAIN line : line[i].command = "STOP"

(* Every timed movement comes to an end, or the serial port fails first    *)
(* (_auto_stop_callback, which sends STOP once and does not try again).    *)
MovementEnds == timer ~> (belt = Stopped \/ port = "closed")
=============================================================================
