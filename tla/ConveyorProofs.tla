---------------------------- MODULE ConveyorProofs ----------------------------
(***************************************************************************)
(* Proofs of the safety properties of Conveyor for every configuration of  *)
(* the node and a serial line of any length.                               *)
(***************************************************************************)
EXTENDS Conveyor, TLAPS

Msg == [command : Runs \cup {"STOP"}, source : {"manual", "place_ready"}]

LineOK == line \in Seq(Msg) /\ port \in {"open", "closed"} /\ timer \in BOOLEAN

-----------------------------------------------------------------------------
(* What the node's steps have in common: the serial line is left alone, or *)
(* one command is sent, or the connection is closed or made again.         *)

Sending(command, source, sent) ==
  /\ command \in Commands /\ source \in {"manual", "place_ready"}
  /\ Send(command, source, sent)

LEMMA StepCases ==
  ASSUME LineOK, [Next]_vars
  PROVE  \/ \E command \in Commands, sent \in BOOLEAN :
              Sending(command, "manual", sent) /\ timer' = timer
         \/ EdgeTriggers /\ Usable /\ Sending(AutoCommand, "place_ready", timer') /\ timer' \in BOOLEAN
         \/ \E sent \in BOOLEAN : Sending("STOP", "place_ready", sent) /\ timer' = FALSE
         \/ UNCHANGED << timer, serial >>
         \/ Shutdown
         \/ Connected /\ timer' = timer
         \/ HandleCommand
<1>1. ASSUME NEW command \in Commands, Manual(command)
      PROVE  \E sent \in BOOLEAN : Sending(command, "manual", sent) /\ timer' = timer
  BY <1>1 DEF Manual, Sending
<1>2. CASE PlaceReady
  <2>1. CASE EdgeTriggers
    <3>1. AutoCommand \in Commands
      BY ConveyorAssumption DEF Commands
    <3>2. Send(AutoCommand, "place_ready", timer') /\ Usable
      BY <2>1 DEF EdgeTriggers
    <3>3. timer' \in BOOLEAN
      BY <3>2 DEF Send
    <3> QED BY <2>1, <3>1, <3>2, <3>3 DEF Sending
  <2>2. CASE EdgeIgnored \/ \E value \in BOOLEAN : NoEdge(value)
    BY <2>2 DEF EdgeIgnored, NoEdge
  <2> QED BY <1>2, <2>1, <2>2 DEF PlaceReady
<1>3. CASE AutoStop
  BY <1>3 DEF AutoStop, Sending, Commands
<1>4. CASE Restart
  BY <1>4 DEF Restart
<1>5. CASE UNCHANGED vars
  BY <1>5 DEF vars
<1> QED BY <1>1, <1>2, <1>3, <1>4, <1>5 DEF Next

LEMMA LineInit == Init => LineOK
<1> SUFFICES ASSUME Init PROVE LineOK
  OBVIOUS
<1>1. port \in {"open", "closed"} /\ timer = FALSE /\ line = << >>
  BY DEF Init
<1>2. << >> \in Seq(Msg)
  OBVIOUS
<1> QED BY <1>1, <1>2 DEF LineOK

LEMMA SendLine ==
  ASSUME LineOK, NEW command \in Commands, NEW source \in {"manual", "place_ready"},
         NEW sent, Send(command, source, sent)
  PROVE  line' \in Seq(Msg) /\ port' \in {"open", "closed"}
<1> DEFINE msg == [command |-> command, source |-> source]
<1>1. Valid(command) => msg \in Msg
  BY DEF Valid, Commands, Msg
<1>2. Valid(command) => Append(line, msg) \in Seq(Msg) /\ Append(<< >>, msg) \in Seq(Msg)
  BY <1>1 DEF LineOK
<1>3. << >> \in Seq(Msg)
  OBVIOUS
<1> QED BY <1>2, <1>3 DEF Send, LineOK, serial

LEMMA LineStep == LineOK /\ [Next]_vars => LineOK'
<1> SUFFICES ASSUME LineOK, [Next]_vars PROVE LineOK'
  OBVIOUS
<1>1. ASSUME NEW command, NEW source, NEW sent, Sending(command, source, sent)
      PROVE  line' \in Seq(Msg) /\ port' \in {"open", "closed"}
  BY <1>1, SendLine DEF Sending
<1>2. CASE UNCHANGED << timer, serial >> \/ Shutdown
  BY <1>2 DEF LineOK, serial, Shutdown
<1>3. CASE Connected /\ timer' = timer
  BY <1>3 DEF Connected, LineOK
<1>4. CASE HandleCommand
  BY <1>4 DEF HandleCommand, LineOK
<1> QED BY <1>1, <1>2, <1>3, <1>4, StepCases DEF LineOK

LEMMA LineInvariant == Spec => []LineOK
BY LineInit, LineStep, PTL DEF Spec

-----------------------------------------------------------------------------
(* The belt does what it was told.                                         *)

(* The last command on the line, or the belt when the line is empty, is    *)
(* what the node believes.                                                 *)
LastIsBelieved ==
  port = "open" =>
    IF line = << >> THEN belt.dir = believed
                    ELSE Dir(line[Len(line)].command) = believed

LEMMA BelievedInit == Init => LastIsBelieved
BY DEF Init, LastIsBelieved, Stopped

LEMMA SendBelieved ==
  ASSUME ResetDelay = TRUE, LineOK, LastIsBelieved, NEW command \in Commands,
         NEW source \in {"manual", "place_ready"}, NEW sent, Send(command, source, sent)
  PROVE  LastIsBelieved'
<1> DEFINE msg == [command |-> command, source |-> source]
<1>1. CASE Valid(command) /\ sent = TRUE
  <2>1. \E base \in {<< >>, line} : line' = Append(base, msg)
    BY <1>1, ConveyorAssumption DEF Send
  <2>2. PICK base \in {<< >>, line} : line' = Append(base, msg)
    BY <2>1
  <2>3. base \in Seq(Msg) /\ msg \in Msg
    <3>1. << >> \in Seq(Msg)
      OBVIOUS
    <3>2. msg \in Msg
      BY <1>1 DEF Valid, Commands, Msg
    <3> QED BY <2>2, <3>1, <3>2 DEF LineOK
  <2>4. line' # << >> /\ line'[Len(line')] = msg
    BY <2>2, <2>3
  <2>5. believed' = Dir(command)
    BY <1>1 DEF Send
  <2> QED BY <2>4, <2>5 DEF LastIsBelieved
<1>2. CASE ~Valid(command)
  BY <1>2 DEF Send, serial, LastIsBelieved
<1>3. CASE Valid(command) /\ sent # TRUE
  BY <1>3 DEF Send, LastIsBelieved
<1> QED BY <1>1, <1>2, <1>3

LEMMA BelievedStep ==
  ASSUME ResetDelay = TRUE
  PROVE  LineOK /\ LastIsBelieved /\ [Next]_vars => LastIsBelieved'
<1> SUFFICES ASSUME LineOK, LastIsBelieved, [Next]_vars PROVE LastIsBelieved'
  OBVIOUS
<1>1. ASSUME NEW command, NEW source, NEW sent, Sending(command, source, sent)
      PROVE  LastIsBelieved'
  BY <1>1, SendBelieved DEF Sending
<1>2. CASE UNCHANGED << timer, serial >> \/ Shutdown \/ Connected
  BY <1>2 DEF LastIsBelieved, serial, Shutdown, Connected, Stopped
<1>3. CASE HandleCommand
  <2>1. line \in Seq(Msg) /\ line # << >> /\ line' = Tail(line) /\ port' = port /\ believed' = believed
    BY <1>3 DEF HandleCommand, LineOK
  <2>2. CASE Len(line) = 1
    <3>1. line' = << >> /\ Head(line) = line[Len(line)]
      BY <2>1, <2>2
    <3>2. belt'.dir = Dir(Head(line).command)
      BY <1>3 DEF HandleCommand, Dir, Stopped
    <3> QED BY <2>1, <3>1, <3>2 DEF LastIsBelieved
  <2>3. CASE Len(line) # 1
    <3>1. /\ Len(line) \in Nat \ {0, 1} /\ Len(Tail(line)) = Len(line) - 1
          /\ \A i \in 1 .. Len(line) - 1 : Tail(line)[i] = line[i + 1]
      BY <2>1, <2>3
    <3>2. Len(line') # 0 /\ line'[Len(line')] = line[Len(line)]
      BY <2>1, <3>1
    <3>3. line' # << >>
      BY <3>2
    <3> QED BY <2>1, <3>2, <3>3 DEF LastIsBelieved
  <2> QED BY <2>2, <2>3
<1> QED BY <1>1, <1>2, <1>3, StepCases

(* When the start-up delay covers the boot of the UNO, an open port and an *)
(* empty line mean that the belt does what _send_command last told it,     *)
(* after any failed writes, reconnections and restarts of the node.        *)
THEOREM BeltAsTold ==
  ASSUME ResetDelay = TRUE
  PROVE  Spec => []BeltIsAsTold
<1>1. Init => LastIsBelieved
  BY BelievedInit
<1>2. LineOK /\ LastIsBelieved /\ [Next]_vars => LastIsBelieved'
  BY BelievedStep
<1>3. LastIsBelieved => BeltIsAsTold
  BY DEF LastIsBelieved, BeltIsAsTold
<1> QED BY <1>1, <1>2, <1>3, LineInvariant, PTL DEF Spec

-----------------------------------------------------------------------------
(* No movement is orphaned.                                                *)

StopAfter(i) == \E j \in DOMAIN line : j > i /\ line[j].command = "STOP"

(* A movement that is still on the line has its STOP ahead as well.        *)
Attended(i) == timer \/ port = "closed" \/ StopAfter(i)

Owned(i) == line[i].source = "place_ready" /\ line[i].command # "STOP"

RunsAttended ==
  /\ belt.by = "place_ready" => Attended(0)
  /\ \A i \in DOMAIN line : Owned(i) => Attended(i)

LEMMA AttendedInit == Init => RunsAttended
BY DEF Init, RunsAttended, Stopped

(* A sent command follows what is on the line, or starts a new line.       *)
LEMMA SendAttended ==
  ASSUME LineOK, RunsAttended, NEW command \in Commands,
         NEW source \in {"manual", "place_ready"}, NEW sent, Send(command, source, sent),
         timer' \in BOOLEAN,
         timer' \/ (timer' = timer /\ source = "manual") \/ command = "STOP"
  PROVE  RunsAttended'
<1> DEFINE msg == [command |-> command, source |-> source]
<1>1. CASE port' = "closed" \/ timer'
  BY <1>1 DEF RunsAttended, Attended
<1>2. CASE UNCHANGED serial
  BY <1>1, <1>2, ConveyorAssumption DEF serial, RunsAttended, Attended, StopAfter, Owned, Send, Valid
<1>3. CASE Valid(command) /\ sent = TRUE /\ ~timer'
  <2>1. CASE port = "closed"
    <3>1. belt' = Stopped /\ line' \in { << >>, << msg >> }
      BY <1>3, <2>1 DEF Send
    <3>2. \A i \in DOMAIN line' : line'[i] = msg
      BY <3>1
    <3>3. ~(source = "place_ready" /\ command # "STOP")
      BY <1>3
    <3> QED BY <3>1, <3>2, <3>3 DEF RunsAttended, Stopped, Owned
  <2>2. CASE port # "closed"
    <3>1. line' = Append(line, msg) /\ belt' = belt /\ line \in Seq(Msg) /\ msg \in Msg
      BY <1>3, <2>2 DEF Send, LineOK, Valid, Commands, Msg
    <3>2. PICK n \in Nat : n = Len(line)
      BY <3>1
    <3>3. /\ DOMAIN line = 1 .. n /\ DOMAIN line' = 1 .. n + 1
          /\ \A i \in 1 .. n : line'[i] = line[i]
          /\ line'[n + 1] = msg
      BY <3>1, <3>2
    <3>4. \A i \in 1 .. n : Owned(i)' => Owned(i)
      BY <3>3 DEF Owned
    <3>5. CASE command = "STOP"
      <4>1. \A i \in 0 .. n : Attended(i)'
        BY <3>3, <3>5 DEF Attended, StopAfter
      <4>2. ~Owned(n + 1)'
        BY <3>3, <3>5 DEF Owned
      <4> QED BY <3>3, <4>1, <4>2 DEF RunsAttended
    <3>6. CASE command # "STOP"
      <4>1. timer' = timer /\ source = "manual"
        BY <1>3, <3>6
      <4>2. \A i \in 0 .. n : Attended(i) => Attended(i)'
        <5> SUFFICES ASSUME NEW i \in 0 .. n, StopAfter(i) PROVE StopAfter(i)'
          BY <1>3, <2>2, <4>1 DEF Attended
        <5> QED BY <3>3 DEF StopAfter
      <4>3. ~Owned(n + 1)'
        BY <3>3, <4>1 DEF Owned
      <4>4. \A i \in 1 .. n : Owned(i)' => Attended(i)'
        BY <3>3, <3>4, <4>2 DEF RunsAttended
      <4>5. belt'.by = "place_ready" => Attended(0)'
        BY <3>1, <4>2 DEF RunsAttended
      <4> QED BY <3>3, <4>3, <4>4, <4>5 DEF RunsAttended
    <3> QED BY <3>5, <3>6
  <2> QED BY <2>1, <2>2
<1> QED BY <1>1, <1>2, <1>3 DEF Send

LEMMA HandleAttended ==
  ASSUME LineOK, RunsAttended, HandleCommand
  PROVE  RunsAttended'
<1>1. /\ line \in Seq(Msg) /\ line # << >> /\ line' = Tail(line)
      /\ port' = port /\ timer' = timer
  BY DEF HandleCommand, LineOK
<1>2. /\ Len(line) \in Nat \ {0} /\ DOMAIN line = 1 .. Len(line)
      /\ DOMAIN line' = 1 .. Len(line) - 1
      /\ \A i \in DOMAIN line' : line'[i] = line[i + 1]
      /\ Head(line) = line[1]
  BY <1>1
<1>3. \A i \in 0 .. Len(line) - 1 : Attended(i + 1) => Attended(i)'
  <2> SUFFICES ASSUME NEW i \in 0 .. Len(line) - 1, StopAfter(i + 1)
               PROVE  StopAfter(i)'
    BY <1>1 DEF Attended
  <2>1. PICK j \in DOMAIN line : j > i + 1 /\ line[j].command = "STOP"
    BY DEF StopAfter
  <2>2. j - 1 \in DOMAIN line' /\ j - 1 > i /\ line'[j - 1] = line[j]
    BY <1>2, <2>1
  <2> QED BY <2>1, <2>2 DEF StopAfter
<1>4. belt'.by = "place_ready" => Owned(1)
  BY <1>2 DEF HandleCommand, Owned, Stopped
<1>5. \A i \in DOMAIN line' : Owned(i)' => Owned(i + 1)
  BY <1>2 DEF Owned
<1> QED BY <1>2, <1>3, <1>4, <1>5 DEF RunsAttended

LEMMA AttendedStep == LineOK /\ RunsAttended /\ [Next]_vars => RunsAttended'
<1> SUFFICES ASSUME LineOK, RunsAttended, [Next]_vars PROVE RunsAttended'
  OBVIOUS
<1>1. ASSUME NEW command \in Commands, NEW sent, Sending(command, "manual", sent), timer' = timer
      PROVE  RunsAttended'
  BY <1>1, SendAttended DEF Sending, LineOK
<1>2. CASE Usable /\ Sending(AutoCommand, "place_ready", timer') /\ timer' \in BOOLEAN
  <2>1. timer' \/ port' = "closed"
    BY <1>2 DEF Sending, Send, Usable
  <2> QED BY <2>1 DEF RunsAttended, Attended
<1>3. ASSUME NEW sent, Sending("STOP", "place_ready", sent), timer' = FALSE
      PROVE  RunsAttended'
  BY <1>3, SendAttended DEF Sending
<1>4. CASE UNCHANGED << timer, serial >>
  BY <1>4 DEF serial, RunsAttended, Attended, StopAfter, Owned
<1>5. CASE Shutdown
  BY <1>5 DEF Shutdown, RunsAttended, Attended
<1>6. CASE Connected /\ timer' = timer
  BY <1>6 DEF Connected, RunsAttended, Stopped
<1> QED BY <1>1, <1>2, <1>3, <1>4, <1>5, <1>6, HandleAttended, StepCases

LEMMA AttendedCovers == LineOK /\ RunsAttended => NoOrphanRun
BY DEF RunsAttended, Attended, StopAfter, NoOrphanRun

(* No timed movement of the belt is left running with nothing to end it:   *)
(* its STOP is on the line, its timer is armed, or the port is closed and  *)
(* the next command restarts the UNO (_place_ready_callback,               *)
(* _auto_stop_callback), whatever the boot delay and whatever fails.       *)
THEOREM RunsAreEnded == Spec => []NoOrphanRun
<1>1. Init => RunsAttended
  BY AttendedInit
<1>2. LineOK /\ RunsAttended /\ [Next]_vars => RunsAttended'
  BY AttendedStep
<1> QED BY <1>1, <1>2, AttendedCovers, LineInvariant, PTL DEF Spec
=============================================================================
