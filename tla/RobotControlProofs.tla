------------------------- MODULE RobotControlProofs -------------------------
(***************************************************************************)
(* Proofs of the safety properties of RobotControl for any number of goals,*)
(* stops and home calls.                                                   *)
(***************************************************************************)
EXTENDS RobotControl, TLAPS

-----------------------------------------------------------------------------
(* The tables lead from stage to stage.                                    *)

Arms == {"home", "over_table", "grasp", "over_place", "place", "table"}

LEMMA ChecksStay ==
  ASSUME NEW s \in DOMAIN Checks
  PROVE  Checks[s] \in Stages
BY SMTT(60) DEF Moves, Leg, Stages, Outside, Guarded, Checks, Settles, Opens

LEMMA MovesStay ==
  ASSUME NEW s \in DOMAIN Moves
  PROVE  Moves[s].next \in Stages /\ Moves[s].at \in Arms
BY SMTT(60) DEF Moves, Leg, Stages, Outside, Guarded, Checks, Settles, Opens, Arms

LEMMA SettlesStay ==
  ASSUME NEW s \in DOMAIN Settles
  PROVE  Settles[s] \in Stages
BY SMTT(60) DEF Moves, Leg, Stages, Outside, Guarded, Checks, Settles, Opens

LEMMA OpensStay ==
  ASSUME NEW s \in DOMAIN Opens
  PROVE  Opens[s] \in Stages
BY SMTT(60) DEF Moves, Leg, Stages, Outside, Guarded, Checks, Settles, Opens

LEMMA NamedStages ==
  { "new", "rejected", "accepted", "done", "locked", "report", "lower", "succeed",
    "grasp_missed", "unlock", "pregrasp", "approach", "push_close", "settle_close",
    "lift", "reopen", "settle_push", "retreat", "home" } \subseteq Stages
BY SMTT(60) DEF Moves, Leg, Stages, Outside, Guarded, Checks, Settles, Opens

-----------------------------------------------------------------------------
(* Type correctness.                                                       *)

LEMMA ReportType ==
  ASSUME TypeOK, NEW t \in Threads, NEW value \in BOOLEAN, Report(t, value)
  PROVE  call' \in [Threads -> [ step  : {"none", "write", "read", "send"},
                                 value : BOOLEAN ]]
BY DEF TypeOK, Report

LEMMA FinishType ==
  ASSUME TypeOK, NEW g \in Goals, NEW code \in Codes, FinishWith(g, code)
  PROVE  /\ stage' \in [Goals -> Stages]
         /\ outcome' \in [Goals -> Codes]
         /\ verdict' \in [Goals -> {"none", "succeeded", "aborted", "canceled"}]
         /\ call' \in [Threads -> [ step  : {"none", "write", "read", "send"},
                                    value : BOOLEAN ]]
         /\ lock' = lock /\ cancelled' = cancelled
<1>1. call' \in [Threads -> [ step  : {"none", "write", "read", "send"}, value : BOOLEAN ]]
  BY ReportType DEF FinishWith, Threads
<1> QED BY <1>1, NamedStages DEF FinishWith, Goto, TypeOK

LEMMA FingersType ==
  ASSUME TypeOK, FingersOpen
  PROVE  held' \in Goals \cup {NoGoal}
BY DEF TypeOK, FingersOpen

LEMMA ReachesType ==
  ASSUME NEW g \in Goals, NEW at \in Arms, Reaches(g, at)
  PROVE  arm' \in Arms /\ abreast' \in BOOLEAN
BY DEF Reaches

LEMMA TypeInit == Init => TypeOK
<1> SUFFICES ASSUME Init PROVE TypeOK
  OBVIOUS
<1>1. stage \in [Goals -> Stages]
  BY NamedStages DEF Init
<1>2. call \in [Threads -> [ step : {"none", "write", "read", "send"}, value : BOOLEAN ]]
  BY DEF Init, Idle
<1>3. outcome \in [Goals -> Codes]
  BY DEF Init, Codes
<1> QED BY <1>1, <1>2, <1>3 DEF Init, TypeOK

LEMMA ServeType == ASSUME TypeOK, NEW g \in Goals, Serve(g), UNCHANGED hung PROVE TypeOK'
<1> USE DEF halt, home, beacon, world, Threads
<1>1. CASE TakeLock(g)
  BY <1>1, NamedStages DEF TakeLock, Goto, TypeOK
<1>2. CASE Busy(g)
  BY <1>2, NamedStages DEF Busy, Goto, TypeOK, Codes
<1>3. CASE Begin(g)
  <2>1. CASE g \in PushGoals
    BY <1>3, <2>1, NamedStages DEF Begin, Goto, TypeOK, server
  <2>2. CASE g \notin PushGoals
    <3>1. Report(g, FALSE)
      BY <1>3, <2>2 DEF Begin
    <3>2. call' \in [Threads -> [ step  : {"none", "write", "read", "send"}, value : BOOLEAN ]]
      BY <3>1, ReportType
    <3>3. Goto(g, "pregrasp") \/ Goto(g, "approach")
      BY <1>3, <2>2 DEF Begin
    <3>4. stage' \in [Goals -> Stages]
      BY <3>3, NamedStages DEF Goto, TypeOK
    <3> QED BY <1>3, <3>2, <3>4 DEF Begin, TypeOK, server
  <2> QED BY <2>1, <2>2
<1>4. CASE LeavesWorkspace(g)
  <2>1. FinishWith(g, WorkspaceViolation) /\ WorkspaceViolation \in Codes
    BY <1>4 DEF LeavesWorkspace, Codes
  <2> QED BY <1>4, <2>1, FinishType DEF LeavesWorkspace, TypeOK
<1>5. CASE Unlock(g)
  BY <1>5, NamedStages DEF Unlock, Goto, TypeOK
<1> QED BY <1>1, <1>2, <1>3, <1>4, <1>5 DEF Serve

LEMMA SequenceType == ASSUME TypeOK, NEW g \in Goals, Sequence(g), UNCHANGED hung PROVE TypeOK'
<1> USE DEF halt, home, beacon, world, around, server, Threads
<1>1. CASE Check(g)
  BY <1>1, ChecksStay DEF Check, Goto, TypeOK
<1>2. CASE SeesStop(g)
  BY <1>2, FinishType DEF SeesStop, TypeOK, Codes
<1>3. CASE Move(g)
  <2>1. arm' \in Arms /\ abreast' \in BOOLEAN
    BY <1>3, MovesStay, ReachesType DEF Move, TypeOK, Arms
  <2> QED BY <1>3, <2>1, MovesStay DEF Move, Goto, TypeOK, Arms
<1>4. CASE Settle(g)
  BY <1>4, SettlesStay DEF Settle, Goto, TypeOK
<1>5. CASE Breaks(g)
  <2>1. FinishWith(g, MotionFail) /\ MotionFail \in Codes
    BY <1>5 DEF Breaks, Codes
  <2>2. arm' \in Arms /\ abreast' \in BOOLEAN
    BY <1>5, MovesStay, ReachesType DEF Breaks, TypeOK, Arms
  <2>3. held' \in Goals \cup {NoGoal} /\ opened' = opened
    BY <1>5, FingersType DEF Breaks, TypeOK, FingersStay
  <2> QED BY <1>5, <2>1, <2>2, <2>3, FinishType DEF Breaks, TypeOK, Arms
<1>6. CASE Close(g)
  BY <1>6, NamedStages DEF Close, Goto, TypeOK
<1>7. CASE VerifyGrip(g)
  BY <1>7, NamedStages DEF VerifyGrip, Goto, TypeOK
<1>8. CASE Open(g)
  <2>1. held' \in Goals \cup {NoGoal}
    BY <1>8, FingersType DEF Open, TypeOK, FingersStay
  <2> QED BY <1>8, <2>1, OpensStay DEF Open, Goto, TypeOK
<1>9. CASE PushClose(g)
  BY <1>9, NamedStages DEF PushClose, Goto, TypeOK
<1>10. CASE ReportPlaced(g)
  <2>1. AtPlaceY \in BOOLEAN
    BY DEF AtPlaceY, TypeOK
  <2>2. call' \in [Threads -> [ step  : {"none", "write", "read", "send"}, value : BOOLEAN ]]
    BY <1>10, <2>1, ReportType DEF ReportPlaced
  <2> QED BY <1>10, <2>2, NamedStages DEF ReportPlaced, Goto, TypeOK
<1>11. CASE Lower(g)
  <2>1. call' \in [Threads -> [ step  : {"none", "write", "read", "send"}, value : BOOLEAN ]]
    BY <1>11, ReportType DEF Lower
  <2> QED BY <1>11, <2>1, NamedStages DEF Lower, Goto, TypeOK
<1>12. CASE Finish(g)
  BY <1>12, FinishType DEF Finish, TypeOK, Codes
<1> QED BY <1>1, <1>2, <1>3, <1>4, <1>5, <1>6, <1>7, <1>8, <1>9, <1>10, <1>11, <1>12 DEF Sequence

LEMMA PublishType == ASSUME TypeOK, NEW t \in Threads, Publish(t), UNCHANGED hung PROVE TypeOK'
<1> USE DEF halt, home, beacon, world, server
<1>1. CASE WriteFlag(t)
  BY <1>1 DEF WriteFlag, TypeOK, Reading
<1>2. CASE ReadFlag(t)
  BY <1>2 DEF ReadFlag, TypeOK
<1>3. CASE SendFlag(t)
  BY <1>3 DEF SendFlag, TypeOK, Idle
<1> QED BY <1>1, <1>2, <1>3 DEF Publish

LEMMA ServicesType ==
  ASSUME TypeOK, StopOpens \/ Tick \/ Environment, UNCHANGED hung
  PROVE  TypeOK'
<1> USE DEF halt, home, beacon, world, server, Threads
<1>1. CASE StopOpens
  <2>1. held' \in Goals \cup {NoGoal}
    BY <1>1, FingersType DEF StopOpens, TypeOK, FingersStay
  <2> QED BY <1>1, <2>1 DEF StopOpens, TypeOK
<1>2. CASE Tick
  BY <1>2 DEF Tick, TypeOK, Reading
<1>3. ASSUME NEW g \in Goals, Submit(g) PROVE TypeOK'
  BY <1>3, NamedStages DEF Submit, Goto, TypeOK
<1>4. ASSUME NEW g \in Goals, RequestCancel(g) PROVE TypeOK'
  BY <1>4 DEF RequestCancel, TypeOK
<1>5. CASE SignalStop
  <2>1. call' \in [Threads -> [ step  : {"none", "write", "read", "send"}, value : BOOLEAN ]]
    BY <1>5, ReportType DEF SignalStop
  <2>2. told' \in [Goals -> {"never", "before", "during"}]
    BY <1>5 DEF SignalStop, TypeOK
  <2> QED BY <1>5, <2>1, <2>2 DEF SignalStop, TypeOK
<1>6. CASE HomeCalled
  BY <1>6 DEF HomeCalled, TypeOK
<1>7. CASE HomeReached
  BY <1>7 DEF HomeReached, TypeOK
<1> QED BY <1>1, <1>2, <1>3, <1>4, <1>5, <1>6, <1>7 DEF Environment

(* Nothing changes, but that a thread may begin to wait for ever.          *)
Stays ==
  /\ UNCHANGED << stage, server, halt, home, beacon, call, world >>
  /\ hung' = hung \/ \E g \in Goals : hung' = hung \cup {g}

(* Every step is one of these.                                             *)
LEMMA StepCases ==
  ASSUME [Next]_vars
  PROVE  \/ /\ \/ \E g \in Goals : Serve(g) \/ Sequence(g)
               \/ \E t \in Threads : Publish(t)
               \/ StopOpens \/ Tick \/ Environment
            /\ UNCHANGED hung
         \/ Stays
BY DEF Next, GoalThread, StopThread, BeaconThread, Environment, Threads, Stays, Hang, vars, server,
       around

LEMMA TypeStep == TypeOK /\ [Next]_vars => TypeOK'
<1> SUFFICES ASSUME TypeOK, [Next]_vars PROVE TypeOK'
  OBVIOUS
<1>1. CASE Stays
  BY <1>1 DEF Stays, server, halt, home, beacon, world, TypeOK
<1> QED BY <1>1, StepCases, ServeType, SequenceType, PublishType, ServicesType

(* Every variable of the robot node keeps its type (RobotControlNode).     *)
THEOREM RobotTypeCorrect == Spec => []TypeOK
BY TypeInit, TypeStep, PTL DEF Spec

-----------------------------------------------------------------------------
(* One goal at a time.                                                     *)

LEMMA TablesInside ==
  /\ \A s \in DOMAIN Checks  : s \notin Outside /\ Checks[s] \notin Outside
  /\ \A s \in DOMAIN Moves   : s \notin Outside /\ Moves[s].next \notin Outside
  /\ \A s \in DOMAIN Settles : s \notin Outside /\ Settles[s] \notin Outside
  /\ \A s \in DOMAIN Opens   : s \notin Outside /\ Opens[s] \notin Outside
  /\ Guarded \cap Outside = {}
<1>1. \A s \in DOMAIN Checks  : s \notin Outside /\ Checks[s] \notin Outside
  BY DEF Checks, Outside
<1>2. \A s \in DOMAIN Moves   : s \notin Outside /\ Moves[s].next \notin Outside
  BY SMTT(60) DEF Moves, Leg, Outside
<1>3. \A s \in DOMAIN Settles : s \notin Outside /\ Settles[s] \notin Outside
  BY DEF Settles, Outside
<1>4. \A s \in DOMAIN Opens   : s \notin Outside /\ Opens[s] \notin Outside
  BY DEF Opens, Outside
<1>5. Guarded \cap Outside = {}
  BY <1>2, <1>3, <1>4 DEF Guarded, Outside
<1> QED BY <1>1, <1>2, <1>3, <1>4, <1>5

(* A step of a sequence begins and ends inside it, when the thread is not  *)
(* reporting on place_ready, and leaves the lock and the stop alone.       *)
LEMMA SequenceEffect ==
  ASSUME TypeOK, NEW g \in Goals, Sequence(g)
  PROVE  /\ Quiet(g) /\ InProgress(g) /\ InProgress(g)'
         /\ \A h \in Goals \ {g} : stage'[h] = stage[h]
         /\ UNCHANGED << lock, cancelled, halt, home, beacon >>
<1> USE TablesInside DEF InProgress, At, server, halt, home, beacon, world, around
<1>1. CASE Check(g)
  BY <1>1 DEF Check, Goto, TypeOK
<1>2. CASE SeesStop(g)
  BY <1>2 DEF SeesStop, FinishWith, Goto, TypeOK, Outside
<1>3. CASE Move(g)
  BY <1>3 DEF Move, Goto, TypeOK
<1>4. CASE Settle(g)
  BY <1>4 DEF Settle, Goto, TypeOK
<1>5. CASE Breaks(g)
  BY <1>5 DEF Breaks, FinishWith, Goto, TypeOK, Outside
<1>6. CASE Close(g)
  BY <1>6 DEF Close, Goto, TypeOK, Outside
<1>7. CASE VerifyGrip(g)
  BY <1>7 DEF VerifyGrip, Goto, TypeOK, Outside
<1>8. CASE Open(g)
  BY <1>8 DEF Open, Goto, TypeOK
<1>9. CASE PushClose(g)
  BY <1>9 DEF PushClose, Goto, TypeOK, Outside
<1>10. CASE ReportPlaced(g)
  BY <1>10 DEF ReportPlaced, Goto, TypeOK, Outside
<1>11. CASE Lower(g)
  BY <1>11 DEF Lower, Goto, TypeOK, Outside
<1>12. CASE Finish(g)
  BY <1>12 DEF Finish, FinishWith, Goto, TypeOK, Outside
<1> QED BY <1>1, <1>2, <1>3, <1>4, <1>5, <1>6, <1>7, <1>8, <1>9, <1>10, <1>11, <1>12 DEF Sequence

(* So does the part of the server that neither takes nor frees the lock.   *)
LEMMA ServedEffect ==
  ASSUME TypeOK, NEW g \in Goals, Begin(g) \/ LeavesWorkspace(g)
  PROVE  /\ stage[g] = "locked" /\ InProgress(g) /\ InProgress(g)'
         /\ \A h \in Goals \ {g} : stage'[h] = stage[h]
         /\ lock' = lock /\ stopEvent' = FALSE
<1> USE DEF InProgress, At, Outside
<1>1. CASE Begin(g)
  <2>1. Goto(g, "push_close") \/ Goto(g, "pregrasp") \/ Goto(g, "approach")
    BY <1>1 DEF Begin
  <2> QED BY <1>1, <2>1 DEF Begin, Goto, TypeOK, server
<1>2. CASE LeavesWorkspace(g)
  BY <1>2 DEF LeavesWorkspace, FinishWith, Goto, TypeOK
<1> QED BY <1>1, <1>2

(* Publishing, the services and the clients move no goal but a new one.    *)
LEMMA OthersEffect ==
  ASSUME TypeOK, (\E t \in Threads : Publish(t)) \/ StopOpens \/ Tick \/ Environment \/ Stays
  PROVE  /\ \A g \in Goals :
              /\ InProgress(g) <=> InProgress(g)'
              /\ stage[g] # "new" => stage'[g] = stage[g]
              /\ stage[g] = "new" => stage'[g] \in {"new", "accepted", "rejected"}
         /\ UNCHANGED << lock, outcome, verdict >>
<1> USE DEF InProgress, server, halt, home, beacon, world
<1>1. ASSUME NEW t \in Threads, Publish(t)
      PROVE  UNCHANGED << stage, lock, outcome, verdict >>
  BY <1>1 DEF Publish, WriteFlag, ReadFlag, SendFlag
<1>2. CASE StopOpens \/ Tick \/ Stays
  BY <1>2 DEF StopOpens, Tick, Stays
<1>3. ASSUME NEW g \in Goals, Submit(g)
      PROVE  /\ \A h \in Goals :
                  /\ InProgress(h) <=> InProgress(h)'
                  /\ stage[h] # "new" => stage'[h] = stage[h]
                  /\ stage[h] = "new" => stage'[h] \in {"new", "accepted", "rejected"}
             /\ UNCHANGED << lock, outcome, verdict >>
  BY <1>3 DEF Submit, Goto, TypeOK, Outside
<1>4. ASSUME NEW g \in Goals, RequestCancel(g)
      PROVE  UNCHANGED << stage, lock, outcome, verdict >>
  BY <1>4 DEF RequestCancel
<1>5. CASE SignalStop \/ HomeCalled \/ HomeReached
  BY <1>5 DEF SignalStop, HomeCalled, HomeReached
<1> QED BY <1>1, <1>2, <1>3, <1>4, <1>5 DEF Environment

(* Who is in progress has the lock.                                        *)
LockOwned == \A g \in Goals : InProgress(g) => lock = g

LEMMA LockInit == Init => LockOwned
BY DEF Init, LockOwned, InProgress, Outside

LEMMA LockStep == TypeOK /\ LockOwned /\ [Next]_vars => LockOwned'
<1> SUFFICES ASSUME TypeOK, LockOwned, [Next]_vars PROVE LockOwned'
  OBVIOUS
<1>1. ASSUME NEW g \in Goals, Sequence(g) PROVE LockOwned'
  BY <1>1, SequenceEffect DEF LockOwned, InProgress
<1>2. ASSUME NEW g \in Goals, Serve(g) PROVE LockOwned'
  <2>1. CASE Begin(g) \/ LeavesWorkspace(g)
    BY <2>1, ServedEffect DEF LockOwned, InProgress
  <2>2. CASE TakeLock(g)
    BY <2>2, RobotControlAssumption DEF TakeLock, Goto, TypeOK, LockOwned, InProgress
  <2>3. CASE Busy(g)
    BY <2>3 DEF Busy, Goto, TypeOK, LockOwned, InProgress, Outside
  <2>4. CASE Unlock(g)
    <3>1. InProgress(g)
      BY <2>4 DEF Unlock, At, InProgress, Outside
    <3> QED BY <2>4, <3>1 DEF Unlock, Goto, TypeOK, LockOwned, InProgress, Outside
  <2> QED BY <1>2, <2>1, <2>2, <2>3, <2>4 DEF Serve
<1>3. CASE (\E t \in Threads : Publish(t)) \/ StopOpens \/ Tick \/ Environment \/ Stays
  BY <1>3, OthersEffect DEF LockOwned
<1> QED BY <1>1, <1>2, <1>3, StepCases

LEMMA LockInvariant == Spec => [](TypeOK /\ LockOwned)
<1>1. Init => TypeOK /\ LockOwned
  BY TypeInit, LockInit
<1>2. TypeOK /\ LockOwned /\ [Next]_vars => (TypeOK /\ LockOwned)'
  BY TypeStep, LockStep
<1> QED BY <1>1, <1>2, PTL DEF Spec

(* However many goals _on_goal lets in while the lock is free, their       *)
(* sequences never run together (_execute_pick_and_place, _busy_lock).     *)
THEOREM GoalsExclusive == Spec => []Exclusive
<1>1. TypeOK /\ LockOwned => Exclusive
  BY DEF LockOwned, Exclusive
<1> QED BY <1>1, LockInvariant, PTL

-----------------------------------------------------------------------------
(* Stops.                                                                  *)

(* A goal has no result before it is over.                                 *)
Unanswered == \A g \in Goals : stage[g] \notin {"unlock", "done"} => outcome[g] = Pending

(* Where a goal may be after a stop that came while it ran: before a check *)
(* that will see the event, on the way out after an empty grasp, or over,  *)
(* without success.                                                        *)
Heeding(g) ==
  \/ stage[g] \in Stoppable /\ stopEvent
  \/ stage[g] \in {"reopen", "back_off", "grasp_missed"}
  \/ stage[g] \in {"unlock", "done"} /\ outcome[g] # Success

StopInv == Unanswered /\ \A g \in Goals : told[g] = "during" => Heeding(g)

LEMMA StoppableTables ==
  /\ Stoppable \cap (Outside \cup {"locked", "unlock", "done"}) = {}
  /\ \A s \in DOMAIN Moves : s \in Stoppable \cup {"back_off"}
                              => Moves[s].next \in Stoppable \cup {"grasp_missed"}
  /\ \A s \in DOMAIN Settles : s \in Stoppable => Settles[s] \in Stoppable
  /\ \A s \in DOMAIN Opens : s \in Stoppable \cup {"reopen"}
                              => Opens[s] \in Stoppable \cup {"back_off"}
<1>1. Stoppable \cap (Outside \cup {"locked", "unlock", "done"}) = {}
  BY DEF Stoppable, Checks, Outside
<1>2. \A s \in DOMAIN Moves : s \in Stoppable \cup {"back_off"}
                              => Moves[s].next \in Stoppable \cup {"grasp_missed"}
  BY SMTT(60) DEF Moves, Leg, Stoppable, Checks
<1>3. \A s \in DOMAIN Settles : s \in Stoppable => Settles[s] \in Stoppable
  BY DEF Settles, Stoppable, Checks
<1>4. \A s \in DOMAIN Opens : s \in Stoppable \cup {"reopen"}
                              => Opens[s] \in Stoppable \cup {"back_off"}
  BY DEF Opens, Stoppable, Checks
<1> QED BY <1>1, <1>2, <1>3, <1>4

LEMMA StopInit == Init => StopInv
BY DEF Init, StopInv, Unanswered

(* A sequence that a stop has reached goes on to a check, or out.          *)
LEMMA SequenceHeeds ==
  ASSUME TypeOK, NEW g \in Goals, Sequence(g), Unanswered, Heeding(g)
  PROVE  Heeding(g)'
<1> USE StoppableTables DEF Heeding, At, around, halt, home, beacon, Goto
<1>1. ASSUME NEW code \in Codes \ {Success}, FinishWith(g, code)
      PROVE  Heeding(g)'
  BY <1>1 DEF FinishWith, TypeOK
<1>2. CASE Check(g)
  <2>1. stage[g] \in DOMAIN Checks /\ ~stopEvent
    BY <1>2 DEF Check, IsCancelled
  <2>2. stage[g] \notin {"reopen", "back_off", "grasp_missed", "unlock", "done"}
    BY <2>1 DEF Checks
  <2> QED BY <2>1, <2>2
<1>3. CASE SeesStop(g)
  BY <1>1, <1>3 DEF SeesStop, Codes, Success, SafetyStopCode
<1>4. CASE Move(g)
  <2>1. stage[g] \in DOMAIN Moves /\ stage[g] \in Stoppable \cup {"back_off"}
    BY <1>4 DEF Move, Moves
  <2>2. stage'[g] = Moves[stage[g]].next /\ stopEvent' = stopEvent
    BY <1>4 DEF Move, TypeOK
  <2>3. stage[g] \in Stoppable => stopEvent
    BY DEF Stoppable, Checks
  <2>4. stage[g] = "back_off" => stage'[g] = "grasp_missed"
    BY <2>2 DEF Moves, Leg
  <2>5. stage[g] \in Stoppable => stage'[g] \in Stoppable \cup {"grasp_missed"}
    BY <2>1, <2>2
  <2> QED BY <2>1, <2>2, <2>3, <2>4, <2>5
<1>5. CASE Settle(g)
  <2>1. stage[g] \in DOMAIN Settles /\ stage[g] \notin {"reopen", "back_off", "grasp_missed", "unlock", "done"}
    BY <1>5 DEF Settle, Settles
  <2> QED BY <1>5, <2>1 DEF Settle, TypeOK
<1>6. CASE Breaks(g)
  BY <1>1, <1>6 DEF Breaks, Codes, Success, MotionFail
<1>7. CASE Close(g)
  BY <1>7 DEF Close, Stoppable, TypeOK
<1>8. CASE VerifyGrip(g)
  BY <1>8 DEF VerifyGrip, Stoppable, TypeOK
<1>9. CASE Open(g)
  <2>1. stage[g] \in DOMAIN Opens /\ stage[g] \in Stoppable \cup {"reopen"}
    BY <1>9 DEF Open, Opens
  <2>2. stage'[g] = Opens[stage[g]] /\ stopEvent' = stopEvent
    BY <1>9 DEF Open, TypeOK
  <2>3. stage[g] \in Stoppable => stopEvent
    BY DEF Stoppable, Checks
  <2>4. stage[g] = "reopen" => stage'[g] = "back_off"
    BY <2>2 DEF Opens
  <2> QED BY <2>1, <2>2, <2>3, <2>4
<1>10. CASE PushClose(g)
  BY <1>10 DEF PushClose, Stoppable, TypeOK
<1>11. CASE ReportPlaced(g) \/ Lower(g)
  BY <1>11 DEF ReportPlaced, Lower, Stoppable, Checks
<1>12. CASE Finish(g)
  <2>1. stage[g] # "succeed"
    BY DEF Stoppable, Checks
  <2> QED BY <1>1, <1>12, <2>1 DEF Finish, Codes, Success, GraspNotDetected
<1> QED BY <1>2, <1>3, <1>4, <1>5, <1>6, <1>7, <1>8, <1>9, <1>10, <1>11, <1>12 DEF Sequence

LEMMA SequenceAnswers ==
  ASSUME TypeOK, NEW g \in Goals, Sequence(g), Unanswered
  PROVE  /\ Unanswered'
         /\ \A h \in Goals \ {g} : outcome'[h] = outcome[h]
         /\ told' = told
<1> USE TablesInside DEF At, server, around, halt, home, beacon, Goto
<1>1. ASSUME NEW code \in Codes, FinishWith(g, code)
      PROVE  Unanswered' /\ \A h \in Goals \ {g} : outcome'[h] = outcome[h]
  BY <1>1 DEF FinishWith, Unanswered, TypeOK
<1>2. CASE SeesStop(g) \/ Breaks(g) \/ Finish(g)
  BY <1>1, <1>2 DEF SeesStop, Breaks, Finish, Codes
<1>3. CASE Check(g) \/ Move(g) \/ Settle(g) \/ Close(g) \/ VerifyGrip(g) \/ Open(g)
             \/ PushClose(g) \/ ReportPlaced(g) \/ Lower(g)
  <2>1. outcome' = outcome /\ told' = told
    BY <1>3 DEF Check, Move, Settle, Close, VerifyGrip, Open, PushClose, ReportPlaced, Lower
  <2>2. stage[g] \notin {"unlock", "done"}
    BY <1>3 DEF Check, Move, Settle, Close, VerifyGrip, Open, PushClose, ReportPlaced, Lower,
                Checks, Moves, Settles, Opens
  <2> QED BY <2>1, <2>2, SequenceEffect DEF Unanswered
<1> QED BY <1>2, <1>3, SequenceEffect DEF Sequence

LEMMA StopStep == TypeOK /\ LockOwned /\ StopInv /\ [Next]_vars => StopInv'
<1> SUFFICES ASSUME TypeOK, LockOwned, StopInv, [Next]_vars PROVE StopInv'
  OBVIOUS
<1> USE StoppableTables DEF StopInv
<1>1. ASSUME NEW g \in Goals, Sequence(g) PROVE StopInv'
  <2>1. /\ Unanswered' /\ told' = told /\ stopEvent' = stopEvent
        /\ \A h \in Goals \ {g} : outcome'[h] = outcome[h] /\ stage'[h] = stage[h]
    BY <1>1, SequenceAnswers, SequenceEffect DEF halt
  <2>2. told[g] = "during" => Heeding(g)'
    BY <1>1, SequenceHeeds
  <2> QED BY <2>1, <2>2 DEF Heeding
<1>2. ASSUME NEW g \in Goals, Serve(g) PROVE StopInv'
  <2>1. CASE Begin(g) \/ LeavesWorkspace(g)
    <3>1. told[g] # "during" /\ told' = told
      BY <2>1, ServedEffect DEF Heeding, Stoppable, Checks, Begin, LeavesWorkspace
    <3>2. \A h \in Goals \ {g} : stage[h] \in Outside
      BY <2>1, ServedEffect DEF LockOwned, InProgress
    <3>3. \A h \in Goals \ {g} : outcome'[h] = outcome[h] /\ stage'[h] = stage[h]
      BY <2>1, ServedEffect DEF Begin, LeavesWorkspace, FinishWith, TypeOK, server
    <3>4. \A h \in Goals \ {g} : told[h] = "during" => Heeding(h)'
      BY <3>2, <3>3 DEF Heeding, Outside
    <3>5. stage'[g] \notin {"unlock", "done"} => outcome'[g] = Pending
      <4>1. CASE Begin(g)
        BY <4>1, ServedEffect DEF Begin, server, Unanswered
      <4>2. CASE LeavesWorkspace(g)
        BY <4>2 DEF LeavesWorkspace, FinishWith, Goto, TypeOK
      <4> QED BY <2>1, <4>1, <4>2
    <3> QED BY <3>1, <3>3, <3>4, <3>5 DEF Unanswered
  <2>2. CASE TakeLock(g) \/ Busy(g)
    <3>1. told[g] # "during"
      BY <2>2 DEF TakeLock, Busy, At, Heeding, Outside
    <3>2. /\ told' = told /\ stopEvent' = stopEvent
          /\ \A h \in Goals \ {g} : outcome'[h] = outcome[h] /\ stage'[h] = stage[h]
          /\ stage'[g] \notin {"unlock", "done"} => outcome'[g] = Pending
      BY <2>2 DEF TakeLock, Busy, At, Goto, halt, TypeOK, Unanswered
    <3> QED BY <3>1, <3>2 DEF Unanswered, Heeding
  <2>3. CASE Unlock(g)
    BY <2>3 DEF Unlock, At, Goto, halt, TypeOK, Unanswered, Heeding, Outside
  <2> QED BY <1>2, <2>1, <2>2, <2>3 DEF Serve
<1>3. ASSUME (\E t \in Threads : Publish(t)) \/ StopOpens \/ Tick \/ Environment \/ Stays
      PROVE  StopInv'
  <2>1. /\ \A g \in Goals : stage[g] # "new" => stage'[g] = stage[g]
        /\ outcome' = outcome
    BY <1>3, OthersEffect
  <2>2. \A g \in Goals : stage[g] = "new" => stage'[g] \notin {"unlock", "done"}
    BY <1>3, OthersEffect
  <2>3. Unanswered'
    BY <2>1, <2>2 DEF Unanswered
  <2>4. CASE SignalStop
    <3>1. /\ stopEvent' = TRUE /\ stage' = stage
          /\ \A g \in Goals : told'[g] = "during" => told[g] = "during" \/ stage[g] \in Stoppable
      BY <2>4 DEF SignalStop
    <3> QED BY <2>1, <2>3, <3>1 DEF Heeding
  <2>5. CASE ~SignalStop
    <3>1. told' = told /\ stopEvent' = stopEvent
      BY <1>3, <2>5 DEF Publish, WriteFlag, ReadFlag, SendFlag, StopOpens, Tick, Environment,
           Submit, RequestCancel, HomeCalled, HomeReached, Stays, halt
    <3>2. \A g \in Goals : told[g] = "during" => stage'[g] = stage[g]
      BY <2>1 DEF Heeding, Stoppable, Checks
    <3> QED BY <2>1, <2>3, <3>1, <3>2 DEF Heeding
  <2> QED BY <2>4, <2>5
<1> QED BY <1>1, <1>2, <1>3, StepCases

LEMMA StopInvariant == Spec => [](TypeOK /\ LockOwned /\ StopInv)
<1>1. Init => StopInv
  BY StopInit
<1>2. TypeOK /\ LockOwned /\ StopInv /\ [Next]_vars => StopInv'
  BY StopStep
<1> QED BY <1>1, <1>2, LockInvariant, PTL DEF Spec

(* A stop that is signalled while a goal runs and a check is still ahead of*)
(* it is never lost: other goals may be let in and turned away, no number  *)
(* of them lets it succeed (_handle_stop, is_cancelled).                   *)
THEOREM StopsAreHeeded == Spec => []StopIsHeeded
<1>1. TypeOK /\ StopInv => StopIsHeeded
  <2> SUFFICES ASSUME StopInv, NEW g \in Goals, told[g] = "during"
               PROVE  outcome[g] # Success /\ stage[g] \notin {"move_transit", "move_push", "place"}
    BY DEF StopIsHeeded
  <2>1. Heeding(g)
    BY DEF StopInv
  <2>2. stage[g] \notin {"move_transit", "move_push", "place"}
    BY <2>1 DEF Heeding, Stoppable, Checks
  <2>3. stage[g] \in Stoppable => stage[g] \notin {"unlock", "done"}
    BY DEF Stoppable, Checks
  <2> QED BY <2>1, <2>2, <2>3 DEF Heeding, StopInv, Unanswered, Success, Pending
<1> QED BY <1>1, StopInvariant, PTL

-----------------------------------------------------------------------------
(* place_ready.                                                            *)

PushStages == Outside \cup { "locked", "push_close", "do_push_close", "settle_push",
  "push_approach", "move_push_approach", "push_descend", "move_push_descend", "push",
  "move_push", "push_retreat", "push_home", "push_open", "succeed", "unlock" }

(* A cluster push keeps to its own sequence, which reports nothing.        *)
Pushes == \A g \in PushGoals : stage[g] \in PushStages

(* Who is about to raise place_ready has just opened the fingers.          *)
Raising(t) == call[t].step = "write" /\ call[t].value
Raisers == \A t \in Threads : Raising(t) => t \in Goals \ PushGoals /\ stage[t] = "retreat"

ReadyInv == ReadyIsOwned /\ Raisers /\ Pushes

LEMMA PushTables ==
  /\ \A s \in DOMAIN Checks  : s \in PushStages => Checks[s] \in PushStages
  /\ \A s \in DOMAIN Moves   : s \in PushStages => Moves[s].next \in PushStages
  /\ \A s \in DOMAIN Settles : s \in PushStages => Settles[s] \in PushStages
  /\ \A s \in DOMAIN Opens   : s \in PushStages => Opens[s] \in PushStages
<1>1. \A s \in DOMAIN Checks  : s \in PushStages => Checks[s] \in PushStages
  BY DEF Checks, PushStages, Outside
<1>2. \A s \in DOMAIN Moves   : s \in PushStages => Moves[s].next \in PushStages
  BY SMTT(60) DEF Moves, Leg, PushStages, Outside
<1>3. \A s \in DOMAIN Settles : s \in PushStages => Settles[s] \in PushStages
  BY DEF Settles, PushStages, Outside
<1>4. \A s \in DOMAIN Opens   : s \in PushStages => Opens[s] \in PushStages
  BY DEF Opens, PushStages, Outside
<1> QED BY <1>1, <1>2, <1>3, <1>4

(* What a step of a sequence does to the calls on place_ready: it raises   *)
(* the flag only from "report", and leaves the retreat only to lower it.   *)
SequenceCalls(g) ==
  /\ \A t \in Threads \ {g} : call'[t] = call[t]
  /\ Raising(g)' => stage[g] = "report" /\ stage'[g] = "retreat"
  /\ stage[g] \in {"retreat", "lower"} => stage'[g] = "lower" \/ call'[g].step = "write"
  /\ stage[g] \in PushStages => stage'[g] \in PushStages

LEMMA SequenceReports ==
  ASSUME TypeOK, NEW g \in Goals, Sequence(g)
  PROVE  SequenceCalls(g)
<1> USE PushTables DEF SequenceCalls, Raising, At, Quiet, Goto, Threads
<1>1. ASSUME NEW code \in Codes, FinishWith(g, code)
      PROVE  SequenceCalls(g)
  BY <1>1 DEF FinishWith, Report, TypeOK, PushStages
<1>2. CASE SeesStop(g) \/ Breaks(g) \/ Finish(g)
  BY <1>1, <1>2 DEF SeesStop, Breaks, Finish, Codes
<1>3. CASE Check(g)
  <2>1. stage[g] \in DOMAIN Checks /\ stage[g] \notin {"retreat", "lower"} /\ call' = call
    BY <1>3 DEF Check, Checks
  <2> QED BY <1>3, <2>1 DEF Check, TypeOK
<1>4. CASE Move(g)
  <2>1. stage[g] \in DOMAIN Moves /\ stage'[g] = Moves[stage[g]].next /\ call' = call
    BY <1>4 DEF Move, TypeOK
  <2>2. stage[g] # "lower"
    BY <2>1 DEF Moves
  <2>3. stage[g] = "retreat" => stage'[g] = "lower"
    BY <2>1 DEF Moves, Leg
  <2> QED BY <1>4, <2>1, <2>2, <2>3 DEF Move
<1>5. CASE Settle(g)
  <2>1. stage[g] \in DOMAIN Settles /\ stage[g] \notin {"retreat", "lower"} /\ call' = call
    BY <1>5 DEF Settle, Settles
  <2> QED BY <1>5, <2>1 DEF Settle, TypeOK
<1>6. CASE Open(g)
  <2>1. stage[g] \in DOMAIN Opens /\ stage[g] \notin {"retreat", "lower"} /\ call' = call
    BY <1>6 DEF Open, Opens
  <2> QED BY <1>6, <2>1 DEF Open, TypeOK
<1>7. CASE Close(g) \/ VerifyGrip(g) \/ PushClose(g)
  BY <1>7 DEF Close, VerifyGrip, PushClose, TypeOK, PushStages, Outside
<1>8. CASE ReportPlaced(g)
  BY <1>8 DEF ReportPlaced, Report, TypeOK, PushStages, Outside
<1>9. CASE Lower(g)
  BY <1>9 DEF Lower, Report, TypeOK, PushStages, Outside
<1> QED BY <1>2, <1>3, <1>4, <1>5, <1>6, <1>7, <1>8, <1>9 DEF Sequence

LEMMA ReadyInit == Init => ReadyInv
BY RobotControlAssumption DEF Init, ReadyInv, ReadyIsOwned, Raisers, Raising, Pushes, Idle, PushStages, Outside

LEMMA SequenceReady ==
  ASSUME TypeOK, LockOwned, ReadyInv, NEW g \in Goals, Sequence(g)
  PROVE  ReadyInv'
<1>1. SequenceCalls(g)
  BY SequenceReports
<1>2. /\ Quiet(g) /\ lock = g /\ lock' = lock /\ ready' = ready
      /\ \A h \in Goals \ {g} : stage'[h] = stage[h]
  BY SequenceEffect DEF LockOwned, beacon
<1>3. ReadyIsOwned'
  BY <1>1, <1>2 DEF ReadyInv, ReadyIsOwned, SequenceCalls, Quiet
<1>4. Pushes'
  BY <1>1, <1>2, RobotControlAssumption DEF ReadyInv, Pushes, SequenceCalls
<1>5. Raisers'
  <2> SUFFICES ASSUME NEW t \in Threads, Raising(t)'
               PROVE  t \in Goals \ PushGoals /\ stage'[t] = "retreat"
    BY DEF Raisers
  <2>1. CASE t = g
    <3>1. stage[g] = "report" /\ stage'[g] = "retreat"
      BY <1>1, <2>1 DEF SequenceCalls
    <3>2. g \notin PushGoals
      BY <3>1 DEF ReadyInv, Pushes, PushStages, Outside
    <3> QED BY <2>1, <3>1, <3>2
  <2>2. CASE t # g
    BY <1>1, <1>2, <2>2 DEF SequenceCalls, ReadyInv, Raisers, Raising
  <2> QED BY <2>1, <2>2
<1> QED BY <1>3, <1>4, <1>5 DEF ReadyInv

(* While a goal comes and goes the flag is down.                           *)
LEMMA ServeReady ==
  ASSUME TypeOK, LockOwned, ReadyInv, NEW g \in Goals, Serve(g)
  PROVE  ReadyInv'
<1> USE DEF ReadyInv, ReadyIsOwned, Raisers, Raising, Pushes, At, Quiet, Goto, beacon
<1>1. CASE TakeLock(g)
  BY <1>1, RobotControlAssumption DEF TakeLock, TypeOK, PushStages, Threads
<1>2. CASE Busy(g)
  BY <1>2, RobotControlAssumption DEF Busy, TypeOK, PushStages, Outside, Threads
<1>3. CASE Begin(g)
  <2>1. lock = g /\ ~ready /\ ready' = ready
    BY <1>3 DEF Begin, LockOwned, InProgress, Outside
  <2>2. CASE g \in PushGoals
    <3>1. stage' = [stage EXCEPT ![g] = "push_close"] /\ call' = call /\ stage[g] = "locked"
      BY <1>3, <2>2 DEF Begin
    <3> QED BY <2>1, <3>1, RobotControlAssumption DEF TypeOK, PushStages
  <2>3. CASE g \notin PushGoals
    <3>1. Report(g, FALSE) /\ stage[g] = "locked"
          /\ stage' = [stage EXCEPT ![g] = IF PreGrasp THEN "pregrasp" ELSE "approach"]
      BY <1>3, <2>3 DEF Begin
    <3>2. \A t \in Threads : Raising(t)' => t # g /\ Raising(t)
      BY <3>1 DEF Report, TypeOK, Threads
    <3>3. \A h \in Goals \ {g} : stage'[h] = stage[h]
      BY <3>1 DEF TypeOK
    <3> QED BY <2>1, <2>3, <3>2, <3>3, RobotControlAssumption
  <2> QED BY <2>2, <2>3
<1>4. CASE LeavesWorkspace(g)
  <2>1. ~ready /\ ready' = ready
    BY <1>4 DEF LeavesWorkspace, LockOwned, InProgress, Outside
  <2>2. Report(g, FALSE) /\ stage' = [stage EXCEPT ![g] = "unlock"] /\ stage[g] = "locked"
    BY <1>4 DEF LeavesWorkspace, FinishWith
  <2>3. \A t \in Threads : Raising(t)' => t # g /\ Raising(t)
    BY <2>2 DEF Report, TypeOK, Threads
  <2> QED BY <2>1, <2>2, <2>3, RobotControlAssumption DEF TypeOK, PushStages
<1>5. CASE Unlock(g)
  <2>1. lock = g /\ ~ready
    BY <1>5 DEF Unlock, LockOwned, InProgress, Outside
  <2> QED BY <1>5, <2>1, RobotControlAssumption DEF Unlock, TypeOK, PushStages, Outside, Threads
<1> QED BY <1>1, <1>2, <1>3, <1>4, <1>5 DEF Serve

(* The flag is written by the thread that means it, and by no other.       *)
LEMMA OthersReady ==
  ASSUME TypeOK, LockOwned, ReadyInv,
         (\E t \in Threads : Publish(t)) \/ StopOpens \/ Tick \/ Environment \/ Stays
  PROVE  ReadyInv'
<1> USE DEF ReadyInv, ReadyIsOwned, Raisers, Raising, Pushes, Quiet, server, beacon
<1>1. ASSUME NEW t \in Threads, Publish(t) PROVE ReadyInv'
  <2>1. CASE WriteFlag(t)
    <3>1. /\ stage' = stage /\ lock' = lock /\ ready' = call[t].value
          /\ call' = [call EXCEPT ![t] = Reading] /\ call[t].step = "write"
      BY <2>1 DEF WriteFlag
    <3>2. call[t].value => lock = t
      BY <3>1 DEF LockOwned, InProgress, Outside
    <3>3. call[t].value \in BOOLEAN
      BY DEF TypeOK
    <3> QED BY <3>1, <3>2, <3>3 DEF Reading, TypeOK
  <2>2. CASE ReadFlag(t)
    BY <2>2 DEF ReadFlag, TypeOK, Threads
  <2>3. CASE SendFlag(t)
    BY <2>3 DEF SendFlag, TypeOK, Idle, Threads
  <2> QED BY <1>1, <2>1, <2>2, <2>3 DEF Publish
<1>2. CASE Tick
  BY <1>2, RobotControlAssumption DEF Tick, TypeOK, Reading, Threads
<1>3. CASE StopOpens \/ Stays \/ HomeCalled \/ HomeReached
  BY <1>3 DEF StopOpens, HomeCalled, HomeReached, Stays
<1>4. ASSUME NEW g \in Goals, Submit(g) \/ RequestCancel(g) PROVE ReadyInv'
  <2>1. /\ call' = call /\ lock' = lock /\ ready' = ready
        /\ \A h \in Goals : \/ stage'[h] = stage[h]
                            \/ stage[h] = "new" /\ stage'[h] \in {"accepted", "rejected"}
    BY <1>4 DEF Submit, RequestCancel, Goto, TypeOK
  <2> QED BY <2>1, RobotControlAssumption DEF PushStages, Outside
<1>5. CASE SignalStop
  <2>1. /\ stage' = stage /\ lock' = lock /\ ready' = ready
        /\ call' = [call EXCEPT ![Stopper] = [step |-> "write", value |-> FALSE]]
    BY <1>5 DEF SignalStop, Report
  <2> QED BY <2>1, RobotControlAssumption DEF TypeOK, Threads
<1> QED BY <1>1, <1>2, <1>3, <1>4, <1>5 DEF Environment

LEMMA ReadyStep == TypeOK /\ LockOwned /\ ReadyInv /\ [Next]_vars => ReadyInv'
BY StepCases, SequenceReady, ServeReady, OthersReady

LEMMA ReadyInvariant == Spec => [](TypeOK /\ LockOwned /\ ReadyInv)
<1>1. Init => ReadyInv
  BY ReadyInit
<1>2. TypeOK /\ LockOwned /\ ReadyInv /\ [Next]_vars => ReadyInv'
  BY ReadyStep
<1> QED BY <1>1, <1>2, LockInvariant, PTL DEF Spec

(* place_ready never outlives the retreat of the goal that raised it: a    *)
(* stop, an exception, a cancellation or the end of the goal lowers it     *)
(* before the lock is free for the next one (the finally block of          *)
(* _execute_pick_and_place).                                               *)
THEOREM ReadyOwned == Spec => []ReadyIsOwned
<1>1. ReadyInv => ReadyIsOwned
  BY DEF ReadyInv
<1> QED BY <1>1, ReadyInvariant, PTL

-----------------------------------------------------------------------------
(* What place_ready says.                                                  *)

(* A goal that finds its TCP at the y of the place point after its        *)
(* fingers were told to open told them so at that y: from there to the look*)
(* at the pose the arm only moves when home takes it away.                 *)
Opened(g) == stage[g] \in {"settle_open", "report"} /\ AtPlaceY => g \in opened

OpenedInv ==
  /\ \A g \in Goals : Opened(g)
  /\ \A t \in Threads : Raising(t) => t \in opened
  /\ ReadyMeansOpened

LEMMA OpeningTables ==
  /\ \A s \in DOMAIN Checks : Checks[s] \notin {"settle_open", "report"}
  /\ \A s \in DOMAIN Moves : Moves[s].next \notin {"settle_open", "report"}
  /\ \A s \in DOMAIN Settles : Settles[s] # "settle_open" /\ (Settles[s] = "report" => s = "settle_open")
  /\ \A s \in DOMAIN Opens : Opens[s] # "report" /\ (Opens[s] = "settle_open" => s = "open")
<1>1. \A s \in DOMAIN Checks : Checks[s] \notin {"settle_open", "report"}
  BY DEF Checks
<1>2. \A s \in DOMAIN Moves : Moves[s].next \notin {"settle_open", "report"}
  BY SMTT(60) DEF Moves, Leg
<1>3. \A s \in DOMAIN Settles : Settles[s] # "settle_open" /\ (Settles[s] = "report" => s = "settle_open")
  BY DEF Settles
<1>4. \A s \in DOMAIN Opens : Opens[s] # "report" /\ (Opens[s] = "settle_open" => s = "open")
  BY DEF Opens
<1> QED BY <1>1, <1>2, <1>3, <1>4

LEMMA SequenceOpens ==
  ASSUME TypeOK, NEW g \in Goals, Sequence(g), Opened(g)
  PROVE  Opened(g)' /\ opened \subseteq opened'
<1> USE OpeningTables DEF At, Goto, around, server, world, Opened, AtPlaceY
<1>1. ASSUME NEW code, FinishWith(g, code), opened' = opened
      PROVE  Opened(g)' /\ opened \subseteq opened'
  BY <1>1 DEF FinishWith, TypeOK
<1>2. CASE SeesStop(g) \/ Finish(g) \/ Breaks(g)
  BY <1>1, <1>2 DEF SeesStop, Finish, Breaks
<1>3. CASE Check(g)
  BY <1>3 DEF Check, TypeOK
<1>4. CASE Move(g)
  BY <1>4 DEF Move, TypeOK
<1>5. CASE Settle(g)
  BY <1>5 DEF Settle, TypeOK
<1>6. CASE Open(g)
  <2>1. /\ stage[g] \in DOMAIN Opens /\ stage'[g] = Opens[stage[g]] /\ abreast' = abreast
        /\ opened' = IF stage[g] = "open" /\ abreast THEN opened \cup {g} ELSE opened
    BY <1>6 DEF Open, TypeOK
  <2> QED BY <2>1
<1>7. CASE Close(g) \/ VerifyGrip(g) \/ PushClose(g) \/ ReportPlaced(g) \/ Lower(g)
  <2>1. opened' = opened /\ stage'[g] \in {"settle_close", "lift", "reopen", "settle_push", "retreat", "home"}
    BY <1>7 DEF Close, VerifyGrip, PushClose, ReportPlaced, Lower, TypeOK
  <2> QED BY <2>1
<1> QED BY <1>2, <1>3, <1>4, <1>5, <1>6, <1>7 DEF Sequence

(* A goal that raises the flag saw itself at that y.                       *)
LEMMA RaisesOpened ==
  ASSUME TypeOK, NEW g \in Goals, Sequence(g), Opened(g), Raising(g)'
  PROVE  g \in opened'
<1>1. stage[g] = "report" /\ stage'[g] = "retreat"
  BY SequenceReports DEF SequenceCalls
<1>2. ReportPlaced(g)
  BY <1>1 DEF Sequence, Check, SeesStop, Move, Settle, Breaks, Close, VerifyGrip, Open,
     PushClose, Lower, Finish, At, Checks, Moves, Settles, Opens, Guarded
<1>3. AtPlaceY /\ opened' = opened
  BY <1>2 DEF ReportPlaced, Report, Raising, TypeOK, Threads, world
<1> QED BY <1>1, <1>3 DEF Opened

LEMMA OpenedInit == Init => OpenedInv
BY DEF Init, OpenedInv, Opened, Raising, Idle, ReadyMeansOpened

LEMMA OpenedStep == TypeOK /\ LockOwned /\ ReadyInv /\ OpenedInv /\ [Next]_vars => OpenedInv'
<1> SUFFICES ASSUME TypeOK, LockOwned, ReadyInv, OpenedInv, [Next]_vars PROVE OpenedInv'
  OBVIOUS
<1> USE DEF OpenedInv, ReadyMeansOpened
<1>1. ASSUME NEW g \in Goals, Sequence(g) PROVE OpenedInv'
  <2>1. Opened(g)' /\ opened \subseteq opened'
    BY <1>1, SequenceOpens
  <2>2. /\ lock' = lock /\ ready' = ready /\ lock = g
        /\ \A h \in Goals \ {g} : stage'[h] = stage[h]
    BY <1>1, SequenceEffect DEF LockOwned, beacon
  <2>3. \A h \in Goals \ {g} : Opened(h)'
    BY <2>2 DEF LockOwned, InProgress, Outside, Opened
  <2>4. \A t \in Threads : Raising(t)' => t \in opened'
    BY <1>1, <2>1, RaisesOpened, SequenceReports DEF SequenceCalls, Raising
  <2> QED BY <2>1, <2>2, <2>3, <2>4
<1>2. ASSUME NEW g \in Goals, Serve(g) PROVE OpenedInv'
  <2>1. /\ UNCHANGED << opened, abreast >>
        /\ \A h \in Goals \ {g} : stage'[h] = stage[h]
        /\ stage'[g] \notin {"settle_open", "report"}
    BY <1>2 DEF Serve, TakeLock, Busy, Begin, LeavesWorkspace, Unlock, FinishWith, Goto, At,
       TypeOK, world
  <2>2. \A h \in Goals : Opened(h)'
    BY <2>1 DEF Opened, AtPlaceY
  <2>3. \A t \in Threads : Raising(t)' => Raising(t)
    <3>1. call' = call \/ Report(g, FALSE)
      BY <1>2 DEF Serve, TakeLock, Busy, Begin, LeavesWorkspace, Unlock, FinishWith
    <3>2. CASE call' = call
      BY <3>2 DEF Raising
    <3>3. CASE Report(g, FALSE)
      BY <3>3 DEF Report, TypeOK, Threads, Raising
    <3> QED BY <3>1, <3>2, <3>3
  <2>4. ready' = ready /\ (ready => lock' = lock)
    BY <1>2, RobotControlAssumption DEF Serve, TakeLock, Busy, Begin, LeavesWorkspace, Unlock,
       FinishWith, beacon, server, ReadyInv, ReadyIsOwned, At, Quiet, LockOwned, InProgress, Outside
  <2> QED BY <2>1, <2>2, <2>3, <2>4
<1>3. ASSUME NEW t \in Threads, Publish(t) PROVE OpenedInv'
  <2>1. UNCHANGED << stage, lock, abreast, opened >>
    BY <1>3 DEF Publish, WriteFlag, ReadFlag, SendFlag, world, server
  <2>2. \A g \in Goals : Opened(g)'
    BY <2>1 DEF Opened, AtPlaceY
  <2>3. \A u \in Threads : Raising(u)' => Raising(u)
    BY <1>3 DEF Publish, WriteFlag, ReadFlag, SendFlag, Raising, Reading, Idle, TypeOK
  <2>4. ready' => ready \/ Raising(t)
    BY <1>3 DEF Publish, WriteFlag, ReadFlag, SendFlag, Raising, beacon
  <2>5. Raising(t) => lock = t
    BY DEF ReadyInv, Raisers, LockOwned, InProgress, Outside
  <2> QED BY <2>1, <2>2, <2>3, <2>4, <2>5
<1>4. ASSUME StopOpens \/ SignalStop \/ Tick \/ HomeCalled \/ HomeReached \/ Stays
             \/ \E g \in Goals : Submit(g) \/ RequestCancel(g)
      PROVE  OpenedInv'
  <2>1. UNCHANGED << lock, ready, opened >> /\ (abreast' => abreast)
    <3>1. CASE HomeReached
      BY <3>1 DEF HomeReached, beacon, server
    <3>2. CASE SignalStop
      BY <3>2 DEF SignalStop, beacon, server, world
    <3>3. CASE ~HomeReached /\ ~SignalStop
      BY <1>4, <3>3 DEF StopOpens, Tick, HomeCalled, Stays, Submit, RequestCancel, beacon, server, world
    <3> QED BY <3>1, <3>2, <3>3
  <2>2. \A t \in Threads : Raising(t)' => Raising(t)
    BY <1>4 DEF StopOpens, SignalStop, Tick, HomeCalled, HomeReached, Stays, Submit, RequestCancel,
       Report, Raising, Reading, TypeOK, Threads
  <2>3. \A g \in Goals : stage'[g] = stage[g] \/ stage'[g] \notin {"settle_open", "report"}
    BY <1>4 DEF StopOpens, SignalStop, Tick, HomeCalled, HomeReached, Stays, Submit, RequestCancel,
       Goto, TypeOK
  <2>4. \A g \in Goals : Opened(g)'
    BY <2>1, <2>3 DEF Opened, AtPlaceY
  <2> QED BY <2>1, <2>2, <2>4
<1> QED BY <1>1, <1>2, <1>3, <1>4, StepCases DEF Environment

(* place_ready is up only when the goal being served told the fingers to   *)
(* let go with the TCP at the y of the place point (set_place_ready and    *)
(* is_tcp_at_place_y in execute_pick_and_place), whatever moves and        *)
(* commands fail silently, whatever stops come, and wherever home takes    *)
(* the arm.                                                                *)
THEOREM ReadyOpened == Spec => []ReadyMeansOpened
<1>1. Init => OpenedInv
  BY OpenedInit
<1>2. TypeOK /\ LockOwned /\ ReadyInv /\ OpenedInv /\ [Next]_vars => OpenedInv'
  BY OpenedStep
<1>3. OpenedInv => ReadyMeansOpened
  BY DEF OpenedInv
<1> QED BY <1>1, <1>2, <1>3, ReadyInvariant, PTL DEF Spec
=============================================================================
