----------------------------- MODULE TaskManager -----------------------------
(***************************************************************************)
(* The worker of task_manager_node: one cycle fetches an order, goes home, *)
(* counts the nuts, works through the order book (detect, select, push     *)
(* clusters apart, pick) and then verifies by counting again, picking what *)
(* is missing for up to MaxRounds rounds.                                  *)
(*                                                                         *)
(* The services and the action server the worker calls are its             *)
(* environment: every call may answer, fail or time out.  What the robot   *)
(* really does to the nuts is kept in `table`, `tray` and `lost`, which    *)
(* the code never reads; the code sees the table only through detections.  *)
(***************************************************************************)
EXTENDS OrderBook

CONSTANTS
  Orders,              (* the orders a provider may return                 *)
  Tables,              (* the nuts that may lie on the table at first      *)
  VerificationEnabled, (* verification_enabled                             *)
  MaxRounds,           (* max_verification_rounds                          *)
  ClusterEnabled,      (* cluster_enabled                                  *)
  MaxPushes,           (* max_cluster_pushes_per_class                     *)
  Blind,               (* nuts of a class one detection may fail to see    *)
  DbMayFail            (* TRUE: a database write may be lost (swallowed)   *)

ASSUME TaskManagerAssumption ==
  /\ Orders \subseteq [Classes -> Int]
  /\ Tables \subseteq [Classes -> Nat]
  /\ {VerificationEnabled, ClusterEnabled, DbMayFail} \subseteq BOOLEAN
  /\ MaxRounds \in Int
  /\ MaxPushes \in Int
  /\ Blind \in Nat

VARIABLES
  pc,         (* where the worker is; "idle" when there is none            *)
  status,     (* the last value on /task/status                            *)
  result,     (* the verdict on /task/result, "none" before it             *)
  stop,       (* _stop_event                                               *)
  order,      (* the fetched OrderBook                                     *)
  correction, (* correction_order, the empty book for None                 *)
  round,      (* verification rounds entered                               *)
  target,     (* target_class of the current iteration                     *)
  pushes,     (* _cluster_push_counts                                      *)
  ordered,    (* ordered_counts                                            *)
  initial,    (* initial_counts                                            *)
  shortage,   (* the COUNT_MISMATCH amounts of the last round              *)
  deducted,   (* units of stock deducted in this cycle                     *)
  table,      (* nuts on the table                                         *)
  tray,       (* nuts delivered in this cycle                              *)
  lost        (* nuts that left the table without being delivered          *)

codeVars == << pc, status, result, stop, order, correction, round, target,
               pushes, ordered, initial, shortage, deducted >>
world == << table, tray, lost >>
vars == << codeVars, world >>

-----------------------------------------------------------------------------
(* Vocabulary.                                                             *)

Running == { "fetch", "home", "initial", "loop", "detect", "select", "push",
             "pick", "verify", "recount", "done" }

Finished == { "done", "aborted", "safety_stop" }

Statuses == { "idle", "init", "detect", "select_target", "cluster_push",
              "pick_and_place", "verify" } \cup Finished

NoCounts == [c \in Classes |-> 0]

(* The book _process_order_book is working on: the order itself first,     *)
(* then the correction of the current round.                               *)
Current == IF round = 0 THEN order ELSE correction

SetCurrent(b) ==
  IF round = 0 THEN order' = b      /\ UNCHANGED correction
               ELSE correction' = b /\ UNCHANGED order

(* The cycle ends with a status and a verdict, and the worker thread exits.*)
End(finalStatus, verdict) ==
  /\ pc' = "idle"
  /\ status' = finalStatus
  /\ result' = verdict

Abort == End("aborted", "failure")

Goto(to) == pc' = to /\ UNCHANGED << status, result >>

Enter(to, newStatus) == pc' = to /\ status' = newStatus /\ UNCHANGED result

(* What a move of the arm may do to one nut of class c.                    *)
Deliver(c) ==
  /\ table[c] > 0
  /\ table' = [table EXCEPT ![c] = @ - 1]
  /\ tray'  = [tray EXCEPT ![c] = @ + 1]
  /\ UNCHANGED lost

Lose(c) ==
  /\ table[c] > 0
  /\ table' = [table EXCEPT ![c] = @ - 1]
  /\ lost'  = [lost EXCEPT ![c] = @ + 1]
  /\ UNCHANGED tray

Undisturbed == UNCHANGED world

(* _count_detected_objects: only ranked classes are counted, and a         *)
(* detection may miss up to Blind nuts of a class.                         *)
Count(hidden) ==
  [c \in Classes |-> IF c \in Ranked THEN Clamp0(table[c] - hidden[c]) ELSE 0]

Hidden == [Classes -> 0 .. Blind]

-----------------------------------------------------------------------------
Init ==
  /\ pc = "idle" /\ status = "idle" /\ result = "none"
  /\ stop = FALSE
  /\ order = EmptyBook /\ correction = EmptyBook
  /\ round = 0
  /\ target \in Classes
  /\ pushes = NoCounts /\ ordered = NoCounts /\ initial = NoCounts
  /\ shortage = NoCounts /\ deducted = NoCounts
  /\ table \in Tables
  /\ tray = NoCounts /\ lost = NoCounts

(* Mutant: a cycle may be started over a running one.                      *)
StartAnyTime ==
  /\ pc' = "fetch" /\ status' = "init" /\ result' = "none"
  /\ stop' = FALSE
  /\ order' = EmptyBook /\ correction' = EmptyBook /\ round' = 0
  /\ pushes' = NoCounts /\ ordered' = NoCounts /\ initial' = NoCounts
  /\ shortage' = NoCounts /\ deducted' = NoCounts
  /\ table' \in Tables
  /\ tray' = NoCounts /\ lost' = NoCounts
  /\ UNCHANGED target

(* start_worker and the first lines of _run.  Between cycles the operator   *)
(* may have put other nuts on the table; tray, lost and deducted are       *)
(* measured per cycle.                                                     *)
Start ==
  /\ pc = "idle"
  /\ pc' = "fetch" /\ status' = "init" /\ result' = "none"
  /\ stop' = FALSE
  /\ order' = EmptyBook /\ correction' = EmptyBook /\ round' = 0
  /\ pushes' = NoCounts /\ ordered' = NoCounts /\ initial' = NoCounts
  /\ shortage' = NoCounts /\ deducted' = NoCounts
  /\ table' \in Tables
  /\ tray' = NoCounts /\ lost' = NoCounts
  /\ UNCHANGED target

(* stop_worker.                                                            *)
Stop ==
  /\ ~stop
  /\ stop' = TRUE
  /\ UNCHANGED << pc, status, result, order, correction, round, target,
                  pushes, ordered, initial, shortage, deducted, world >>

cycle == << correction, round, target, pushes, shortage, deducted >>

(* What the order service answers; the other providers answer no less.     *)
Fetch == \E counts \in Orders : order' = NewBook(counts) /\ ordered' = counts

FetchOrder ==
  /\ pc = "fetch"
  /\ Fetch
  /\ Goto("home")
  /\ UNCHANGED << stop, cycle, initial, world >>

GoHome ==
  /\ pc = "home"
  /\ Goto(IF VerificationEnabled THEN "initial" ELSE "loop")
  /\ UNCHANGED << stop, order, ordered, cycle, initial, world >>

InitialCount ==
  /\ pc = "initial"
  /\ \E hidden \in Hidden : initial' = Count(hidden)
  /\ Goto("loop")
  /\ UNCHANGED << stop, order, ordered, cycle, world >>

(* The three steps before the first pick each end the cycle when they fail.*)
PrepareFails ==
  /\ pc \in { "fetch", "home", "initial" }
  /\ Abort
  /\ UNCHANGED << stop, order, ordered, cycle, initial, world >>

-----------------------------------------------------------------------------
(* _process_order_book.                                                    *)

loopConst == << stop, round, ordered, initial, shortage >>

BeginIteration ==
  /\ pc = "loop"
  /\ ~stop
  /\ target' \in NextClasses(Current)
  /\ Enter("detect", "detect")
  /\ UNCHANGED << loopConst, order, correction, pushes, deducted, world >>

(* detect_once unavailable, timed out or not ready.                        *)
DetectFails ==
  /\ pc = "detect"
  /\ SetCurrent(AfterDetectMiss(Current, target))
  /\ Goto("loop")
  /\ UNCHANGED << loopConst, target, pushes, deducted, world >>

Detected ==
  /\ pc = "detect"
  /\ Enter("select", "select_target")
  /\ UNCHANGED << loopConst, order, correction, target, pushes, deducted, world >>

(* choose_target returns None.                                             *)
NoCandidate ==
  /\ pc = "select"
  /\ SetCurrent(AfterDetectMiss(Current, target))
  /\ Goto("loop")
  /\ UNCHANGED << loopConst, target, pushes, deducted, world >>

(* Mutant: pushes are not counted and not capped.                          *)
SendPushUncapped ==
  /\ pc = "select"
  /\ ClusterEnabled
  /\ pushes' = pushes
  /\ Enter("push", "cluster_push")
  /\ UNCHANGED << loopConst, order, correction, target, deducted, world >>

(* The candidate is clustered and choose_cluster_plan has a plan.          *)
SendPush ==
  /\ pc = "select"
  /\ ClusterEnabled
  /\ pushes[target] < MaxPushes
  /\ pushes' = [pushes EXCEPT ![target] = @ + 1]
  /\ Enter("push", "cluster_push")
  /\ UNCHANGED << loopConst, order, correction, target, deducted, world >>

SendPick ==
  /\ pc = "select"
  /\ Enter("pick", "pick_and_place")
  /\ UNCHANGED << loopConst, order, correction, target, pushes, deducted, world >>

(* A push may sweep a nut out of the workspace.                            *)
PushEffect == Undisturbed \/ \E c \in Classes : Lose(c)

PushSucceeds ==
  /\ pc = "push"
  /\ PushEffect
  /\ Goto("loop")
  /\ UNCHANGED << loopConst, order, correction, target, pushes, deducted >>

(* A push that failed, with whatever code, is followed by a pick of the    *)
(* same candidate.                                                         *)
PushFails ==
  /\ pc = "push"
  /\ PushEffect
  /\ Enter("pick", "pick_and_place")
  /\ UNCHANGED << loopConst, order, correction, target, pushes, deducted >>

PushUnavailable ==
  /\ pc = "push"
  /\ PushEffect
  /\ Abort
  /\ UNCHANGED << loopConst, order, correction, target, pushes, deducted >>

(* Mutant: stock is deducted in the primary phase only.                    *)
PickSucceedsPrimary ==
  /\ pc = "pick"
  /\ Deliver(target) \/ Lose(target) \/ Undisturbed
  /\ SetCurrent(ConsumeOne(Current, target))
  /\ deducted' = [deducted EXCEPT ![target] = IF round = 0 THEN @ + 1 ELSE @]
  /\ Goto("loop")
  /\ UNCHANGED << loopConst, target, pushes >>

(* One transaction; the caller swallows every failure of it, an empty stock*)
(* among them.                                                             *)
UpdateInventory(amount) == deducted' = [deducted EXCEPT ![target] = @ + amount]

DbUpdateInventory == UpdateInventory(1) \/ (DbMayFail /\ UNCHANGED deducted)

(* The action reports success: the nut was delivered, or it slipped from   *)
(* the gripper on the way, back onto the table or out of sight.            *)
PickSucceeds ==
  /\ pc = "pick"
  /\ Deliver(target) \/ Lose(target) \/ Undisturbed
  /\ SetCurrent(ConsumeOne(Current, target))
  /\ DbUpdateInventory
  /\ Goto("loop")
  /\ UNCHANGED << loopConst, target, pushes >>

(* grasp_not_detected: the gripper opened again over the table.            *)
GraspMissed ==
  /\ pc = "pick"
  /\ SetCurrent(AfterPickFailure(Current, target, GraspNotDetected))
  /\ Goto("loop")
  /\ UNCHANGED << loopConst, target, pushes, deducted, world >>

(* Any other code aborts; the arm may have stopped before the grasp, with  *)
(* the nut in the gripper, or after it had let go of it.                   *)
PickFails(failureCode) ==
  /\ pc = "pick"
  /\ SetCurrent(AfterPickFailure(Current, target, failureCode))
  /\ Deliver(target) \/ Lose(target) \/ Undisturbed
  /\ Abort
  /\ UNCHANGED << loopConst, target, pushes, deducted >>

(* No server, the goal rejected, or no answer in time.  The goal is not    *)
(* cancelled: the arm may still finish it, here at once.                   *)
PickUnavailable ==
  /\ pc = "pick"
  /\ Deliver(target) \/ Lose(target) \/ Undisturbed
  /\ Abort
  /\ UNCHANGED << loopConst, order, correction, target, pushes, deducted >>

(* The end of the loop.                                                    *)
Stopped ==
  /\ pc = "loop"
  /\ stop
  /\ End("safety_stop", "failure")
  /\ UNCHANGED << loopConst, order, correction, target, pushes, deducted, world >>

BookDone ==
  /\ pc = "loop"
  /\ ~stop /\ ~HasRemaining(Current)
  /\ Goto(IF VerificationEnabled /\ round < MaxRounds THEN "verify" ELSE "done")
  /\ UNCHANGED << loopConst, order, correction, target, pushes, deducted, world >>

-----------------------------------------------------------------------------
(* The verification rounds and the verdict.                                *)

EnterRound ==
  /\ pc = "verify"
  /\ round' = round + 1
  /\ Enter("recount", "verify")
  /\ UNCHANGED << stop, order, correction, target, pushes, ordered, initial,
                  shortage, deducted, world >>

(* _detect_counts_from_home and the correction order built from it.        *)
Recount ==
  /\ pc = "recount"
  /\ \E hidden \in Hidden :
       LET final == Count(hidden)
       IN  /\ shortage' = Missing(ordered, initial, final)
           /\ correction' = NewBook(Remaining(ordered, initial, final))
  /\ Goto(IF HasRemaining(correction') THEN "loop" ELSE "done")
  /\ UNCHANGED << stop, order, round, target, pushes, ordered, initial,
                  deducted, world >>

RecountFails ==
  /\ pc = "recount"
  /\ Abort
  /\ UNCHANGED << loopConst, order, correction, target, pushes, deducted, world >>

Finish ==
  /\ pc = "done"
  /\ End("done", IF ~HasRemaining(correction) /\ AllDone(order)
                   THEN "success" ELSE "failure")
  /\ UNCHANGED << loopConst, order, correction, target, pushes, deducted, world >>

-----------------------------------------------------------------------------
Prepare == FetchOrder \/ GoHome \/ InitialCount \/ PrepareFails

Observe == BeginIteration \/ DetectFails \/ Detected \/ NoCandidate

Push ==
  \/ SendPush
  \/ PushSucceeds
  \/ PushFails
  \/ PushUnavailable

Pick ==
  \/ SendPick
  \/ PickSucceeds
  \/ GraspMissed
  \/ \E c \in HardCodes : PickFails(c)
  \/ PickUnavailable

Conclude == Stopped \/ BookDone \/ EnterRound \/ Recount \/ RecountFails \/ Finish

(* One step of the worker thread.                                          *)
Work == Prepare \/ Observe \/ Push \/ Pick \/ Conclude

Next == Start \/ Stop \/ Work

(* Every call the worker makes has a timeout, so the thread never blocks   *)
(* for ever; nobody is obliged to start a cycle or to stop one.            *)
Spec == Init /\ [][Next]_vars /\ WF_vars(Work)

-----------------------------------------------------------------------------
(* Properties.                                                             *)

(* Every variable has its type.                                            *)
TypeOK ==
  /\ pc \in Running \cup {"idle"}
  /\ status \in Statuses
  /\ result \in {"none", "success", "failure"}
  /\ stop \in BOOLEAN
  /\ order \in Book /\ correction \in Book
  /\ round \in Nat
  /\ target \in Classes
  /\ pushes \in [Classes -> Nat]
  /\ ordered \in [Classes -> Int]
  /\ initial \in [Classes -> Nat]
  /\ shortage \in [Classes -> Nat]
  /\ deducted \in [Classes -> Nat]
  /\ table \in [Classes -> Nat]
  /\ tray \in [Classes -> Nat]
  /\ lost \in [Classes -> Nat]

(* No order is over-filled: whatever mix of drops, retries, cluster pushes *)
(* and correction rounds a cycle goes through, the robot never delivers    *)
(* more nuts of a class than were ordered.  It rests on every detection    *)
(* seeing all the nuts (Blind = 0): what the clamps of                     *)
(* _remaining_from_verification are for.                                   *)
NoOverPick == \A c \in Classes : tray[c] <= Clamp0(ordered[c])

(* A cycle whose last recount found nothing missing and that reports       *)
(* success has emptied the table of everything that was ordered: each      *)
(* ordered nut is on the tray, or was seen to leave the table (Blind = 0). *)
VerifiedSuccess ==
  (result = "success" /\ round > 0 /\ shortage = NoCounts) =>
    \A c \in Ranked : ordered[c] <= tray[c] + lost[c]

(* Stock: when no database write is lost, every nut delivered by a cycle   *)
(* that ended in DONE was deducted, in the primary phase or in any         *)
(* correction round.                                                       *)
DeliveredIsDeducted ==
  (status = "done" /\ ~DbMayFail) => \A c \in Classes : tray[c] <= deducted[c]

(* The worker always comes to an end: the retry budgets, the push cap and  *)
(* the round cap together leave no endless cycle, whatever the detector    *)
(* and the robot answer.                                                   *)
CycleEnds == pc # "idle" ~> pc = "idle"
=============================================================================
