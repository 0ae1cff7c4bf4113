------------------------------- MODULE PickAll -------------------------------
(***************************************************************************)
(* The operator scripts pick_all.py and pick_one.py: detect, choose, send  *)
(* one goal, repeat.  The script waits without end for the robot to accept *)
(* a goal, and then for its result for a limited time; a goal it gave up   *)
(* on stays with the robot, which refuses others until it is done.         *)
(***************************************************************************)
EXTENDS Integers, Sequences, FiniteSets, SequencesExt, FiniteSetsExt

CONSTANTS
  CLASSES,
  Requests,      (* the command lines given to the script                  *)
  Tables,        (* what may lie on the table                              *)
  Max_picks, Max_failures,
  Unlimited,     (* 10**9                                                  *)
  None, Malformed

ASSUME PickAllAssumption ==
  /\ Max_picks \in Nat /\ Max_failures \in Nat /\ Unlimited \in Nat
  /\ Tables \subseteq [CLASSES -> Nat]
  /\ \A r \in Requests : Unlimited > Max_picks /\ r.tool \in {"pick_all", "pick_one"}

VARIABLES
  args, pc, exit,
  targets, picked, success_count, pick_count, consecutive_failures,
  target,        (* the class the goal was sent for                        *)
  table, tray,   (* the nuts                                               *)
  inflight,      (* the class of the goal the robot is busy with, or None  *)
  unseen,        (* still wanted, and missing from some detection          *)
  unreported,    (* delivered by a goal that was not answered with success *)
  answer         (* the last result the script received, or None           *)

tally == << picked, success_count, pick_count, consecutive_failures >>
robot == << table, tray, unreported, answer >>
vars  == << args, pc, exit, targets, tally, target, robot, inflight, unseen >>

Order == args.order
InOrder == ToSet(Order) \cap CLASSES
Zero == [c \in CLASSES |-> 0]

Init ==
  /\ args \in Requests /\ table \in Tables
  /\ pc = "parse" /\ exit = -1
  /\ targets = Zero /\ picked = Zero
  /\ success_count = 0 /\ pick_count = 0 /\ consecutive_failures = 0
  /\ target = None /\ inflight = None
  /\ tray = Zero /\ unreported = Zero /\ unseen = {} /\ answer = None

Exit(code) == pc' = "exited" /\ exit' = code

(* build_target_counts: per_class and counts are None and {} when absent.  *)
TargetCounts(order, per_class, counts) ==
  [c \in CLASSES |->
     IF c \in DOMAIN counts THEN counts[c]
     ELSE IF c \notin ToSet(order) THEN 0
     ELSE IF per_class # None THEN per_class
     ELSE IF DOMAIN counts = {} THEN Unlimited ELSE 0]

(* The order file, when it parses, replaces --counts and --per-class.      *)
BadRequest ==
  \/ InOrder # ToSet(Order)
  \/ args.file # None /\ (args.counts # << >> \/ args.file = Malformed)
  \/ args.file = None /\ args.counts = Malformed

Parse ==
  /\ pc = "parse"
  /\ IF args.tool = "pick_all" /\ BadRequest
       THEN Exit(4) /\ UNCHANGED targets
       ELSE /\ pc' = "loop" /\ UNCHANGED exit
            /\ targets' = IF args.tool = "pick_one" THEN Zero
                          ELSE IF args.file # None THEN TargetCounts(Order, None, args.file)
                          ELSE TargetCounts(Order, args.per_class, args.counts)
  /\ UNCHANGED << args, tally, target, robot, inflight, unseen >>

-----------------------------------------------------------------------------
(* select_target.  The choice among the detections of a class (area, then  *)
(* confidence) does not matter to any count and is left out.               *)
EligibleOneMore == { c \in InOrder : picked[c] <= targets[c] } (* mutant *)
Eligible == { c \in InOrder : picked[c] < targets[c] }

Index(c) == SelectInSeq(Order, LAMBDA d : d = c)

BeforeInOrder(c, d) == Index(c) <= Index(d) (* mutant *)
Before(c, d) ==
  picked[c] < picked[d] \/ (picked[c] = picked[d] /\ Index(c) <= Index(d))

SelectTarget(seen) ==
  LET matches == Eligible \cap seen
  IN  IF matches = {} THEN None
      ELSE CHOOSE c \in matches : \A d \in matches : Before(c, d)

(* What detect_once may show with transform_valid: nuts may be overlooked. *)
Visible == SUBSET { c \in CLASSES : table[c] > 0 }

(* A round that ends in a failure, of the script or of its services.       *)
Fails ==
  /\ consecutive_failures' = consecutive_failures + 1
  /\ IF consecutive_failures' >= Max_failures
       THEN Exit(1)
       ELSE pc' = "loop" /\ UNCHANGED exit

Summary == Exit(IF success_count > 0 /\ consecutive_failures < Max_failures THEN 0 ELSE 1)

(* The while condition.                                                    *)
CapReached ==
  /\ args.tool = "pick_all" /\ pc = "loop" /\ pick_count >= Max_picks
  /\ Summary
  /\ UNCHANGED << args, targets, tally, target, robot, inflight, unseen >>

Looping == pc = "loop" /\ args.tool = "pick_all" /\ pick_count < Max_picks

(* call_detect raises, or the response says success = False.               *)
DetectFails ==
  /\ Looping /\ Fails
  /\ UNCHANGED << args, targets, picked, success_count, pick_count, target, robot, inflight, unseen >>

NothingToPick(seen) ==
  /\ Looping
  /\ SelectTarget(seen) = None /\ Summary
  /\ unseen' = unseen \cup (Eligible \ seen)
  /\ UNCHANGED << args, targets, tally, target, robot, inflight >>

(* send_pick up to its first wait; there may be no server.                 *)
Send(c) == target' = c /\ pc' \in {"sending", "raised"} /\ UNCHANGED inflight

SendPick(seen) ==
  /\ Looping
  /\ SelectTarget(seen) # None /\ Send(SelectTarget(seen))
  /\ unseen' = unseen \cup (Eligible \ seen)
  /\ UNCHANGED << args, exit, targets, tally, robot >>

(* The robot's reply to the request, which may never come: a busy robot    *)
(* rejects the goal.                                                       *)
GoalReply ==
  /\ pc = "sending"
  /\ IF inflight = None THEN inflight' = target /\ pc' = "waiting"
                        ELSE UNCHANGED inflight /\ pc' = "raised"
  /\ UNCHANGED << args, exit, targets, tally, target, robot, unseen >>

-----------------------------------------------------------------------------
(* pick_one.py: one detection, one goal, and an exit code for each outcome.*)
OneDetectFails ==
  /\ pc = "loop" /\ args.tool = "pick_one"
  /\ Exit(4) \/ Exit(2)
  /\ UNCHANGED << args, targets, tally, target, robot, inflight, unseen >>

OneStops(seen) ==
  /\ pc = "loop" /\ args.tool = "pick_one"
  /\ \/ args.class \notin seen /\ Exit(3)
     \/ args.class \in seen /\ args.dry_run /\ Exit(0)
  /\ UNCHANGED << args, targets, tally, target, robot, inflight, unseen >>

OneSends(seen) ==
  /\ pc = "loop" /\ args.tool = "pick_one"
  /\ args.class \in seen /\ ~args.dry_run
  /\ Send(args.class)
  /\ UNCHANGED << args, exit, targets, tally, robot, unseen >>

OneFinished(success) == (* mutant: the result is not looked at *)
  /\ args.tool = "pick_one" /\ Exit(0)
  /\ UNCHANGED tally

OneAnswered(success) ==
  /\ args.tool = "pick_one" /\ Exit(IF success THEN 0 ELSE 1)
  /\ UNCHANGED tally

-----------------------------------------------------------------------------
(* What becomes of a nut the robot was sent for: it stays, it is delivered *)
(* or it is lost from the table and not delivered.  A nut an earlier goal  *)
(* took away cannot be delivered again.                                    *)
Nut(c, fate) ==
  /\ fate # "stays" => table[c] > 0
  /\ table' = IF fate = "stays" THEN table ELSE [table EXCEPT ![c] = @ - 1]
  /\ tray' = IF fate = "delivered" THEN [tray EXCEPT ![c] = @ + 1] ELSE tray

Report(c, fate, success) ==
  unreported' = IF fate = "delivered" /\ ~success THEN [unreported EXCEPT ![c] = @ + 1]
                ELSE unreported

Fates == {"stays", "delivered", "lost"}

(* The answer comes in time.  Success may be reported of a nut that was    *)
(* lost on the way, and a failure after the nut was put down.              *)
PickSucceeds(fate) ==
  /\ pc = "waiting"
  /\ Nut(inflight, fate) /\ Report(inflight, fate, TRUE) /\ inflight' = None
  /\ answer' = "success"
  /\ \/ /\ args.tool = "pick_all"
        /\ pick_count' = pick_count + 1 /\ success_count' = success_count + 1
        /\ picked' = [picked EXCEPT ![target] = @ + 1]
        /\ consecutive_failures' = 0
        /\ pc' = "loop" /\ UNCHANGED exit
     \/ OneAnswered(TRUE)
  /\ UNCHANGED << args, targets, target, unseen >>

PickFails(fate) ==
  /\ pc = "waiting"
  /\ Nut(inflight, fate) /\ Report(inflight, fate, FALSE) /\ inflight' = None
  /\ answer' = "failure"
  /\ \/ /\ args.tool = "pick_all" /\ pick_count' = pick_count + 1 /\ Fails
        /\ UNCHANGED << picked, success_count >>
     \/ OneAnswered(FALSE)
  /\ UNCHANGED << args, targets, target, unseen >>

(* action_timeout passes: nobody cancels the goal.                         *)
PickTimesOut ==
  /\ pc = "waiting"
  /\ pc' = "raised"
  /\ UNCHANGED << args, exit, targets, tally, target, robot, inflight, unseen >>

(* Mutant: an error is not counted as a failure.                           *)
ActionErrorUncounted ==
  /\ pc = "raised" /\ pc' = "loop"
  /\ UNCHANGED << args, exit, targets, tally, target, robot, inflight, unseen >>

(* RuntimeError out of send_pick: no server, rejected, or no answer.       *)
ActionError ==
  /\ pc = "raised"
  /\ IF args.tool = "pick_all" THEN Fails
                               ELSE Exit(4) /\ UNCHANGED consecutive_failures
  /\ UNCHANGED << args, targets, picked, success_count, pick_count, target, robot, inflight, unseen >>

(* The robot finishes a goal nobody waits for any more.                    *)
AbandonedEnds(fate) ==
  /\ inflight # None /\ pc # "waiting"
  /\ Nut(inflight, fate) /\ Report(inflight, fate, FALSE) /\ inflight' = None
  /\ UNCHANGED << args, pc, exit, targets, tally, target, unseen, answer >>

(* KeyboardInterrupt.  A request already sent may be accepted after it.    *)
Interrupt ==
  /\ pc \in {"loop", "sending", "waiting"}
  /\ Exit(IF args.tool = "pick_all" THEN 2 ELSE 4)
  /\ inflight' \in IF pc = "sending" /\ inflight = None THEN {None, target} ELSE {inflight}
  /\ UNCHANGED << args, targets, tally, target, robot, unseen >>

Detect ==
  \E seen \in Visible :
    NothingToPick(seen) \/ SendPick(seen) \/ OneStops(seen) \/ OneSends(seen)
Answer == \E fate \in Fates : PickSucceeds(fate) \/ PickFails(fate)
Script ==
  \/ Parse \/ CapReached \/ DetectFails \/ OneDetectFails \/ Detect
  \/ Answer \/ PickTimesOut \/ ActionError

Next ==
  \/ Script \/ GoalReply \/ Interrupt
  \/ \E fate \in Fates : AbandonedEnds(fate)

(* The script is a single thread, and every wait in it has a timeout but   *)
(* the one for GoalReply, of which nothing is assumed.                     *)
Spec == Init /\ [][Next]_vars /\ WF_vars(Script)

-----------------------------------------------------------------------------
(* No class is picked beyond its quota, and the tray holds more than the   *)
(* quota only by nuts of goals that were lost track of (select_target,     *)
(* build_target_counts, and the retry of every goal that raised).          *)
QuotaKept ==
  \A c \in CLASSES : picked[c] <= targets[c]
                     /\ (args.tool = "pick_all" => tray[c] <= targets[c] + unreported[c])

(* "balanced picking even when stops happen partway through": a class      *)
(* falls two picks behind another of the order only when it has its quota  *)
(* or some detection did not show it (select_target).                      *)
Balanced ==
  \A c, d \in InOrder :
    picked[d] >= picked[c] + 2 => picked[c] = targets[c] \/ c \in unseen

(* Exit code 0 of pick_all leaves a class of the order short only when a   *)
(* detection did not show it or the cap on picks was reached; of pick_one, *)
(* it says that the one goal was answered with success or none was wanted. *)
ExitTells ==
  exit = 0 =>
    IF args.tool = "pick_all"
      THEN \A c \in InOrder : picked[c] = targets[c] \/ c \in unseen \/ pick_count = Max_picks
      ELSE args.dry_run \/ answer = "success"

(* Failures, refusals and timeouts, in any mix with successes, cannot keep *)
(* a script in its loop (the two counters of main): it exits, or it waits  *)
(* for ever for the robot to accept or refuse a goal.                      *)
Finishes == <>(pc = "exited") \/ <>[](pc = "sending")
=============================================================================
